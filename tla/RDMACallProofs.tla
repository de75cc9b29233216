---------------------------- MODULE RDMACallProofs ----------------------------
(***************************************************************************)
(* The inductive invariant of the RDMA transport, for any number of        *)
(* clients, objects, cells and asynchronous requests and any size of the   *)
(* send queue, as long as the clients are Dependable, and that the steps   *)
(* of a client's thread inside a call and of the network cards keep it.    *)
(* RDMAStoreProofs has the other steps and the theorems.                   *)
(***************************************************************************)
EXTENDS RDMAStore, Integers, TLAPS

\* One thread uses a client; it allocates and removes only with room in the send
\* queue, exits with nothing in flight, and made the client by make_unique.
Dependable == NThreads = 1 /\ Careful /\ CleanExit /\ Zeroed

-----------------------------------------------------------------------------
(* The inductive invariant: first the shape of the state, ...              *)

User(c) == <<c, 1>>
Call(c) == thr[User(c)]
Wanted(c) == Call(c).wr[1]

Cells == Addrs \cup {NullAddr}
Vals == {Junk} \cup UNION {ValuesOf[c] : c \in Clients}
Msgs == [op : {"none", "Alloc", "Dealloc", "AllocAck", "DeallocAck"}, addr : Cells]
Posts(c) == [op : {"write", "read", "send"}, by : {User(c)}, addr : Cells, val : Vals,
             fut : 0 .. Depth]
Completions(c) == [op : {"write", "read", "send", "recv"}, by : {User(c)}, addr : Cells,
                   val : Vals, fut : 0 .. Depth]
CallType(c) ==
    [pc : {"idle", "copy", "receive", "check", "queue", "sent", "reply", "result"},
     call : {"none", "write", "read", "remove"}, oid : ObjectID \cup {"none"}, val : Vals,
     fut : 0 .. Depth, wr : Seq(Posts(c)), freed : BOOLEAN]
FutureType == [busy : BOOLEAN, done : BOOLEAN, read : BOOLEAN, val : Vals, expect : Vals]

ClientType(c) ==
    /\ DOMAIN objects_[c] \subseteq ObjectID /\ DOMAIN written[c] = DOMAIN objects_[c]
    /\ \A o \in DOMAIN objects_[c] : objects_[c][o] \in Addrs /\ written[c][o] \in Vals
    /\ Call(c) \in CallType(c)
    /\ fut[User(c)] \in [1 .. Depth -> FutureType]
    /\ sq[c] \in Seq(Posts(c)) /\ unacked[c] \in Seq(Posts(c))
    /\ cq[c] \in Seq(Completions(c)) /\ poller[c] \in Seq(Completions(c)) /\ Len(poller[c]) <= 1

SharedType ==
    /\ conn \in [Clients -> {"start", "built", "resolving", "connecting", "established", "exited"}]
    /\ send_msg \in [Clients -> Msgs] /\ recv_msg \in [Clients -> Msgs]
    /\ srecv_msg \in [Clients -> Msgs] /\ replies \in [Clients -> Seq(Msgs)]
    /\ recv_sem \in [Clients -> BOOLEAN] /\ recvs \in [Clients -> Nat]
    /\ outstanding_send_wr \in [Clients -> Int]
    /\ DOMAIN objects_ = Clients /\ DOMAIN written = Clients
    /\ DOMAIN thr = Threads /\ DOMAIN fut = Threads
    /\ DOMAIN sq = Clients /\ DOMAIN unacked = Clients /\ DOMAIN cq = Clients /\ DOMAIN poller = Clients
    /\ scq \in Seq(Clients) /\ spoller \in Seq(Clients) /\ Len(spoller) <= 1
    /\ allocated \subseteq Addrs /\ abandoned \subseteq Addrs /\ memory \in [Addrs -> Vals]

TypeInv == SharedType /\ \A c \in Clients : ClientType(c)

\* ... and of the call a client is in.
Sending(c) == Call(c).wr # <<>> /\ Wanted(c).op = "send"

CallShape(c) ==
    LET T == Call(c)
        oid == T.oid
        wr == Wanted(c)
    IN  /\ conn[c] # "established" => T.pc = "idle"
        /\ T.pc = "idle" => T = AtRest
        /\ T.pc # "idle" => Len(T.wr) = 1 /\ oid \in ObjectID
        /\ T.pc \in {"copy", "receive", "reply", "result"} => wr.op = "send"
        /\ T.pc # "idle" /\ wr.op = "send" =>
              /\ oid \notin DOMAIN objects_[c] /\ wr.fut = Sync
              /\ \/ T.call = "write" /\ T.val # Junk
                 \/ T.call = "remove" /\ T.fut = Sync /\ wr.addr \in Addrs
        /\ T.pc # "idle" /\ wr.op # "send" =>
              /\ T.call = wr.op /\ T.fut = wr.fut
              /\ T.pc = "sent" => wr.op = "write" /\ wr.fut = Sync
              /\ T.pc # "sent" => oid \in DOMAIN objects_[c] /\ wr.addr = objects_[c][oid]
              /\ wr.op = "write" => wr.val # Junk
              /\ wr.op = "read" => wr.fut # Sync

-----------------------------------------------------------------------------
(* ... then the exchange of messages with the server.  Where the message   *)
(* or its answer is, from the client's send queue to recv_sem, is the      *)
(* stage of the exchange; "none" before it is posted, and after.           *)

Stages == {"none", "sq", "scq", "spoller", "replies", "cq", "poller", "sem"}

InScq(c) == \E i \in 1 .. Len(scq) : scq[i] = c
OnceInScq(c) == \A i, j \in 1 .. Len(scq) : scq[i] = c /\ scq[j] = c => i = j
InCq(c) == \E i \in 1 .. Len(cq[c]) : cq[c][i].op = "recv"
AtPoller(c) == poller[c] # <<>> /\ poller[c][1].op = "recv"

Stage(c, s) ==
    /\ s # "none" <=> Call(c).pc \in {"sent", "reply"} /\ Sending(c)
    /\ s = "sq" => sq[c] # <<>>
    /\ \A i \in 1 .. Len(sq[c]) : sq[c][i].op = "send" <=> s = "sq" /\ i = Len(sq[c])
    /\ s \notin {"none", "sq"} => sq[c] = <<>>
    /\ InScq(c) <=> s = "scq"
    /\ OnceInScq(c)
    /\ spoller = <<c>> <=> s = "spoller"
    /\ Len(replies[c]) = IF s = "replies" THEN 1 ELSE 0
    /\ InCq(c) <=> s = "cq"
    /\ \A i, j \in 1 .. Len(cq[c]) : cq[c][i].op = "recv" /\ cq[c][j].op = "recv" => i = j
    /\ AtPoller(c) <=> s = "poller"
    /\ recv_sem[c] <=> s = "sem"

\* What the client asks, and what the server answered.
Asked(c) == IF Call(c).call = "write" THEN Alloc ELSE Dealloc(Wanted(c).addr)
Answer(c, s) == IF s = "replies" THEN replies[c][1] ELSE recv_msg[c]
Answered(c, s) == s \in {"replies", "cq", "poller", "sem"} \/ Call(c).pc = "result"

Messages(c, s) ==
    LET pc == Call(c).pc
    IN  /\ pc = "receive" \/ (pc \in {"check", "queue"} /\ Sending(c)) \/ s = "sq" => send_msg[c] = Asked(c)
        /\ s \in {"scq", "spoller"} => srecv_msg[c] = Asked(c)
        /\ Answered(c, s) => Answer(c, s).op = IF Call(c).call = "write" THEN "AllocAck" ELSE "DeallocAck"
        /\ recvs[c] = IF \/ pc \in {"check", "queue"} /\ Sending(c)
                         \/ s \in {"sq", "scq", "spoller", "replies"}
                      THEN 1 ELSE 0

-----------------------------------------------------------------------------
(* ... the count of the send requests, and the room a call needs, ...      *)

\* The requests posted and not completed, and the answer.
Pending(c) == Len(sq[c]) + Len(unacked[c]) + Len(cq[c]) + Len(poller[c])

Room(c, s) ==
    LET n == outstanding_send_wr[c]
        T == Call(c)
    IN  /\ Pending(c) = IF s \in {"cq", "poller"} THEN n + 1 ELSE n
        /\ n <= MAX_SEND_WR
        /\ T.pc \in {"copy", "receive"} \/ (T.pc \in {"check", "queue"} /\ Sending(c)) =>
              n + 1 <= MAX_SEND_WR /\ (T.call = "write" => n + 2 <= MAX_SEND_WR)
        /\ T.pc \in {"sent", "reply", "result"} /\ Sending(c) /\ T.call = "write" => n + 1 <= MAX_SEND_WR
        /\ T.pc = "queue" => n + 1 <= MAX_SEND_WR
        /\ T.pc = "check" /\ T.call = "write" /\ ~Sending(c) /\ written[c][T.oid] = Junk => n + 1 <= MAX_SEND_WR

-----------------------------------------------------------------------------
(* ... who owns which cell of the pool: a client owns those of its objects *)
(* and the one that is on its way to it or back, ...                       *)

Moving(c, s) ==
    IF Call(c).pc = "idle" THEN {}
    ELSE IF Call(c).call = "remove" THEN IF Answered(c, s) THEN {} ELSE {Wanted(c).addr}
    ELSE IF Answered(c, s) THEN {Answer(c, s).addr} \ {NullAddr} ELSE {}

Own(c, s) == Located(c) \cup Moving(c, s)

Neat(c, s) ==
    /\ \A o, p \in DOMAIN objects_[c] : objects_[c][o] = objects_[c][p] => o = p
    /\ Located(c) \cap Moving(c, s) = {}
    /\ \A i \in 1 .. Len(sq[c]) : sq[c][i].op # "send" => sq[c][i].addr \in Own(c, s)

Owners(st) ==
    /\ \A c, d \in Clients : c # d => Own(c, st[c]) \cap Own(d, st[d]) = {}
    /\ \A c \in Clients : Own(c, st[c]) \subseteq allocated \ abandoned
    /\ abandoned \subseteq allocated
    /\ \A a \in allocated \ abandoned : \E c \in Clients : a \in Own(c, st[c])

-----------------------------------------------------------------------------
(* ... each future's one request, ...                                      *)

Carries(q, f) == \E i \in 1 .. Len(q) : q[i].fut = f
Once(q) == \A i, j \in 1 .. Len(q) : q[i].fut = q[j].fut /\ q[i].fut # Sync => i = j

Futures(c) ==
    LET F == fut[User(c)]
        T == Call(c)
    IN  /\ \A f \in 1 .. Depth :
              /\ T.fut = f \/ Carries(sq[c], f) \/ Carries(unacked[c], f) \/ Carries(cq[c], f) =>
                    F[f].busy /\ ~F[f].done
              /\ T.fut = f => ~Carries(sq[c], f) /\ ~Carries(unacked[c], f) /\ ~Carries(cq[c], f)
              /\ Carries(sq[c], f) => ~Carries(unacked[c], f) /\ ~Carries(cq[c], f)
              /\ Carries(unacked[c], f) => ~Carries(cq[c], f)
        /\ Once(sq[c]) /\ Once(unacked[c]) /\ Once(cq[c])

-----------------------------------------------------------------------------
(* ... and the values: what a cell will hold once the first n requests of  *)
(* a queue are executed.                                                   *)

Writes(wr, a) == wr.op = "write" /\ wr.addr = a

Will(q, m, a, n, v) ==
    \/ m[a] = v /\ \A i \in 1 .. n : ~Writes(q[i], a)
    \/ \E i \in 1 .. n : Writes(q[i], a) /\ q[i].val = v /\ \A j \in i + 1 .. n : ~Writes(q[j], a)

\* A future knows whether its request is a read.
Kinds(q, F) == \A i \in 1 .. Len(q) : q[i].fut # Sync => (F[q[i].fut].read <=> q[i].op = "read")

\* The reads that have been executed.
Got(q, F) ==
    \A i \in 1 .. Len(q) : q[i].op = "read" =>
        q[i].fut # Sync /\ F[q[i].fut].expect = q[i].val /\ q[i].val # Junk

\* The reads that have not.
WillGet(q, m, F) ==
    \A i \in 1 .. Len(q) : q[i].op = "read" =>
        /\ q[i].fut # Sync /\ F[q[i].fut].expect # Junk
        /\ Will(q, m, q[i].addr, i, F[q[i].fut].expect)

Holds(c) ==
    \A o \in DOMAIN objects_[c] :
        IF written[c][o] = Junk
        THEN Call(c).pc \in {"check", "queue"} /\ Call(c).call = "write" /\ Call(c).oid = o
        ELSE Will(sq[c], memory, objects_[c][o], Len(sq[c]), written[c][o])

Fresh(c) ==
    LET F == fut[User(c)]
    IN  /\ Holds(c)
        /\ Call(c).fut # Sync => (F[Call(c).fut].read <=> Call(c).call = "read")
        /\ Kinds(sq[c], F) /\ Kinds(unacked[c], F) /\ Kinds(cq[c], F)
        /\ WillGet(sq[c], memory, F) /\ Got(unacked[c], F) /\ Got(cq[c], F)
        /\ \A f \in 1 .. Depth : F[f].busy /\ F[f].done /\ F[f].read => F[f].val = F[f].expect /\ F[f].val # Junk

ClientInv(c, s) ==
    /\ CallShape(c) /\ Stage(c, s) /\ Messages(c, s) /\ Room(c, s)
    /\ Neat(c, s) /\ Futures(c) /\ Fresh(c)

IInv ==
    /\ TypeInv
    /\ \E st \in [Clients -> Stages] : Owners(st) /\ \A c \in Clients : ClientInv(c, st[c])

-----------------------------------------------------------------------------
(* What a step of one client leaves of the others, and how the parts of    *)
(* the invariant are put together again.                                   *)

\* The state of a client that its part of the invariant is about: what its
\* threads leave alone most of the time, and the rest.
SameWire(d) ==
    /\ conn'[d] = conn[d] /\ recv_msg'[d] = recv_msg[d]
    /\ sq'[d] = sq[d] /\ unacked'[d] = unacked[d] /\ cq'[d] = cq[d] /\ poller'[d] = poller[d]
    /\ srecv_msg'[d] = srecv_msg[d] /\ replies'[d] = replies[d]
    /\ InScq(d)' <=> InScq(d)
    /\ OnceInScq(d) => OnceInScq(d)'
    /\ spoller' = <<d>> <=> spoller = <<d>>

Same(d) ==
    /\ SameWire(d)
    /\ objects_'[d] = objects_[d] /\ written'[d] = written[d]
    /\ send_msg'[d] = send_msg[d] /\ recv_sem'[d] = recv_sem[d] /\ recvs'[d] = recvs[d]
    /\ outstanding_send_wr'[d] = outstanding_send_wr[d]
    /\ thr'[User(d)] = thr[User(d)] /\ fut'[User(d)] = fut[User(d)]

\* The constants.
LEMMA Numbers ==
    /\ MAX_SEND_WR \in Nat /\ Depth \in Nat
    /\ Sync = 0 /\ Sync \in 0 .. Depth /\ \A f \in 0 .. Depth : f # Sync => f \in 1 .. Depth
    /\ Junk \in Vals
<1>1. Junk \in Vals
  BY Zenon DEF Vals
<1>2. MAX_SEND_WR \in Nat /\ Depth \in Nat
  BY RDMAAssumption, Zenon
<1> QED
  BY <1>1, <1>2 DEF Sync

\* The one thread of a client.
LEMMA OneUser ==
    ASSUME Dependable
    PROVE  /\ \A c \in Clients : User(c) \in Threads /\ User(c)[1] = c
           /\ \A t \in Threads : t[1] \in Clients /\ t = User(t[1])
           /\ \A c, d \in Clients : User(c) = User(d) => c = d
  BY DEF Dependable, Threads, User

\* What a cell will hold depends on that cell only.
LEMMA WillSame ==
    ASSUME NEW q, NEW m, NEW k, NEW a, NEW n, NEW v, m[a] = k[a], Will(q, m, a, n, v)
    PROVE  Will(q, k, a, n, v)
  BY Zenon DEF Will

\* A client that a step leaves alone keeps its part of the invariant, as long as
\* nobody writes to its cells.
LEMMA Frame ==
    ASSUME NEW d \in Clients, NEW s \in Stages, ClientType(d), ClientInv(d, s), Same(d),
           \A a \in Own(d, s) : memory'[a] = memory[a]
    PROVE  ClientType(d)' /\ ClientInv(d, s)' /\ Own(d, s)' = Own(d, s)
<1> USE DEF Same, SameWire
<1>1. Call(d)' = Call(d) /\ Wanted(d)' = Wanted(d) /\ (Sending(d)' <=> Sending(d))
  BY Zenon DEF Call, Wanted, Sending
<1>2. ClientType(d)'
  BY <1>1, Zenon DEF ClientType
<1>3. CallShape(d)'
  BY <1>1, Zenon DEF ClientInv, CallShape
<1>4. Stage(d, s)'
  BY <1>1 DEF ClientInv, Stage, InCq, AtPoller
<1>5. Messages(d, s)'
  BY <1>1, Zenon DEF ClientInv, Messages, Asked, Answer, Answered
<1>6. Room(d, s)'
  BY <1>1, Zenon DEF ClientInv, Room, Pending
<1>7. Located(d)' = Located(d) /\ Moving(d, s)' = Moving(d, s)
  BY <1>1, Zenon DEF Located, Moving, Answered, Answer
<1>8. Own(d, s)' = Own(d, s)
  BY <1>7, Zenon DEF Own
<1>9. Neat(d, s)'
  BY <1>7, <1>8, Zenon DEF ClientInv, Neat
<1>10. Futures(d)'
  BY <1>1, Zenon DEF ClientInv, Futures
<1>11. Holds(d)'
  <2> SUFFICES ASSUME NEW o \in DOMAIN objects_[d], written[d][o] # Junk
               PROVE  Will(sq[d], memory', objects_[d][o], Len(sq[d]), written[d][o])
    BY <1>1, Zenon DEF ClientInv, Fresh, Holds
  <2>1. Will(sq[d], memory, objects_[d][o], Len(sq[d]), written[d][o])
    BY Zenon DEF ClientInv, Fresh, Holds
  <2>2. objects_[d][o] \in Own(d, s)
    BY Zenon DEF Own, Located
  <2> QED
    BY <2>1, <2>2, WillSame, Zenon
<1>12. WillGet(sq[d], memory', fut[User(d)])
  <2> DEFINE F == fut[User(d)]
  <2> SUFFICES ASSUME NEW i \in 1 .. Len(sq[d]), sq[d][i].op = "read"
               PROVE  Will(sq[d], memory', sq[d][i].addr, i, F[sq[d][i].fut].expect)
    BY Zenon DEF ClientInv, Fresh, WillGet
  <2>1. Will(sq[d], memory, sq[d][i].addr, i, F[sq[d][i].fut].expect)
    BY Zenon DEF ClientInv, Fresh, WillGet
  <2>2. sq[d][i].addr \in Own(d, s)
    BY Zenon DEF ClientInv, Neat
  <2> QED
    BY <2>1, <2>2, WillSame, Zenon
<1>13. Fresh(d)'
  BY <1>1, <1>11, <1>12, Zenon DEF ClientInv, Fresh
<1> QED
  BY <1>2, <1>3, <1>4, <1>5, <1>6, <1>8, <1>9, <1>10, <1>13, Zenon DEF ClientInv

\* A sequence of one element.
LEMMA OneElement ==
    ASSUME NEW S, NEW w \in Seq(S), Len(w) = 1
    PROVE  w[1] \in S /\ w = <<w[1]>>
<1>1. w[1] \in S
  OBVIOUS
<1> DEFINE v == <<w[1]>>
<1>2. v \in Seq(S) /\ Len(v) = 1 /\ v[1] = w[1]
  BY <1>1
<1> HIDE DEF v
<1>3. w = v
  BY <1>2
<1> QED
  BY <1>1, <1>3, Zenon DEF v

\* A call carries its one request.
LEMMA CallWanted ==
    ASSUME NEW c \in Clients, ClientType(c), CallShape(c), Call(c).pc # "idle"
    PROVE  /\ Wanted(c) \in Posts(c) /\ Call(c).wr = <<Wanted(c)>>
           /\ Sending(c) <=> Wanted(c).op = "send"
           /\ Call(c).call = "remove" => Sending(c)
<1>1. Call(c).wr \in Seq(Posts(c)) /\ Len(Call(c).wr) = 1
  BY Zenon DEF ClientType, CallType, CallShape
<1> DEFINE w == Call(c).wr
<1>2. w \in Seq(Posts(c)) /\ Len(w) = 1 /\ Wanted(c) = w[1]
  BY <1>1, Zenon DEF Wanted
<1> HIDE DEF w
<1>3. w[1] \in Posts(c) /\ w = <<w[1]>>
  BY <1>2, OneElement, Zenon
<1>4. w # <<>>
  BY <1>2
<1>5. w[1].op \in {"write", "read", "send"}
  BY <1>3, Zenon DEF Posts
<1>6. Call(c).call = "remove" => Wanted(c).op = "send"
  BY <1>2, <1>5, Zenon DEF CallShape
<1>7. Sending(c) <=> Wanted(c).op = "send"
  BY <1>2, <1>4, Zenon DEF Sending, w
<1> QED
  BY <1>2, <1>3, <1>6, <1>7, Zenon DEF w

\* The cells of a client are cells of the pool.
LEMMA OwnCells ==
    ASSUME NEW c \in Clients, NEW s \in Stages, SharedType, ClientType(c), ClientInv(c, s)
    PROVE  Own(c, s) \subseteq Addrs
<1>1. Located(c) \subseteq Addrs
  BY Zenon DEF ClientType, Located
<1>2. Moving(c, s) \subseteq Addrs
  <2>1. CASE Call(c).pc = "idle"
    BY <2>1, Zenon DEF Moving
  <2>2. CASE Call(c).pc # "idle" /\ Call(c).call = "remove"
    <3>1. Wanted(c).op = "send"
      BY <2>2, CallWanted, Zenon DEF ClientInv
    <3>2. Wanted(c).addr \in Addrs
      BY <2>2, <3>1, Zenon DEF ClientInv, CallShape
    <3> QED
      BY <2>2, <3>2, Zenon DEF Moving
  <2>3. CASE Call(c).pc # "idle" /\ Call(c).call # "remove" /\ Answered(c, s)
    <3>1. Answer(c, s) \in Msgs
      <4>1. s = "replies" => Len(replies[c]) = 1 /\ replies[c] \in Seq(Msgs)
        BY Zenon DEF ClientInv, Stage, SharedType
      <4> QED
        BY <4>1 DEF Answer, SharedType
    <3>2. Answer(c, s).addr \in Cells
      BY <3>1, Zenon DEF Msgs
    <3> QED
      BY <2>3, <3>2, Zenon DEF Moving, Cells
  <2>4. CASE ~Answered(c, s) /\ Call(c).call # "remove"
    BY <2>4, Zenon DEF Moving
  <2> QED
    BY <2>1, <2>2, <2>3, <2>4, Zenon
<1> QED
  BY <1>1, <1>2, Zenon DEF Own

\* Each client is at a stage of its exchange.
Staged(st) == \A d \in Clients : ClientInv(d, st[d])

Others(c) == \A d \in Clients : d # c => Same(d)

\* Only the exchange of client c moves, to stage s.
Moves(su, st, c, s) == su = [st EXCEPT ![c] = s]

\* Nobody writes to the cells of the other clients.
Spared(c, st) ==
    \A d \in Clients : d # c => \A a \in Own(d, st[d]) : memory'[a] = memory[a]

\* A step of client c alone, that takes its exchange to stage s.
LEMMA Apart ==
    ASSUME TypeInv, NEW st \in [Clients -> Stages], Staged(st), NEW c \in Clients, NEW s \in Stages,
           SharedType', ClientType(c)', ClientInv(c, s)', Others(c),
           Spared(c, st), NEW su, Moves(su, st, c, s)
    PROVE  /\ su \in [Clients -> Stages] /\ su[c] = s
           /\ TypeInv' /\ Staged(su)'
           /\ \A d \in Clients : d # c => su[d] = st[d] /\ Own(d, st[d])' = Own(d, st[d])
<1>1. su \in [Clients -> Stages] /\ su[c] = s /\ \A d \in Clients : d # c => su[d] = st[d]
  BY Zenon DEF Moves
<1>2. ASSUME NEW d \in Clients, d # c
      PROVE  ClientType(d)' /\ ClientInv(d, st[d])' /\ Own(d, st[d])' = Own(d, st[d])
  <2>1. st[d] \in Stages /\ ClientType(d) /\ ClientInv(d, st[d]) /\ Same(d)
    BY <1>2, Zenon DEF TypeInv, Staged, Others
  <2> QED
    BY <1>2, <2>1, Frame, Zenon DEF Spared
<1>3. TypeInv'
  BY <1>2, Zenon DEF TypeInv
<1>4. Staged(su)'
  BY <1>1, <1>2, Zenon DEF Staged
<1> QED
  BY <1>1, <1>2, <1>3, <1>4, Zenon

\* The same when the client's cells stay its cells, and nobody else's.
LEMMA Together ==
    ASSUME TypeInv, NEW st \in [Clients -> Stages], Staged(st), Owners(st),
           NEW c \in Clients, NEW s \in Stages,
           SharedType', ClientType(c)', ClientInv(c, s)', Others(c), Own(c, s)' = Own(c, st[c]),
           \A a \in Addrs : a \notin Own(c, st[c]) => memory'[a] = memory[a],
           allocated' = allocated, abandoned' = abandoned
    PROVE  IInv'
<1>0. PICK su : Moves(su, st, c, s)
  BY Zenon DEF Moves
<1>1. ASSUME NEW d \in Clients, d # c
      PROVE  \A a \in Own(d, st[d]) : memory'[a] = memory[a]
  <2>1. st[d] \in Stages /\ ClientType(d) /\ ClientInv(d, st[d]) /\ SharedType
    BY Zenon DEF TypeInv, Staged
  <2>2. Own(d, st[d]) \subseteq Addrs
    BY <2>1, OwnCells, Zenon
  <2>3. Own(c, st[c]) \cap Own(d, st[d]) = {}
    BY <1>1, Zenon DEF Owners
  <2> QED
    BY <2>2, <2>3, Zenon
<1>2. /\ su \in [Clients -> Stages] /\ su[c] = s
      /\ TypeInv' /\ Staged(su)'
      /\ \A d \in Clients : d # c => su[d] = st[d] /\ Own(d, st[d])' = Own(d, st[d])
  <2>1. Spared(c, st)
    BY <1>1, Zenon DEF Spared
  <2> QED
    BY <1>0, <2>1, Apart, ZenonT(40)
<1>3. \A d \in Clients : Own(d, su[d])' = Own(d, st[d])
  BY <1>2, Zenon
<1>4. Owners(su)'
  <2>1. \A d, e \in Clients : d # e => Own(d, su[d])' \cap Own(e, su[e])' = {}
    BY <1>3, Zenon DEF Owners
  <2>2. \A d \in Clients : Own(d, su[d])' \subseteq allocated' \ abandoned'
    BY <1>3 DEF Owners
  <2>3. \A a \in allocated' \ abandoned' : \E d \in Clients : a \in Own(d, su[d])'
    BY <1>3 DEF Owners
  <2> QED
    BY <2>1, <2>2, <2>3, Zenon DEF Owners
<1> QED
  BY <1>2, <1>4, Zenon DEF IInv, Staged

-----------------------------------------------------------------------------
(* The steps of a client's thread.                                         *)

\* What a step of client c from stage s to stage u is to show.
Kept(c, s, u) ==
    /\ SharedType' /\ ClientType(c)' /\ ClientInv(c, u)' /\ Others(c)
    /\ Own(c, u)' = Own(c, s)
    /\ \A a \in Addrs : a \notin Own(c, s) => memory'[a] = memory[a]
    /\ allocated' = allocated /\ abandoned' = abandoned

\* The call goes on at pc.
Jump(c, pc) ==
    /\ Call(c)'.pc = pc /\ Call(c)'.call = Call(c).call /\ Call(c)'.oid = Call(c).oid
    /\ Call(c)'.val = Call(c).val /\ Call(c)'.fut = Call(c).fut /\ Call(c)'.wr = Call(c).wr
    /\ Wanted(c)' = Wanted(c) /\ (Sending(c)' <=> Sending(c))

\* The thread of client c is the only one whose call changes, to T.
Turns(c, T) ==
    /\ DOMAIN thr' = Threads /\ Call(c)' = T
    /\ \A d \in Clients : d # c => thr'[User(d)] = thr[User(d)]

\* An assignment to thr concerns one client.
LEMMA TurnsTo ==
    ASSUME Dependable, TypeInv, NEW c \in Clients, NEW T, thr' = [thr EXCEPT ![User(c)] = T]
    PROVE  Turns(c, T)
<1>1. DOMAIN thr = Threads /\ User(c) \in Threads
  BY OneUser, Zenon DEF TypeInv, SharedType
<1>2. \A d \in Clients : d # c => User(d) # User(c)
  BY OneUser, Zenon
<1> QED
  BY <1>1, <1>2 DEF Turns, Call

\* Goto keeps everything else of the call.
LEMMA JumpTo ==
    ASSUME Dependable, TypeInv, NEW c \in Clients,
           NEW pc \in {"copy", "receive", "check", "queue", "sent", "reply", "result"},
           Goto(User(c), pc)
    PROVE  /\ Jump(c, pc) /\ Call(c)' \in CallType(c) /\ Turns(c, Call(c)')
<1> DEFINE T == [Call(c) EXCEPT !.pc = pc]
<1>1. Call(c) \in CallType(c)
  BY Zenon DEF TypeInv, ClientType
<1>2. /\ T \in CallType(c) /\ T.pc = pc /\ T.call = Call(c).call /\ T.oid = Call(c).oid
      /\ T.val = Call(c).val /\ T.fut = Call(c).fut /\ T.wr = Call(c).wr
  BY <1>1, Zenon DEF CallType
<1>3. thr' = [thr EXCEPT ![User(c)] = T]
  BY Zenon DEF Goto, Call
<1> HIDE DEF T
<1>4. Turns(c, T)
  BY <1>3, TurnsTo, Zenon
<1>5. Call(c)' = T
  BY <1>4, Zenon DEF Turns
<1>6. Wanted(c)' = Wanted(c) /\ (Sending(c)' <=> Sending(c))
  BY <1>2, <1>5, Zenon DEF Wanted, Sending
<1> QED
  BY <1>2, <1>4, <1>5, <1>6, Zenon DEF Jump

\* A call that goes on, and leaves the objects and the wire alone, keeps the cells,
\* the futures and the values.
LEMMA JumpKeeps ==
    ASSUME NEW c \in Clients, NEW s \in Stages, NEW u \in Stages, NEW pc,
           ClientInv(c, s), Jump(c, pc), SameWire(c), memory' = memory,
           objects_'[c] = objects_[c], written'[c] = written[c], fut'[User(c)] = fut[User(c)],
           Call(c).pc # "idle", pc # "idle",
           Answered(c, u)' <=> Answered(c, s), Answer(c, u)' = Answer(c, s),
           Call(c).pc \in {"check", "queue"} => pc \in {"check", "queue"}
    PROVE  Own(c, u)' = Own(c, s) /\ Neat(c, u)' /\ Futures(c)' /\ Fresh(c)'
<1> USE DEF Jump, SameWire
<1>1. Located(c)' = Located(c) /\ Moving(c, u)' = Moving(c, s)
  BY Zenon DEF Located, Moving
<1>2. Own(c, u)' = Own(c, s)
  BY <1>1, Zenon DEF Own
<1>3. Neat(c, u)'
  BY <1>1, <1>2, Zenon DEF ClientInv, Neat
<1>4. Futures(c)'
  BY Zenon DEF ClientInv, Futures
<1>5. Holds(c)'
  BY Zenon DEF ClientInv, Fresh, Holds
<1>6. Fresh(c)'
  BY <1>5, Zenon DEF ClientInv, Fresh
<1> QED
  BY <1>2, <1>3, <1>4, <1>6, Zenon

\* allocate, deallocate build the message.
LEMMA CopyStep ==
    ASSUME Dependable, TypeInv, NEW c \in Clients, NEW s \in Stages, ClientInv(c, s),
           CopyMessage(User(c))
    PROVE  Kept(c, s, s)
<1>1. /\ Call(c).pc = "copy" /\ conn[c] = "established"
      /\ Goto(User(c), "receive")
      /\ send_msg' = [send_msg EXCEPT ![c] = Asked(c)]
      /\ UNCHANGED <<conn, objects_, recv_msg, recv_sem, recvs, outstanding_send_wr,
                     poller, fut, written, wireVars, serverVars, memory, abandoned>>
  BY OneUser, Zenon DEF CopyMessage, At, Call, Asked, Request, Wanted
<1> USE DEF wireVars, serverVars
<1>2. Jump(c, "receive") /\ Call(c)' \in CallType(c) /\ Turns(c, Call(c)')
  BY <1>1, JumpTo, Zenon
<1>3. CallShape(c) /\ Stage(c, s) /\ ClientType(c) /\ SharedType
  BY Zenon DEF ClientInv, TypeInv
<1>4. Wanted(c) \in Posts(c) /\ Sending(c) /\ s = "none"
  BY <1>1, <1>3, CallWanted, Zenon DEF CallShape, Stage
<1>5. Asked(c) \in Msgs /\ Asked(c)' = Asked(c)
  BY <1>2, <1>4, Zenon DEF Asked, Msgs, Posts, Alloc, Dealloc, Cells, Jump
<1>6. SharedType'
  BY <1>1, <1>2, <1>3, <1>5, Zenon DEF SharedType, Turns
<1>7. ClientType(c)'
  BY <1>1, <1>2, <1>3, Zenon DEF ClientType
<1>8. SameWire(c)
  BY <1>1, Zenon DEF SameWire, InScq, OnceInScq
<1>9. Others(c)
  BY <1>1, <1>2, <1>3, Zenon DEF Others, Same, SameWire, InScq, OnceInScq, Turns, SharedType
<1>10. CallShape(c)'
  BY <1>1, <1>2, <1>3, <1>4, Zenon DEF CallShape, Jump
<1>11. Stage(c, s)'
  BY <1>1, <1>2, <1>3, <1>4, <1>8, Zenon DEF Stage, Jump, SameWire, InCq, AtPoller
<1>12. Messages(c, s)'
  BY <1>1, <1>2, <1>3, <1>4, <1>5, Zenon DEF ClientInv, Messages, Jump, Answered, SharedType
<1>13. Room(c, s)'
  BY <1>1, <1>2, <1>4, Zenon DEF ClientInv, Room, Pending, Jump
<1>14. Own(c, s)' = Own(c, s) /\ Neat(c, s)' /\ Futures(c)' /\ Fresh(c)'
  <2>1. (Answered(c, s)' <=> Answered(c, s)) /\ Answer(c, s)' = Answer(c, s)
    BY <1>1, <1>2, <1>4, Zenon DEF Answered, Answer, Jump
  <2> QED
    BY <1>1, <1>2, <1>8, <2>1, JumpKeeps, Zenon
<1> QED
  BY <1>1, <1>6, <1>7, <1>9, <1>10, <1>11, <1>12, <1>13, <1>14, Zenon DEF Kept, ClientInv

\* send_receive_message_sync posts the receive.
LEMMA PostReceiveStep ==
    ASSUME Dependable, TypeInv, NEW c \in Clients, NEW s \in Stages, ClientInv(c, s),
           post_receive(User(c))
    PROVE  Kept(c, s, s)
<1>1. /\ Call(c).pc = "receive" /\ conn[c] = "established"
      /\ Goto(User(c), "check")
      /\ recvs' = [recvs EXCEPT ![c] = @ + 1]
      /\ UNCHANGED <<conn, objects_, send_msg, recv_msg, recv_sem, outstanding_send_wr,
                     poller, fut, written, wireVars, serverVars, memory, abandoned>>
  BY OneUser, Zenon DEF post_receive, At, Call
<1> USE DEF wireVars, serverVars
<1>2. Jump(c, "check") /\ Call(c)' \in CallType(c) /\ Turns(c, Call(c)')
  BY <1>1, JumpTo, Zenon
<1>3. CallShape(c) /\ Stage(c, s) /\ Messages(c, s) /\ ClientType(c) /\ SharedType
  BY Zenon DEF ClientInv, TypeInv
<1>4. Sending(c) /\ s = "none"
  BY <1>1, <1>3, CallWanted, Zenon DEF CallShape, Stage
<1>5. Asked(c)' = Asked(c)
  BY <1>2, Zenon DEF Asked, Jump
<1>6. SharedType'
  BY <1>1, <1>2, <1>3, <1>5 DEF SharedType, Turns
<1>7. ClientType(c)'
  BY <1>1, <1>2, <1>3, Zenon DEF ClientType
<1>8. SameWire(c)
  BY <1>1, Zenon DEF SameWire, InScq, OnceInScq
<1>9. Others(c)
  BY <1>1, <1>2, <1>3, Zenon DEF Others, Same, SameWire, InScq, OnceInScq, Turns, SharedType
<1>10. CallShape(c)'
  BY <1>1, <1>2, <1>3, <1>4, Zenon DEF CallShape, Jump, Sending
<1>11. Stage(c, s)'
  BY <1>1, <1>2, <1>3, <1>4, <1>8, Zenon DEF Stage, Jump, SameWire, InCq, AtPoller
<1>12. Messages(c, s)'
  <2>1. recvs[c] = 0 /\ recvs'[c] = 1 /\ send_msg[c] = Asked(c)
    BY <1>1, <1>3, <1>4 DEF Messages, SharedType
  <2> QED
    BY <1>1, <1>2, <1>4, <1>5, <2>1, Zenon DEF Messages, Jump, Answered
<1>13. Room(c, s)'
  BY <1>1, <1>2, <1>4, Zenon DEF ClientInv, Room, Pending, Jump
<1>14. Own(c, s)' = Own(c, s) /\ Neat(c, s)' /\ Futures(c)' /\ Fresh(c)'
  <2>1. (Answered(c, s)' <=> Answered(c, s)) /\ Answer(c, s)' = Answer(c, s)
    BY <1>1, <1>2, <1>4, Zenon DEF Answered, Answer, Jump
  <2> QED
    BY <1>1, <1>2, <1>8, <2>1, JumpKeeps, Zenon
<1> QED
  BY <1>1, <1>6, <1>7, <1>9, <1>10, <1>11, <1>12, <1>13, <1>14, Zenon DEF Kept, ClientInv

\* post_send finds room.
LEMMA CheckStep ==
    ASSUME Dependable, TypeInv, NEW c \in Clients, NEW s \in Stages, ClientInv(c, s),
           CheckLimit(User(c))
    PROVE  Kept(c, s, s)
<1>1. /\ Call(c).pc = "check" /\ conn[c] = "established"
      /\ Goto(User(c), "queue")
      /\ outstanding_send_wr[c] # MAX_SEND_WR
      /\ UNCHANGED <<conn, objects_, send_msg, recv_msg, recv_sem, recvs, outstanding_send_wr,
                     poller, fut, written, wireVars, serverVars, memory, abandoned>>
  BY OneUser, Zenon DEF CheckLimit, AtLimit, At, Call
<1> USE DEF wireVars, serverVars
<1>2. Jump(c, "queue") /\ Call(c)' \in CallType(c) /\ Turns(c, Call(c)')
  BY <1>1, JumpTo, Zenon
<1>3. CallShape(c) /\ Stage(c, s) /\ Messages(c, s) /\ ClientType(c) /\ SharedType
  BY Zenon DEF ClientInv, TypeInv
<1>4. s = "none"
  BY <1>1, <1>3, Zenon DEF Stage
<1>5. Asked(c)' = Asked(c)
  BY <1>2, Zenon DEF Asked, Jump
<1>6. SharedType'
  BY <1>1, <1>2, <1>3, <1>5, Zenon DEF SharedType, Turns
<1>7. ClientType(c)'
  BY <1>1, <1>2, <1>3, Zenon DEF ClientType
<1>8. SameWire(c)
  BY <1>1, Zenon DEF SameWire, InScq, OnceInScq
<1>9. Others(c)
  BY <1>1, <1>2, <1>3, Zenon DEF Others, Same, SameWire, InScq, OnceInScq, Turns, SharedType
<1>10. CallShape(c)'
  BY <1>1, <1>2, <1>3, <1>4, Zenon DEF CallShape, Jump, Sending
<1>11. Stage(c, s)'
  BY <1>1, <1>2, <1>3, <1>4, <1>8, Zenon DEF Stage, Jump, SameWire, InCq, AtPoller
<1>12. Messages(c, s)'
  BY <1>1, <1>2, <1>3, <1>4, <1>5, Zenon DEF Messages, Jump, Answered
<1>13. Room(c, s)'
  <2>1. outstanding_send_wr[c] + 1 <= MAX_SEND_WR
    <3> DEFINE n == outstanding_send_wr[c]
    <3>1. n <= MAX_SEND_WR
      BY Zenon DEF ClientInv, Room
    <3>2. n \in Int /\ MAX_SEND_WR \in Nat /\ n # MAX_SEND_WR
      BY <1>1, <1>3, Numbers, Zenon DEF SharedType
    <3> HIDE DEF n
    <3>3. n + 1 <= MAX_SEND_WR
      BY <3>1, <3>2
    <3> QED
      BY <3>3, Zenon DEF n
  <2> QED
    BY <1>1, <1>2, <1>4, <2>1, Zenon DEF ClientInv, Room, Pending, Jump
<1>14. Own(c, s)' = Own(c, s) /\ Neat(c, s)' /\ Futures(c)' /\ Fresh(c)'
  <2>1. (Answered(c, s)' <=> Answered(c, s)) /\ Answer(c, s)' = Answer(c, s)
    BY <1>1, <1>2, <1>4, Zenon DEF Answered, Answer, Jump
  <2> QED
    BY <1>1, <1>2, <1>8, <2>1, JumpKeeps, Zenon
<1> QED
  BY <1>1, <1>6, <1>7, <1>9, <1>10, <1>11, <1>12, <1>13, <1>14, Zenon DEF Kept, ClientInv

\* recv_sem->wait() returns: the answer is in recv_msg.
LEMMA WaitReplyStep ==
    ASSUME Dependable, TypeInv, NEW c \in Clients, NEW s \in Stages, ClientInv(c, s),
           WaitReply(User(c))
    PROVE  Kept(c, s, "none")
<1>1. /\ Call(c).pc = "reply" /\ conn[c] = "established" /\ recv_sem[c]
      /\ Goto(User(c), "result")
      /\ recv_sem' = [recv_sem EXCEPT ![c] = FALSE]
      /\ UNCHANGED <<conn, objects_, send_msg, recv_msg, recvs, outstanding_send_wr,
                     poller, fut, written, wireVars, serverVars, memory, abandoned>>
  BY OneUser, Zenon DEF WaitReply, At, Call
<1> USE DEF wireVars, serverVars
<1>2. Jump(c, "result") /\ Call(c)' \in CallType(c) /\ Turns(c, Call(c)')
  BY <1>1, JumpTo, Zenon
<1>3. CallShape(c) /\ Stage(c, s) /\ Messages(c, s) /\ ClientType(c) /\ SharedType
  BY Zenon DEF ClientInv, TypeInv
<1>4. s = "sem" /\ Sending(c)
  BY <1>1, <1>3, CallWanted, Zenon DEF Stage
<1>5. recv_sem'[c] = FALSE
  BY <1>1, <1>3, Zenon DEF SharedType
<1>6. SharedType'
  BY <1>1, <1>2, <1>3, <1>5, Zenon DEF SharedType, Turns
<1>7. ClientType(c)'
  BY <1>1, <1>2, <1>3, Zenon DEF ClientType
<1>8. SameWire(c)
  BY <1>1, Zenon DEF SameWire, InScq, OnceInScq
<1>9. Others(c)
  BY <1>1, <1>2, <1>3, Zenon DEF Others, Same, SameWire, InScq, OnceInScq, Turns, SharedType
<1>10. CallShape(c)'
  BY <1>1, <1>2, <1>3, <1>4, Zenon DEF CallShape, Jump, Sending
<1>11. Stage(c, "none")'
  BY <1>1, <1>2, <1>3, <1>4, <1>5, <1>8, Zenon DEF Stage, Jump, SameWire, InCq, AtPoller
<1>12. Messages(c, "none")'
  BY <1>1, <1>2, <1>3, <1>4, <1>5, Zenon DEF Messages, Jump, Answered, Answer
<1>13. Room(c, "none")'
  BY <1>1, <1>2, <1>4, Zenon DEF ClientInv, Room, Pending, Jump
<1>14. Own(c, "none")' = Own(c, s) /\ Neat(c, "none")' /\ Futures(c)' /\ Fresh(c)'
  <2>1. (Answered(c, "none")' <=> Answered(c, s)) /\ Answer(c, "none")' = Answer(c, s) /\ "none" \in Stages
    BY <1>1, <1>2, <1>4, Zenon DEF Answered, Answer, Jump, Stages
  <2> QED
    BY <1>1, <1>2, <1>8, <2>1, JumpKeeps, Zenon
<1> QED
  BY <1>1, <1>6, <1>7, <1>9, <1>10, <1>11, <1>12, <1>13, <1>14, Zenon DEF Kept, ClientInv

\* A call that is over.
LEMMA RestTo ==
    ASSUME Dependable, TypeInv, NEW c \in Clients, Return(User(c))
    PROVE  Call(c)' = AtRest /\ AtRest \in CallType(c) /\ Turns(c, AtRest) /\ AtRest.pc = "idle" /\ AtRest.fut = Sync
<1>1. AtRest \in CallType(c)
  <2>1. Junk \in Vals /\ Sync \in 0 .. Depth
    BY Numbers, Zenon
  <2>2. <<>> \in Seq(Posts(c))
    OBVIOUS
  <2> QED
    BY <2>1, <2>2, Zenon DEF AtRest, CallType
<1>2. Turns(c, AtRest)
  BY TurnsTo, Zenon DEF Return
<1> QED
  BY <1>1, <1>2, Zenon DEF Turns, AtRest

\* A thread at rest has no request to send.
LEMMA RestSends ==
    ASSUME NEW c, Call(c)' = AtRest
    PROVE  ~Sending(c)'
<1>1. AtRest.wr = <<>>
  BY DEF AtRest
<1> QED
  BY <1>1, Zenon DEF Sending

\* Returning outside of an exchange, with nothing of the client on its way, keeps
\* the objects' cells.
LEMMA RestKeeps ==
    ASSUME NEW c \in Clients, ClientInv(c, "none"), Call(c)' = AtRest, SameWire(c), memory' = memory,
           objects_'[c] = objects_[c], written'[c] = written[c], recv_sem'[c] = recv_sem[c],
           recvs'[c] = recvs[c], recvs[c] = 0, outstanding_send_wr'[c] = outstanding_send_wr[c],
           Moving(c, "none") = {}, \A o \in DOMAIN objects_[c] : written[c][o] # Junk
    PROVE  /\ CallShape(c)' /\ Stage(c, "none")' /\ Messages(c, "none")' /\ Room(c, "none")'
           /\ Own(c, "none")' = Own(c, "none") /\ Neat(c, "none")' /\ Holds(c)'
<1>1. AtRest.pc = "idle" /\ AtRest.wr = <<>>
  BY Zenon DEF AtRest
<1>2. Call(c)'.pc = "idle" /\ ~Sending(c)'
  BY <1>1, Zenon DEF Sending
<1>3. CallShape(c)'
  BY <1>2, Zenon DEF CallShape
<1>4. Stage(c, "none")'
  BY <1>2, ZenonT(30) DEF ClientInv, Stage, SameWire, InCq, AtPoller
<1>5. Messages(c, "none")'
  BY <1>2, Zenon DEF Messages, Answered
<1>6. Room(c, "none")'
  BY <1>2, Zenon DEF ClientInv, Room, Pending, SameWire
<1>7. Located(c)' = Located(c) /\ Moving(c, "none")' = {}
  BY <1>2, Zenon DEF Located, Moving
<1>8. Own(c, "none")' = Own(c, "none")
  BY <1>7, Zenon DEF Own
<1>9. Neat(c, "none")'
  BY <1>7, <1>8, Zenon DEF ClientInv, Neat, SameWire
<1>10. Holds(c)'
  BY Zenon DEF ClientInv, Fresh, Holds, SameWire
<1> QED
  BY <1>3, <1>4, <1>5, <1>6, <1>8, <1>9, <1>10, Zenon

\* A queue that carries no request of future f does not depend on it.
LEMMA Aside ==
    ASSUME NEW q, NEW F, NEW G, NEW f, ~Carries(q, f), \A i \in 1 .. Len(q) : q[i].fut \in 0 .. Depth,
           \A g \in 1 .. Depth : g # f => G[g] = F[g]
    PROVE  /\ Kinds(q, F) => Kinds(q, G)
           /\ Got(q, F) => Got(q, G)
           /\ \A m : WillGet(q, m, F) => WillGet(q, m, G)
<1>1. ASSUME NEW i \in 1 .. Len(q), q[i].fut # Sync
      PROVE  G[q[i].fut] = F[q[i].fut]
  BY <1>1, RDMAAssumption DEF Carries, Sync
<1>2. Kinds(q, F) => Kinds(q, G)
  BY <1>1, Zenon DEF Kinds
<1>3. Got(q, F) => Got(q, G)
  BY <1>1, Zenon DEF Got
<1>4. \A m : WillGet(q, m, F) => WillGet(q, m, G)
  BY <1>1, Zenon DEF WillGet
<1> QED
  BY <1>2, <1>3, <1>4, Zenon

\* The futures of the requests in a queue.
LEMMA QueueFutures ==
    ASSUME NEW c \in Clients, ClientType(c), NEW q \in {sq[c], unacked[c], cq[c]}
    PROVE  \A i \in 1 .. Len(q) : q[i].fut \in 0 .. Depth
<1>1. ASSUME q \in Seq(Posts(c)), NEW i \in 1 .. Len(q)
      PROVE  q[i].fut \in 0 .. Depth
  <2>1. q[i] \in Posts(c)
    BY <1>1
  <2> QED
    BY <2>1, Zenon DEF Posts
<1>2. ASSUME q \in Seq(Completions(c)), NEW i \in 1 .. Len(q)
      PROVE  q[i].fut \in 0 .. Depth
  <2>1. q[i] \in Completions(c)
    BY <1>2
  <2> QED
    BY <2>1, Zenon DEF Completions
<1> QED
  BY <1>1, <1>2, Zenon DEF ClientType

\* A future no queue knows is given out, given up or forgotten.
LEMMA FutureStep ==
    ASSUME NEW c \in Clients, ClientType(c), Futures(c), Fresh(c), SameWire(c), memory' = memory,
           NEW f \in 1 .. Depth, NEW r \in FutureType, ~r.done,
           fut'[User(c)] = [fut[User(c)] EXCEPT ![f] = r],
           ~Carries(sq[c], f), ~Carries(unacked[c], f), ~Carries(cq[c], f),
           \/ Call(c)'.fut = Sync
           \/ Call(c)'.fut = f /\ r.busy /\ (r.read <=> Call(c)'.call = "read"),
           Holds(c)'
    PROVE  Futures(c)' /\ Fresh(c)' /\ fut'[User(c)] \in [1 .. Depth -> FutureType]
<1> DEFINE F == fut[User(c)]
           G == fut'[User(c)]
<1>1. F \in [1 .. Depth -> FutureType]
  BY Zenon DEF ClientType
<1>2. G \in [1 .. Depth -> FutureType] /\ G[f] = r /\ \A g \in 1 .. Depth : g # f => G[g] = F[g]
  BY <1>1, Zenon
<1> HIDE DEF G
<1>3. sq'[c] = sq[c] /\ unacked'[c] = unacked[c] /\ cq'[c] = cq[c]
  BY Zenon DEF SameWire
<1>4. f # Sync /\ Sync \notin 1 .. Depth
  BY RDMAAssumption DEF Sync
<1>5. Futures(c)'
  BY <1>2, <1>3, <1>4, ZenonT(40) DEF Futures, G
<1>6. ASSUME NEW q \in {sq[c], unacked[c], cq[c]}
      PROVE  /\ Kinds(q, F) => Kinds(q, G)
             /\ Got(q, F) => Got(q, G)
             /\ \A m : WillGet(q, m, F) => WillGet(q, m, G)
  <2>1. ~Carries(q, f)
    BY Zenon
  <2>2. \A i \in 1 .. Len(q) : q[i].fut \in 0 .. Depth
    BY QueueFutures, Zenon
  <2> HIDE DEF F
  <2> QED
    BY <1>2, <2>1, <2>2, Aside, ZenonT(30)
<1>7. \A g \in 1 .. Depth : G[g].busy /\ G[g].done /\ G[g].read => G[g].val = G[g].expect /\ G[g].val # Junk
  BY <1>2, ZenonT(40) DEF Fresh
<1>8. Call(c)'.fut # Sync => (G[Call(c)'.fut].read <=> Call(c)'.call = "read")
  BY <1>2, Zenon
<1>9. Fresh(c)'
  BY <1>3, <1>6, <1>7, <1>8, Zenon DEF Fresh, G
<1> QED
  BY <1>2, <1>5, <1>9, Zenon DEF G

\* A call returns, and does nothing else.
LEMMA RestStep ==
    ASSUME Dependable, TypeInv, NEW c \in Clients, ClientInv(c, "none"), Return(User(c)),
           UNCHANGED <<conn, objects_, send_msg, recv_msg, recv_sem, recvs, outstanding_send_wr,
                       poller, fut, written, wireVars, serverVars, memory, abandoned>>,
           recvs[c] = 0, Moving(c, "none") = {}, \A o \in DOMAIN objects_[c] : written[c][o] # Junk
    PROVE  Kept(c, "none", "none")
<1> USE DEF wireVars, serverVars
<1>1. ClientType(c) /\ SharedType
  BY Zenon DEF TypeInv
<1>2. SameWire(c)
  BY Zenon DEF SameWire, InScq, OnceInScq
<1>3. Call(c)' = AtRest /\ AtRest \in CallType(c) /\ Turns(c, AtRest) /\ AtRest.fut = Sync
  BY RestTo, Zenon
<1>4. SharedType' /\ ClientType(c)'
  BY <1>1, <1>3, Zenon DEF SharedType, Turns, ClientType
<1>5. Others(c)
  BY <1>3, Zenon DEF Others, Same, SameWire, InScq, OnceInScq, Turns
<1>6. /\ CallShape(c)' /\ Stage(c, "none")' /\ Messages(c, "none")' /\ Room(c, "none")'
      /\ Own(c, "none")' = Own(c, "none") /\ Neat(c, "none")' /\ Holds(c)'
  BY <1>2, <1>3, RestKeeps, Zenon
<1>7. Futures(c)'
  BY <1>3, RDMAAssumption DEF ClientInv, Futures, Sync
<1>8. Fresh(c)'
  BY <1>3, <1>6, Zenon DEF ClientInv, Fresh
<1> QED
  BY <1>4, <1>5, <1>6, <1>7, <1>8, Zenon DEF Kept, ClientInv

\* A call throws, and forgets its future.
LEMMA ThrowStep ==
    ASSUME Dependable, TypeInv, NEW c \in Clients, ClientInv(c, "none"), Throw(User(c)),
           UNCHANGED <<conn, objects_, send_msg, recv_msg, recv_sem, recvs, outstanding_send_wr,
                       poller, written, wireVars, serverVars, memory, abandoned>>,
           recvs[c] = 0, Moving(c, "none") = {}, \A o \in DOMAIN objects_[c] : written[c][o] # Junk
    PROVE  Kept(c, "none", "none")
<1> USE DEF wireVars, serverVars
<1>1. CASE Call(c).fut = Sync
  <2>1. Return(User(c)) /\ fut' = fut
    BY <1>1, Zenon DEF Throw, Call
  <2> QED
    BY <2>1, RestStep, Zenon
<1>2. CASE Call(c).fut # Sync
  <2> DEFINE f == Call(c).fut
             F == fut[User(c)]
  <2>1. Return(User(c)) /\ fut' = [fut EXCEPT ![User(c)][f] = NoFuture]
    BY <1>2, Zenon DEF Throw, Call
  <2>2. ClientType(c) /\ SharedType /\ User(c) \in Threads
    BY OneUser, Zenon DEF TypeInv
  <2>3. f \in 1 .. Depth /\ NoFuture \in FutureType /\ ~NoFuture.done
    <3>1. f \in 0 .. Depth
      BY <2>2, Zenon DEF ClientType, CallType
    <3> QED
      BY <1>2, <3>1, Numbers, Zenon DEF NoFuture, FutureType
  <2>4. /\ DOMAIN fut' = Threads /\ fut'[User(c)] = [F EXCEPT ![f] = NoFuture]
        /\ \A d \in Clients : d # c => fut'[User(d)] = fut[User(d)]
    BY <2>1, <2>2, OneUser, Zenon DEF SharedType
  <2>5. ~Carries(sq[c], f) /\ ~Carries(unacked[c], f) /\ ~Carries(cq[c], f)
    BY <2>3, Zenon DEF ClientInv, Futures
  <2>6. SameWire(c)
    BY Zenon DEF SameWire, InScq, OnceInScq
  <2>7. Call(c)' = AtRest /\ AtRest \in CallType(c) /\ Turns(c, AtRest) /\ AtRest.fut = Sync
    BY <2>1, RestTo, Zenon
  <2>8. /\ CallShape(c)' /\ Stage(c, "none")' /\ Messages(c, "none")' /\ Room(c, "none")'
        /\ Own(c, "none")' = Own(c, "none") /\ Neat(c, "none")' /\ Holds(c)'
    BY <2>6, <2>7, RestKeeps, Zenon
  <2>9. Call(c)'.fut = Sync
    BY <2>7, Zenon
  <2>10. Futures(c)' /\ Fresh(c)' /\ fut'[User(c)] \in [1 .. Depth -> FutureType]
    <3> HIDE DEF f, F
    <3>1. fut'[User(c)] = [fut[User(c)] EXCEPT ![f] = NoFuture]
      BY <2>4, Zenon DEF F
    <3> QED
      BY <2>2, <2>3, <2>5, <2>6, <2>8, <2>9, <3>1, FutureStep, Zenon DEF ClientInv
  <2>11. SharedType' /\ ClientType(c)'
    BY <2>2, <2>4, <2>7, <2>10, Zenon DEF SharedType, Turns, ClientType
  <2>12. Others(c)
    BY <2>4, <2>7, ZenonT(40) DEF Others, Same, SameWire, InScq, OnceInScq, Turns
  <2> QED
    BY <2>8, <2>10, <2>11, <2>12, Zenon DEF Kept, ClientInv
<1> QED
  BY <1>1, <1>2, Zenon

\* The wait of post_send's caller: write_sync returns, an exchange goes on.
LEMMA WaitSentStep ==
    ASSUME Dependable, TypeInv, NEW c \in Clients, NEW s \in Stages, ClientInv(c, s),
           WaitSent(User(c))
    PROVE  Kept(c, s, s)
<1>1. /\ Call(c).pc = "sent" /\ conn[c] = "established"
      /\ IF Wanted(c).op = "send" THEN Goto(User(c), "reply") ELSE Return(User(c))
      /\ UNCHANGED <<conn, objects_, send_msg, recv_msg, recv_sem, recvs, outstanding_send_wr,
                     poller, fut, written, wireVars, serverVars, memory, abandoned>>
  BY OneUser, Zenon DEF WaitSent, At, Call, Request, Wanted
<1> USE DEF wireVars, serverVars
<1>2. CallShape(c) /\ Stage(c, s) /\ Messages(c, s) /\ ClientType(c) /\ SharedType
  BY Zenon DEF ClientInv, TypeInv
<1>3. Sending(c) <=> Wanted(c).op = "send"
  BY <1>1, <1>2, CallWanted, Zenon
<1>4. SameWire(c)
  BY <1>1, Zenon DEF SameWire, InScq, OnceInScq
<1>5. CASE Wanted(c).op = "send"
  <2>1. Jump(c, "reply") /\ Call(c)' \in CallType(c) /\ Turns(c, Call(c)')
    BY <1>1, <1>5, JumpTo, Zenon
  <2>2. SharedType' /\ ClientType(c)'
    BY <1>1, <1>2, <2>1, Zenon DEF SharedType, Turns, ClientType
  <2>3. Others(c)
    BY <1>1, <2>1, Zenon DEF Others, Same, SameWire, InScq, OnceInScq, Turns
  <2>4. CallShape(c)'
    BY <1>1, <1>2, <1>5, <2>1, Zenon DEF CallShape, Jump, Sending
  <2>5. Stage(c, s)'
    BY <1>1, <1>2, <1>4, <1>3, <1>5, <2>1, Zenon DEF Stage, Jump, SameWire, InCq, AtPoller
  <2>6. (Answered(c, s)' <=> Answered(c, s)) /\ Answer(c, s)' = Answer(c, s) /\ Asked(c)' = Asked(c)
    BY <1>1, <2>1, Zenon DEF Answered, Answer, Jump, Asked
  <2>7. Messages(c, s)'
    BY <1>1, <1>2, <2>1, <2>6, Zenon DEF Messages, Jump
  <2>8. Room(c, s)'
    BY <1>1, <1>3, <1>5, <2>1, Zenon DEF ClientInv, Room, Pending, Jump
  <2>9. Own(c, s)' = Own(c, s) /\ Neat(c, s)' /\ Futures(c)' /\ Fresh(c)'
    BY <1>1, <1>4, <2>1, <2>6, JumpKeeps, Zenon
  <2> QED
    BY <1>1, <2>2, <2>3, <2>4, <2>5, <2>7, <2>8, <2>9, Zenon DEF Kept, ClientInv
<1>6. CASE Wanted(c).op # "send"
  <2>4. s = "none" /\ Call(c).call = "write" /\ Call(c).fut = Sync
    BY <1>1, <1>2, <1>3, <1>6, Zenon DEF Stage, CallShape
  <2>5. recvs[c] = 0 /\ Moving(c, "none") = {}
    BY <1>1, <1>2, <2>4, Zenon DEF Messages, Moving, Answered
  <2>6. \A o \in DOMAIN objects_[c] : written[c][o] # Junk
    BY <1>1, Zenon DEF ClientInv, Fresh, Holds
  <2> QED
    BY <1>1, <1>6, <2>4, <2>5, <2>6, RestStep, Zenon
<1> QED
  BY <1>5, <1>6, Zenon

\* deallocate returns.
LEMMA DeallocatedStep ==
    ASSUME Dependable, TypeInv, NEW c \in Clients, NEW s \in Stages, ClientInv(c, s),
           Deallocated(User(c))
    PROVE  Kept(c, s, s)
<1>1. /\ Call(c).pc = "result" /\ Call(c).call = "remove"
      /\ Return(User(c))
      /\ UNCHANGED <<conn, objects_, send_msg, recv_msg, recv_sem, recvs, outstanding_send_wr,
                     poller, fut, written, wireVars, serverVars, memory, abandoned>>
  BY OneUser, Zenon DEF Deallocated, At, Call
<1>2. s = "none"
  BY <1>1, Zenon DEF ClientInv, Stage
<1>3. recvs[c] = 0 /\ Moving(c, "none") = {}
  BY <1>1, <1>2, Zenon DEF ClientInv, Messages, Moving, Answered
<1>4. \A o \in DOMAIN objects_[c] : written[c][o] # Junk
  BY <1>1, Zenon DEF ClientInv, Fresh, Holds
<1> QED
  BY <1>1, <1>2, <1>3, <1>4, RestStep, Zenon

\* post_send finds the queue full: not in an exchange, and not with an object whose
\* first write is still to be posted.
LEMMA RefusedStep ==
    ASSUME Dependable, TypeInv, NEW c \in Clients, NEW s \in Stages, ClientInv(c, s),
           Refused(User(c))
    PROVE  Kept(c, s, s)
<1>1. /\ Call(c).pc = "check" /\ conn[c] = "established"
      /\ outstanding_send_wr[c] = MAX_SEND_WR
      /\ Wanted(c).op # "send" => Throw(User(c))
      /\ UNCHANGED <<conn, objects_, send_msg, recv_msg, recv_sem, recvs, outstanding_send_wr,
                     poller, written, wireVars, serverVars, memory, abandoned>>
  BY OneUser, Zenon DEF Refused, AtLimit, At, Call, Request, Wanted
<1>2. CallShape(c) /\ Stage(c, s) /\ Messages(c, s) /\ ClientType(c)
  BY Zenon DEF ClientInv, TypeInv
<1>3. Sending(c) <=> Wanted(c).op = "send"
  BY <1>1, <1>2, CallWanted, Zenon
<1>8. MAX_SEND_WR \in Nat /\ outstanding_send_wr[c] = MAX_SEND_WR /\ ~(MAX_SEND_WR + 1 <= MAX_SEND_WR)
  BY <1>1, RDMAAssumption
<1>4. ~Sending(c)
  BY <1>1, <1>8, Zenon DEF ClientInv, Room
<1>7. s = "none"
  BY <1>1, <1>2, Zenon DEF Stage
<1>5. recvs[c] = 0 /\ Moving(c, "none") = {}
  <2>1. Call(c).call # "remove"
    BY <1>1, <1>2, <1>4, CallWanted, Zenon
  <2> QED
    BY <1>1, <1>2, <1>4, <1>7, <2>1, Zenon DEF Messages, Moving, Answered
<1>6. ASSUME NEW o \in DOMAIN objects_[c], written[c][o] = Junk
      PROVE  FALSE
  <2>1. Call(c).call = "write" /\ Call(c).oid = o
    BY <1>6, Zenon DEF ClientInv, Fresh, Holds
  <2> QED
    BY <1>1, <1>4, <1>6, <1>8, <2>1, Zenon DEF ClientInv, Room
<1> QED
  BY <1>1, <1>3, <1>4, <1>5, <1>6, <1>7, ThrowStep, Zenon

\* allocate has an address: the cell that was on its way is the object's cell, and
\* its first write is to be posted.
LEMMA AllocatedStep ==
    ASSUME Dependable, TypeInv, NEW c \in Clients, NEW s \in Stages, ClientInv(c, s),
           Allocated(User(c))
    PROVE  Kept(c, s, s)
<1> DEFINE a == recv_msg[c].addr
           oid == Call(c).oid
           wr == WriteWR(User(c), a, Call(c).val, Call(c).fut)
           T == [Call(c) EXCEPT !.pc = "check", !.wr = <<wr>>]
<1>1. /\ Call(c).pc = "result" /\ Call(c).call = "write" /\ conn[c] = "established"
      /\ a = NullAddr => Throw(User(c)) /\ UNCHANGED <<objects_, written>>
      /\ a # NullAddr => /\ objects_' = [objects_ EXCEPT ![c] = With(@, oid, a)]
                         /\ written' = [written EXCEPT ![c] = With(@, oid, Junk)]
                         /\ thr' = [thr EXCEPT ![User(c)] = T]
                         /\ fut' = fut
      /\ UNCHANGED <<conn, send_msg, recv_msg, recv_sem, recvs, outstanding_send_wr,
                     poller, wireVars, serverVars, memory, abandoned>>
  BY OneUser, Zenon DEF Allocated, At, Call, insertObjectLocation
<1> USE DEF wireVars, serverVars
<1>2. CallShape(c) /\ Stage(c, s) /\ Messages(c, s) /\ Room(c, s) /\ Neat(c, s) /\ ClientType(c) /\ SharedType
  BY Zenon DEF ClientInv, TypeInv
<1>3. s = "none" /\ Sending(c) /\ Wanted(c).op = "send"
  BY <1>1, <1>2, CallWanted, Zenon DEF Stage, CallShape
<1>4. recvs[c] = 0 /\ Moving(c, "none") = {a} \ {NullAddr}
  BY <1>1, <1>2, <1>3, Zenon DEF Messages, Moving, Answered, Answer
<1>5. \A o \in DOMAIN objects_[c] : written[c][o] # Junk
  BY <1>1, Zenon DEF ClientInv, Fresh, Holds
<1>6. CASE a = NullAddr
  BY <1>1, <1>3, <1>4, <1>5, <1>6, ThrowStep, Zenon
<1>7. CASE a # NullAddr
  <2>1. a \in Addrs
    BY <1>2, <1>7, Zenon DEF SharedType, Msgs, Cells
  <2>2. oid \in ObjectID /\ oid \notin DOMAIN objects_[c] /\ Call(c).val # Junk
    BY <1>1, <1>2, <1>3, Zenon DEF CallShape
  <2>3. Call(c) \in CallType(c)
    BY <1>2, Zenon DEF ClientType
  <2>4. wr \in Posts(c) /\ wr.op = "write" /\ wr.addr = a /\ wr.val = Call(c).val /\ wr.fut = Call(c).fut
    BY <2>1, <2>3, Zenon DEF Posts, WriteWR, CallType, Cells
  <2> HIDE DEF wr
  <2>5. /\ T \in CallType(c) /\ T.pc = "check" /\ T.call = "write" /\ T.oid = oid /\ T.val = Call(c).val
        /\ T.fut = Call(c).fut /\ T.wr = <<wr>>
    <3> DEFINE w == <<wr>>
    <3>1. w \in Seq(Posts(c))
      BY <2>4
    <3> HIDE DEF w
    <3>2. T = [Call(c) EXCEPT !.pc = "check", !.wr = w]
      BY Zenon DEF w
    <3> HIDE DEF T
    <3>3. /\ T \in CallType(c) /\ T.pc = "check" /\ T.call = "write" /\ T.oid = oid /\ T.val = Call(c).val
          /\ T.fut = Call(c).fut /\ T.wr = w
      BY <1>1, <2>3, <3>1, <3>2, Zenon DEF CallType
    <3> QED
      BY <3>3, Zenon DEF w
  <2> HIDE DEF T
  <2>6. Turns(c, T)
    BY <1>1, <1>7, TurnsTo, Zenon
  <2>7. Call(c)' = T /\ Wanted(c)' = wr /\ ~Sending(c)'
    BY <2>4, <2>5, <2>6 DEF Turns, Wanted, Sending
  <2> DEFINE obj == objects_'[c]
             wrt == written'[c]
  <2>8. /\ DOMAIN obj = DOMAIN objects_[c] \cup {oid} /\ obj[oid] = a
        /\ \A o \in DOMAIN objects_[c] : obj[o] = objects_[c][o]
    BY <1>1, <1>2, <1>7, <2>2 DEF SharedType, With
  <2>9. /\ DOMAIN wrt = DOMAIN objects_[c] \cup {oid} /\ wrt[oid] = Junk
        /\ \A o \in DOMAIN objects_[c] : wrt[o] = written[c][o]
    BY <1>1, <1>2, <1>7, <2>2 DEF SharedType, With, ClientType
  <2>10. DOMAIN objects_' = Clients /\ DOMAIN written' = Clients
    BY <1>1, <1>2, <1>7, Zenon DEF SharedType
  <2>11. \A d \in Clients : d # c => objects_'[d] = objects_[d] /\ written'[d] = written[d]
    BY <1>1, <1>2, <1>7, Zenon DEF SharedType
  <2> HIDE DEF obj, wrt
  <2>12. SharedType'
    BY <1>1, <1>2, <1>7, <2>6, <2>10, Zenon DEF SharedType, Turns
  <2>13. ClientType(c)'
    BY <1>1, <1>2, <1>7, <2>1, <2>2, <2>5, <2>7, <2>8, <2>9, Numbers, Zenon DEF ClientType, obj, wrt
  <2>14. Others(c)
    BY <1>1, <1>7, <2>6, <2>11, ZenonT(40) DEF Others, Same, SameWire, InScq, OnceInScq, Turns
  <2>15. CallShape(c)'
    <3>1. Len(T.wr) = 1
      BY <2>5
    <3>2. T.pc = "check" /\ T.call = "write" /\ T.oid = oid /\ T.fut = wr.fut /\ conn'[c] = "established"
      BY <1>1, <2>4, <2>5, Zenon
    <3>3. oid \in DOMAIN objects_'[c] /\ objects_'[c][oid] = a
      BY <2>8, Zenon DEF obj
    <3> QED
      BY <2>2, <2>4, <2>7, <3>1, <3>2, <3>3, Zenon DEF CallShape
  <2>16. Stage(c, s)'
    BY <1>1, <1>2, <1>3, <2>5, <2>7, Zenon DEF Stage, InScq, OnceInScq, InCq, AtPoller
  <2>17. Messages(c, s)'
    BY <1>1, <1>3, <1>4, <2>5, <2>7, Zenon DEF Messages, Answered
  <2>18. Room(c, s)'
    BY <1>1, <1>2, <1>3, <2>5, <2>7, Zenon DEF Room, Pending
  <2>19. Located(c)' = Located(c) \cup {a} /\ Moving(c, s)' = {}
    BY <1>3, <2>5, <2>7, <2>8 DEF Located, Moving, Answered, obj
  <2>20. Own(c, s)' = Own(c, s)
    BY <1>3, <1>4, <1>7, <2>19, Zenon DEF Own
  <2>21. Neat(c, s)'
    <3>1. a \notin Located(c)
      BY <1>2, <1>3, <1>4, <1>7, Zenon DEF Neat
    <3>2. \A o, p \in DOMAIN obj : obj[o] = obj[p] => o = p
      <4>1. \A o \in DOMAIN objects_[c] : objects_[c][o] # a
        BY <3>1, Zenon DEF Located
      <4>2. \A o, p \in DOMAIN objects_[c] : objects_[c][o] = objects_[c][p] => o = p
        BY <1>2, Zenon DEF Neat
      <4> QED
        BY <2>8, <4>1, <4>2, Zenon
    <3> QED
      BY <1>1, <1>2, <2>19, <2>20, <3>2, Zenon DEF Neat, obj
  <2>22. Futures(c)'
    BY <1>1, <1>7, <2>5, <2>7, Zenon DEF ClientInv, Futures
  <2>23. Holds(c)'
    <3>1. \A o \in DOMAIN objects_[c] : Will(sq[c], memory, objects_[c][o], Len(sq[c]), written[c][o])
      BY <1>5, Zenon DEF ClientInv, Fresh, Holds
    <3> QED
      BY <1>1, <1>5, <2>5, <2>7, <2>8, <2>9, <3>1, ZenonT(40) DEF Holds, obj, wrt
  <2>24. Fresh(c)'
    BY <1>1, <1>7, <2>5, <2>7, <2>23, ZenonT(40) DEF ClientInv, Fresh
  <2> QED
    BY <1>1, <2>12, <2>13, <2>14, <2>15, <2>16, <2>17, <2>18, <2>20, <2>21, <2>22, <2>24, ZenonT(40) DEF Kept, ClientInv
<1> QED
  BY <1>6, <1>7, Zenon

-----------------------------------------------------------------------------
(* The calls of a client's user.                                           *)

\* A call that starts, and is not a remove, changes no object and no cell.
LEMMA BeginKeeps ==
    ASSUME NEW c \in Clients, NEW s \in Stages, ClientInv(c, s), Call(c).pc = "idle",
           outstanding_send_wr[c] \in Int,
           SameWire(c), memory' = memory, objects_'[c] = objects_[c], written'[c] = written[c],
           recv_sem'[c] = recv_sem[c], recvs'[c] = recvs[c],
           outstanding_send_wr'[c] = outstanding_send_wr[c], Call(c)'.call # "remove",
           \/ Call(c)'.pc = "check" /\ ~Sending(c)' /\ Call(c)'.oid \in DOMAIN objects_[c]
           \/ Call(c)'.pc = "copy" /\ Sending(c)' /\ outstanding_send_wr[c] + 2 <= MAX_SEND_WR
    PROVE  /\ Stage(c, s)' /\ Messages(c, s)' /\ Room(c, s)'
           /\ Own(c, s)' = Own(c, s) /\ Neat(c, s)' /\ Holds(c)'
<1>1. s = "none"
  BY Zenon DEF ClientInv, Stage
<1>2. recvs[c] = 0 /\ Moving(c, s) = {}
  BY <1>1, Zenon DEF ClientInv, Messages, Moving
<1>3. \A o \in DOMAIN objects_[c] : written[c][o] # Junk
  BY Zenon DEF ClientInv, Fresh, Holds
<1>4. Stage(c, s)'
  BY <1>1, ZenonT(40) DEF ClientInv, Stage, SameWire, InCq, AtPoller
<1>5. Messages(c, s)'
  BY <1>1, <1>2, Zenon DEF Messages, Answered
<1>6. Room(c, s)'
  <2> DEFINE n == outstanding_send_wr[c]
  <2>1. n \in Int /\ MAX_SEND_WR \in Nat
    BY Numbers, Zenon
  <2>2. n + 2 <= MAX_SEND_WR => n + 1 <= MAX_SEND_WR
    <3> HIDE DEF n
    <3> QED BY <2>1
  <2> QED BY <1>1, <1>3, <2>2, Zenon DEF ClientInv, Room, Pending, SameWire
<1>7. Located(c)' = Located(c) /\ Moving(c, s)' = {}
  BY <1>1, Zenon DEF Located, Moving, Answered
<1>8. Own(c, s)' = Own(c, s)
  BY <1>2, <1>7, Zenon DEF Own
<1>9. Neat(c, s)'
  BY <1>7, <1>8, Zenon DEF ClientInv, Neat, SameWire
<1>10. Holds(c)'
  BY <1>3, Zenon DEF ClientInv, Fresh, Holds, SameWire
<1> QED
  BY <1>4, <1>5, <1>6, <1>8, <1>9, <1>10, Zenon

\* A call takes a future nobody uses.
LEMMA ClaimStep ==
    ASSUME Dependable, TypeInv, NEW c \in Clients, Futures(c), Fresh(c), SameWire(c), memory' = memory,
           NEW f \in FreeFutures(User(c)), NEW isRead \in BOOLEAN, Claim(User(c), f, isRead),
           Call(c)'.fut = f, isRead <=> Call(c)'.call = "read", Holds(c)'
    PROVE  /\ Futures(c)' /\ Fresh(c)' /\ fut'[User(c)] \in [1 .. Depth -> FutureType]
           /\ DOMAIN fut' = Threads
           /\ \A d \in Clients : d # c => fut'[User(d)] = fut[User(d)]
<1> DEFINE r == [NoFuture EXCEPT !.busy = TRUE, !.read = isRead]
<1>1. r \in FutureType /\ r.busy /\ ~r.done /\ (r.read <=> isRead)
  BY Numbers, Zenon DEF NoFuture, FutureType
<1>2. fut' = [fut EXCEPT ![User(c)][f] = r]
  BY Zenon DEF Claim
<1> HIDE DEF r
<1>3. f \in 1 .. Depth /\ ~fut[User(c)][f].busy
  BY Zenon DEF FreeFutures
<1>4. ClientType(c) /\ SharedType /\ User(c) \in Threads
  BY OneUser, Zenon DEF TypeInv
<1>5. /\ DOMAIN fut' = Threads /\ fut'[User(c)] = [fut[User(c)] EXCEPT ![f] = r]
      /\ \A d \in Clients : d # c => fut'[User(d)] = fut[User(d)]
  BY <1>2, <1>4, OneUser, Zenon DEF SharedType
<1>6. ~Carries(sq[c], f) /\ ~Carries(unacked[c], f) /\ ~Carries(cq[c], f)
  BY <1>3, Zenon DEF Futures
<1>7. Futures(c)' /\ Fresh(c)' /\ fut'[User(c)] \in [1 .. Depth -> FutureType]
  BY <1>1, <1>3, <1>4, <1>5, <1>6, FutureStep, Zenon
<1> QED
  BY <1>5, <1>7, Zenon

\* write_sync, write_async: of a known object or of a new one.
LEMMA WriteStep ==
    ASSUME Dependable, TypeInv, NEW c \in Clients, NEW s \in Stages, ClientInv(c, s),
           NEW oid \in ObjectID, NEW v \in ValuesOf[c], NEW f \in 0 .. Depth, Write(User(c), oid, v, f),
           \/ f = Sync /\ UNCHANGED fut
           \/ f \in FreeFutures(User(c)) /\ Claim(User(c), f, FALSE)
    PROVE  Kept(c, s, s)
<1> DEFINE known == oid \in DOMAIN objects_[c]
           wr == IF known THEN WriteWR(User(c), objects_[c][oid], v, f) ELSE SendWR(User(c))
           w == <<wr>>
           pc == IF known THEN "check" ELSE "copy"
           T == [pc |-> pc, call |-> "write", oid |-> oid, val |-> v, fut |-> f, wr |-> w, freed |-> FALSE]
<1>1. /\ Call(c).pc = "idle" /\ conn[c] = "established"
      /\ thr' = [thr EXCEPT ![User(c)] = T]
      /\ ~known => outstanding_send_wr[c] + 2 <= MAX_SEND_WR
      /\ UNCHANGED <<conn, objects_, send_msg, recv_msg, recv_sem, recvs,
                     outstanding_send_wr, poller, written, wireVars, serverVars, memory, abandoned>>
  BY OneUser, Zenon DEF Write, WriteAt, Ready, Known, Begin, RoomForRpc, Dependable, Call
<1> USE DEF wireVars, serverVars
<1>2. CallShape(c) /\ ClientType(c) /\ SharedType /\ Futures(c) /\ Fresh(c)
  BY Zenon DEF ClientInv, TypeInv
<1>3. v \in Vals /\ v # Junk
  BY RDMAAssumption, Zenon DEF Vals
<1>4. /\ wr \in Posts(c)
      /\ known => wr.op = "write" /\ wr.addr = objects_[c][oid] /\ wr.val = v /\ wr.fut = f
      /\ ~known => wr.op = "send" /\ wr.fut = Sync
  BY <1>2, <1>3, Numbers, Zenon DEF WriteWR, SendWR, Posts, ClientType, Cells
<1> HIDE DEF wr
<1>5. w \in Seq(Posts(c)) /\ Len(w) = 1 /\ w # <<>> /\ w[1] = wr
  BY <1>4
<1> HIDE DEF w
<1>6. /\ T \in CallType(c) /\ T.pc = pc /\ T.call = "write" /\ T.oid = oid /\ T.val = v
      /\ T.fut = f /\ T.wr = w
  BY <1>3, <1>5, Zenon DEF CallType
<1> HIDE DEF T
<1>7. Turns(c, T)
  BY <1>1, TurnsTo, Zenon
<1>8. Call(c)' = T /\ Wanted(c)' = wr /\ (Sending(c)' <=> ~known)
  BY <1>4, <1>5, <1>6, <1>7, Zenon DEF Turns, Wanted, Sending
<1>9. SameWire(c)
  BY <1>1, Zenon DEF SameWire, InScq, OnceInScq
<1>10. CallShape(c)'
  BY <1>1, <1>3, <1>4, <1>5, <1>6, <1>8, Zenon DEF CallShape
<1>11. /\ Stage(c, s)' /\ Messages(c, s)' /\ Room(c, s)'
       /\ Own(c, s)' = Own(c, s) /\ Neat(c, s)' /\ Holds(c)'
  <2>1. outstanding_send_wr[c] \in Int
    BY <1>2, Zenon DEF SharedType
  <2> QED
    BY <1>1, <1>6, <1>8, <1>9, <2>1, BeginKeeps, Zenon
<1>12. /\ Futures(c)' /\ Fresh(c)' /\ fut'[User(c)] \in [1 .. Depth -> FutureType]
       /\ DOMAIN fut' = Threads
       /\ \A d \in Clients : d # c => fut'[User(d)] = fut[User(d)]
  <2>1. CASE f = Sync /\ fut' = fut
    <3>1. Futures(c)'
      BY <1>2, <1>6, <1>8, <1>9, <2>1, Numbers DEF Futures, SameWire
    <3>2. Fresh(c)'
      BY <1>1, <1>2, <1>6, <1>8, <1>9, <1>11, <2>1, Zenon DEF Fresh, SameWire
    <3> QED
      BY <1>2, <2>1, <3>1, <3>2, ZenonT(40) DEF ClientType, SharedType
  <2>2. CASE f \in FreeFutures(User(c)) /\ Claim(User(c), f, FALSE)
    <3>1. FALSE \in BOOLEAN /\ Call(c)'.fut = f /\ (FALSE <=> Call(c)'.call = "read")
      BY <1>6, <1>8, Zenon
    <3> QED
      BY <1>1, <1>2, <1>9, <1>11, <2>2, <3>1, ClaimStep, Zenon
  <2> QED
    BY <2>1, <2>2, Zenon
<1>13. SharedType' /\ ClientType(c)'
  BY <1>1, <1>2, <1>6, <1>7, <1>8, <1>12, Zenon DEF SharedType, Turns, ClientType
<1>14. Others(c)
  BY <1>1, <1>7, <1>12, ZenonT(40) DEF Others, Same, SameWire, InScq, OnceInScq, Turns
<1> QED
  BY <1>1, <1>10, <1>11, <1>12, <1>13, <1>14, Zenon DEF Kept, ClientInv

\* read_async of a known object.
LEMMA ReadStep ==
    ASSUME Dependable, TypeInv, NEW c \in Clients, NEW s \in Stages, ClientInv(c, s),
           NEW oid \in ObjectID, NEW f \in 1 .. Depth, read_async(User(c), oid, f)
    PROVE  Kept(c, s, s)
<1> DEFINE wr == ReadWR(User(c), objects_[c][oid], f)
           w == <<wr>>
           T == [pc |-> "check", call |-> "read", oid |-> oid, val |-> Junk, fut |-> f, wr |-> w,
                 freed |-> FALSE]
<1>1. /\ Call(c).pc = "idle" /\ conn[c] = "established" /\ oid \in DOMAIN objects_[c]
      /\ f \in FreeFutures(User(c)) /\ Claim(User(c), f, TRUE)
      /\ thr' = [thr EXCEPT ![User(c)] = T]
      /\ UNCHANGED <<conn, objects_, send_msg, recv_msg, recv_sem, recvs,
                     outstanding_send_wr, poller, written, wireVars, serverVars, memory, abandoned>>
  BY OneUser, Zenon DEF read_async, Ready, Known, Begin, Call
<1> USE DEF wireVars, serverVars
<1>2. CallShape(c) /\ ClientType(c) /\ SharedType /\ Futures(c) /\ Fresh(c)
  BY Zenon DEF ClientInv, TypeInv
<1>3. f \in 0 .. Depth /\ f # Sync
  BY Numbers
<1>4. wr \in Posts(c) /\ wr.op = "read" /\ wr.addr = objects_[c][oid] /\ wr.fut = f
  BY <1>1, <1>2, <1>3, Numbers, Zenon DEF ReadWR, Posts, ClientType, Cells
<1> HIDE DEF wr
<1>5. w \in Seq(Posts(c)) /\ Len(w) = 1 /\ w[1] = wr
  BY <1>4
<1> HIDE DEF w
<1>6. /\ T \in CallType(c) /\ T.pc = "check" /\ T.call = "read" /\ T.oid = oid
      /\ T.fut = f /\ T.wr = w
  BY <1>3, <1>5, Numbers, Zenon DEF CallType
<1> HIDE DEF T
<1>7. Turns(c, T)
  BY <1>1, TurnsTo, Zenon
<1>8. Call(c)' = T /\ Wanted(c)' = wr /\ ~Sending(c)'
  BY <1>4, <1>5, <1>6, <1>7, Zenon DEF Turns, Wanted, Sending
<1>9. SameWire(c)
  BY <1>1, Zenon DEF SameWire, InScq, OnceInScq
<1>10. CallShape(c)'
  BY <1>1, <1>3, <1>4, <1>5, <1>6, <1>8, Zenon DEF CallShape
<1>11. /\ Stage(c, s)' /\ Messages(c, s)' /\ Room(c, s)'
       /\ Own(c, s)' = Own(c, s) /\ Neat(c, s)' /\ Holds(c)'
  <2>1. outstanding_send_wr[c] \in Int
    BY <1>2, Zenon DEF SharedType
  <2> QED
    BY <1>1, <1>6, <1>8, <1>9, <2>1, BeginKeeps, Zenon
<1>12. /\ Futures(c)' /\ Fresh(c)' /\ fut'[User(c)] \in [1 .. Depth -> FutureType]
       /\ DOMAIN fut' = Threads
       /\ \A d \in Clients : d # c => fut'[User(d)] = fut[User(d)]
  <2>1. TRUE \in BOOLEAN /\ Call(c)'.fut = f /\ (TRUE <=> Call(c)'.call = "read")
    BY <1>6, <1>8, Zenon
  <2> QED
    BY <1>1, <1>2, <1>9, <1>11, <2>1, ClaimStep, Zenon
<1>13. SharedType' /\ ClientType(c)'
  BY <1>1, <1>2, <1>6, <1>7, <1>8, <1>12, Zenon DEF SharedType, Turns, ClientType
<1>14. Others(c)
  BY <1>1, <1>7, <1>12, ZenonT(40) DEF Others, Same, SameWire, InScq, OnceInScq, Turns
<1> QED
  BY <1>1, <1>10, <1>11, <1>12, <1>13, <1>14, Zenon DEF Kept, ClientInv

\* remove: the object's cell is on its way back.
LEMMA RemoveStep ==
    ASSUME Dependable, TypeInv, NEW c \in Clients, NEW s \in Stages, ClientInv(c, s),
           NEW oid \in ObjectID, remove(User(c), oid)
    PROVE  Kept(c, s, s)
<1> DEFINE a == objects_[c][oid]
           wr == [SendWR(User(c)) EXCEPT !.addr = a]
           w == <<wr>>
           T == [pc |-> "copy", call |-> "remove", oid |-> oid, val |-> Junk, fut |-> Sync, wr |-> w,
                 freed |-> FALSE]
<1>1. /\ Call(c).pc = "idle" /\ conn[c] = "established" /\ oid \in DOMAIN objects_[c]
      /\ outstanding_send_wr[c] + 1 <= MAX_SEND_WR
      /\ thr' = [thr EXCEPT ![User(c)] = T]
      /\ objects_' = [objects_ EXCEPT ![c] = Without(@, oid)]
      /\ written' = [written EXCEPT ![c] = Without(@, oid)]
      /\ UNCHANGED <<conn, send_msg, recv_msg, recv_sem, recvs, outstanding_send_wr,
                     poller, fut, wireVars, serverVars, memory, abandoned>>
  BY OneUser, Zenon DEF remove, Ready, Known, Begin, Call, RoomForRpc, Dependable
<1> USE DEF wireVars, serverVars
<1>2. CallShape(c) /\ Stage(c, s) /\ Messages(c, s) /\ Room(c, s) /\ Neat(c, s) /\ ClientType(c) /\ SharedType
  BY Zenon DEF ClientInv, TypeInv
<1>3. s = "none"
  BY <1>1, <1>2, Zenon DEF Stage
<1>4. recvs[c] = 0 /\ Moving(c, s) = {}
  BY <1>1, <1>2, <1>3, Zenon DEF Messages, Moving
<1>5. \A o \in DOMAIN objects_[c] : written[c][o] # Junk
  BY <1>1, Zenon DEF ClientInv, Fresh, Holds
<1>6. a \in Addrs
  BY <1>1, <1>2, Zenon DEF ClientType
<1>7. wr \in Posts(c) /\ wr.op = "send" /\ wr.addr = a /\ wr.fut = Sync
  BY <1>6, Numbers, Zenon DEF SendWR, Posts, Cells
<1> HIDE DEF wr
<1>8. w \in Seq(Posts(c)) /\ Len(w) = 1 /\ w # <<>> /\ w[1] = wr
  BY <1>7
<1> HIDE DEF w
<1>9. /\ T \in CallType(c) /\ T.pc = "copy" /\ T.call = "remove" /\ T.oid = oid
      /\ T.fut = Sync /\ T.wr = w
  BY <1>8, Numbers, Zenon DEF CallType
<1> HIDE DEF T
<1>10. Turns(c, T)
  BY <1>1, TurnsTo, Zenon
<1>11. Call(c)' = T /\ Wanted(c)' = wr /\ Sending(c)'
  BY <1>7, <1>8, <1>9, <1>10, Zenon DEF Turns, Wanted, Sending
<1> DEFINE obj == objects_'[c]
           wrt == written'[c]
<1>12. /\ DOMAIN obj = DOMAIN objects_[c] \ {oid} /\ DOMAIN wrt = DOMAIN obj
       /\ \A o \in DOMAIN obj : obj[o] = objects_[c][o] /\ wrt[o] = written[c][o]
  BY <1>1, <1>2, Zenon DEF SharedType, Without, ClientType
<1>13. DOMAIN objects_' = Clients /\ DOMAIN written' = Clients
  BY <1>1, <1>2, Zenon DEF SharedType
<1>14. \A d \in Clients : d # c => objects_'[d] = objects_[d] /\ written'[d] = written[d]
  BY <1>1, <1>2, Zenon DEF SharedType
<1> HIDE DEF obj, wrt
<1>15. SharedType'
  BY <1>1, <1>2, <1>10, <1>13, Zenon DEF SharedType, Turns
<1>16. ClientType(c)'
  BY <1>1, <1>2, <1>9, <1>11, <1>12, Zenon DEF ClientType, obj, wrt
<1>17. Others(c)
  BY <1>1, <1>10, <1>14, ZenonT(40) DEF Others, Same, SameWire, InScq, OnceInScq, Turns
<1>18. CallShape(c)'
  <2>1. oid \notin DOMAIN objects_'[c] /\ conn'[c] = "established"
    BY <1>1, <1>12, Zenon DEF obj
  <2> QED
    BY <1>6, <1>7, <1>8, <1>9, <1>11, <2>1, Zenon DEF CallShape
<1>19. Stage(c, s)'
  BY <1>1, <1>2, <1>3, <1>9, <1>11, Zenon DEF Stage, InScq, OnceInScq, InCq, AtPoller
<1>20. Messages(c, s)'
  BY <1>1, <1>3, <1>4, <1>9, <1>11, Zenon DEF Messages, Answered
<1>21. Room(c, s)'
  BY <1>1, <1>2, <1>3, <1>9, <1>11, Zenon DEF Room, Pending
<1>22. Located(c) = Located(c)' \cup {a} /\ a \notin Located(c)' /\ Moving(c, s)' = {a}
  <2>1. \A o \in DOMAIN obj : obj[o] # a
    BY <1>1, <1>2, <1>12, ZenonT(40) DEF Neat
  <2>2. Located(c) = Located(c)' \cup {a} /\ a \notin Located(c)'
    BY <1>1, <1>12, <2>1 DEF Located, obj
  <2> QED
    BY <1>3, <1>7, <1>9, <1>11, <2>2, Zenon DEF Moving, Answered
<1>23. Own(c, s)' = Own(c, s)
  BY <1>4, <1>22, Zenon DEF Own
<1>24. Neat(c, s)'
  <2>1. \A o, p \in DOMAIN obj : obj[o] = obj[p] => o = p
    BY <1>2, <1>12, Zenon DEF Neat
  <2> QED
    <3>1. Located(c)' \cap Moving(c, s)' = {}
      BY <1>22, Zenon
    <3>2. sq' = sq /\ \A i \in 1 .. Len(sq[c]) : sq[c][i].op # "send" => sq[c][i].addr \in Own(c, s)
      BY <1>1, <1>2, Zenon DEF Neat
    <3> QED
      BY <1>23, <2>1, <3>1, <3>2, Zenon DEF Neat, obj
<1>25. Futures(c)'
  <2>1. /\ Call(c)'.fut = Sync /\ fut' = fut /\ sq' = sq /\ unacked' = unacked /\ cq' = cq
        /\ \A f \in 1 .. Depth : f # Sync
    BY <1>1, <1>9, <1>11, Numbers
  <2>2. Futures(c)
    BY Zenon DEF ClientInv
  <2> QED
    BY <2>1, <2>2, Zenon DEF Futures
<1>26. Holds(c)'
  <2>1. \A o \in DOMAIN objects_[c] : Will(sq[c], memory, objects_[c][o], Len(sq[c]), written[c][o])
    BY <1>5, Zenon DEF ClientInv, Fresh, Holds
  <2> QED
    BY <1>1, <1>5, <1>12, <2>1, Zenon DEF Holds, obj, wrt
<1>27. Fresh(c)'
  BY <1>1, <1>9, <1>11, <1>26, Zenon DEF ClientInv, Fresh
<1> QED
  BY <1>1, <1>15, <1>16, <1>17, <1>18, <1>19, <1>20, <1>21, <1>23, <1>24, <1>25, <1>27, Zenon DEF Kept, ClientInv

\* wait: a future that is done is free again.
LEMMA WaitStep ==
    ASSUME Dependable, TypeInv, NEW c \in Clients, NEW s \in Stages, ClientInv(c, s),
           NEW f \in 1 .. Depth, wait(User(c), f)
    PROVE  Kept(c, s, s)
<1>1. /\ Call(c).pc = "idle" /\ fut[User(c)][f].done
      /\ fut' = [fut EXCEPT ![User(c)][f] = NoFuture]
      /\ UNCHANGED <<conn, objects_, send_msg, recv_msg, recv_sem, recvs, outstanding_send_wr,
                     poller, thr, written, wireVars, serverVars, memory, abandoned>>
  BY OneUser, Zenon DEF wait, Ready, Call
<1> USE DEF wireVars, serverVars
<1>2. /\ CallShape(c) /\ Stage(c, s) /\ Messages(c, s) /\ Room(c, s) /\ Neat(c, s) /\ Futures(c)
      /\ Fresh(c) /\ ClientType(c) /\ SharedType /\ User(c) \in Threads
  BY OneUser, Zenon DEF ClientInv, TypeInv
<1>3. /\ DOMAIN fut' = Threads /\ fut'[User(c)] = [fut[User(c)] EXCEPT ![f] = NoFuture]
      /\ \A d \in Clients : d # c => fut'[User(d)] = fut[User(d)]
  BY <1>1, <1>2, OneUser, Zenon DEF SharedType
<1>4. SameWire(c) /\ Call(c)' = Call(c) /\ Wanted(c)' = Wanted(c) /\ (Sending(c)' <=> Sending(c))
  BY <1>1, Zenon DEF SameWire, InScq, OnceInScq, Call, Wanted, Sending
<1>5. /\ CallShape(c)' /\ Stage(c, s)' /\ Messages(c, s)' /\ Room(c, s)'
  <2>1. CallShape(c)'
    BY <1>1, <1>2, <1>4, Zenon DEF CallShape
  <2>2. Stage(c, s)'
    BY <1>1, <1>2, <1>4, Zenon DEF Stage, SameWire, InCq, AtPoller
  <2>3. Messages(c, s)'
    BY <1>1, <1>2, <1>4, Zenon DEF Messages, Asked, Answer, Answered
  <2>4. Room(c, s)'
    BY <1>1, <1>2, <1>4, Zenon DEF Room, Pending
  <2> QED
    BY <2>1, <2>2, <2>3, <2>4, Zenon
<1>6. Located(c)' = Located(c) /\ Moving(c, s)' = Moving(c, s)
  BY <1>1, <1>4, Zenon DEF Located, Moving, Answered, Answer
<1>7. Own(c, s)' = Own(c, s) /\ Neat(c, s)'
  BY <1>1, <1>2, <1>6, Zenon DEF Own, Neat
<1>8. Holds(c)'
  BY <1>1, <1>2, <1>4, Zenon DEF Fresh, Holds
<1>9. ~Carries(sq[c], f) /\ ~Carries(unacked[c], f) /\ ~Carries(cq[c], f)
  BY <1>1, <1>2, Zenon DEF Futures
<1>10. NoFuture \in FutureType /\ ~NoFuture.done /\ Call(c)'.fut = Sync
  <2>1. AtRest.fut = Sync
    BY Zenon DEF AtRest
  <2> QED
    BY <1>1, <1>2, <1>4, <2>1, Numbers, Zenon DEF NoFuture, FutureType, CallShape
<1>11. Futures(c)' /\ Fresh(c)' /\ fut'[User(c)] \in [1 .. Depth -> FutureType]
  BY <1>1, <1>2, <1>3, <1>4, <1>8, <1>9, <1>10, FutureStep, Zenon
<1>12. SharedType' /\ ClientType(c)'
  BY <1>1, <1>2, <1>3, <1>4, <1>11, Zenon DEF SharedType, ClientType
<1>13. Others(c)
  BY <1>1, <1>3, ZenonT(40) DEF Others, Same, SameWire, InScq, OnceInScq
<1> QED
  BY <1>1, <1>5, <1>7, <1>11, <1>12, <1>13, Zenon DEF Kept, ClientInv

-----------------------------------------------------------------------------
(* A request is added to a queue, or is the first to leave it.             *)

\* The elements of a longer queue.
LEMMA Longer ==
    ASSUME NEW S, NEW q \in Seq(S), NEW w \in S, NEW r, r = Append(q, w)
    PROVE  /\ r \in Seq(S) /\ Len(q) \in Nat /\ Len(r) = Len(q) + 1 /\ r[Len(q) + 1] = w
           /\ \A i \in 1 .. Len(q) : r[i] = q[i] /\ i \in 1 .. Len(r)
           /\ \A i \in 1 .. Len(r) : i \in 1 .. Len(q) \/ i = Len(q) + 1
  OBVIOUS

\* The elements of a shorter queue.
LEMMA Shorter ==
    ASSUME NEW S, NEW q \in Seq(S), q # <<>>, NEW r, r = Tail(q)
    PROVE  /\ r \in Seq(S) /\ Len(r) \in Nat /\ Len(q) = Len(r) + 1 /\ Head(q) = q[1] /\ q[1] \in S
           /\ \A i \in 1 .. Len(r) : r[i] = q[i + 1] /\ i + 1 \in 1 .. Len(q)
           /\ \A i \in 1 .. Len(q) : i = 1 \/ i - 1 \in 1 .. Len(r)
           /\ 1 \in 1 .. Len(q)
  OBVIOUS

\* What the first requests lead to does not depend on the last.
LEMMA WillPrefix ==
    ASSUME NEW S, NEW q \in Seq(S), NEW w \in S, NEW r, r = Append(q, w), NEW m, NEW a, NEW v,
           NEW n \in 1 .. Len(q) \cup {Len(q)}, Will(q, m, a, n, v)
    PROVE  Will(r, m, a, n, v)
<1>1. \A i \in 1 .. n : r[i] = q[i]
  BY Longer
<1>2. CASE m[a] = v /\ \A i \in 1 .. n : ~Writes(q[i], a)
  BY <1>1, <1>2, Zenon DEF Will
<1>3. ASSUME NEW i \in 1 .. n, Writes(q[i], a), q[i].val = v, \A j \in i + 1 .. n : ~Writes(q[j], a)
      PROVE  Will(r, m, a, n, v)
  <2>1. \A j \in i + 1 .. n : j \in 1 .. n
    BY Longer
  <2> QED
    BY <1>1, <1>3, <2>1, ZenonT(40) DEF Will
<1> QED
  BY <1>2, <1>3, Zenon DEF Will

\* A request that does not write a cell changes nothing of it; one that writes it
\* decides.
LEMMA WillMore ==
    ASSUME NEW S, NEW q \in Seq(S), NEW w \in S, NEW r, r = Append(q, w), NEW m, NEW a, NEW v,
           IF Writes(w, a) THEN w.val = v ELSE Will(q, m, a, Len(q), v)
    PROVE  Will(r, m, a, Len(r), v)
<1>1. /\ Len(q) \in Nat /\ Len(r) = Len(q) + 1 /\ r[Len(r)] = w
      /\ \A i \in 1 .. Len(r) : i \in 1 .. Len(q) \/ i = Len(r)
  BY Longer
<1>2. CASE Writes(w, a)
  BY <1>1, <1>2 DEF Will
<1>3. CASE ~Writes(w, a)
  <2>1. Will(r, m, a, Len(q), v)
    BY <1>3, WillPrefix, Zenon
  <2>2. CASE m[a] = v /\ \A i \in 1 .. Len(q) : ~Writes(r[i], a)
    BY <1>1, <1>3, <2>2, Zenon DEF Will
  <2>3. ASSUME NEW i \in 1 .. Len(q), Writes(r[i], a), r[i].val = v, \A j \in i + 1 .. Len(q) : ~Writes(r[j], a)
        PROVE  Will(r, m, a, Len(r), v)
    <3>1. \A j \in i + 1 .. Len(r) : j \in i + 1 .. Len(q) \/ j = Len(r)
      BY <1>1
    <3>2. i \in 1 .. Len(r)
      BY <1>1
    <3> QED
      BY <1>1, <1>3, <2>3, <3>1, <3>2 DEF Will
  <2> QED
    BY <2>1, <2>2, <2>3, Zenon DEF Will
<1> QED
  BY <1>2, <1>3, Zenon

\* The first request is executed.
LEMMA WillLess ==
    ASSUME NEW S, NEW q \in Seq(S), q # <<>>, NEW r, r = Tail(q), NEW m, NEW k, NEW a, NEW v,
           NEW n \in 1 .. Len(q), Will(q, m, a, n, v),
           k[a] = IF Writes(q[1], a) THEN q[1].val ELSE m[a]
    PROVE  Will(r, k, a, n - 1, v)
<1>1. /\ Len(r) \in Nat /\ Len(q) = Len(r) + 1 /\ \A i \in 1 .. Len(r) : r[i] = q[i + 1]
  BY Shorter
<1>2. \A i \in 1 .. n - 1 : r[i] = q[i + 1] /\ i + 1 \in 1 .. n
  BY <1>1
<1>3. CASE m[a] = v /\ \A i \in 1 .. n : ~Writes(q[i], a)
  <2>1. k[a] = v
    BY <1>3
  <2> QED
    BY <1>2, <1>3, <2>1, Zenon DEF Will
<1>4. ASSUME NEW i \in 1 .. n, Writes(q[i], a), q[i].val = v, \A j \in i + 1 .. n : ~Writes(q[j], a)
      PROVE  Will(r, k, a, n - 1, v)
  <2>1. CASE i = 1
    <3>1. k[a] = v
      BY <1>4, <2>1, Zenon
    <3>2. \A j \in 1 .. n - 1 : j + 1 \in i + 1 .. n
      BY <2>1
    <3> QED
      BY <1>2, <1>4, <3>1, <3>2, Zenon DEF Will
  <2>2. CASE i # 1
    <3>1. i - 1 \in 1 .. n - 1 /\ (i - 1) + 1 = i
      BY <2>2
    <3>2. r[i - 1] = q[i]
      BY <1>2, <3>1, Zenon
    <3>3. \A j \in (i - 1) + 1 .. n - 1 : j + 1 \in i + 1 .. n /\ j \in 1 .. n - 1
      BY <2>2
    <3>4. \A j \in (i - 1) + 1 .. n - 1 : ~Writes(r[j], a)
      BY <1>2, <1>4, <3>3, Zenon
    <3> QED
      BY <1>4, <3>1, <3>2, <3>4, Zenon DEF Will
  <2> QED
    BY <2>1, <2>2, Zenon
<1> QED
  BY <1>3, <1>4, Zenon DEF Will

\* The futures of a longer queue.
LEMMA FuturesMore ==
    ASSUME NEW S, NEW q \in Seq(S), NEW w \in S, NEW r, r = Append(q, w), NEW F
    PROVE  /\ \A f : Carries(r, f) <=> Carries(q, f) \/ w.fut = f
           /\ Once(q) /\ (w.fut # Sync => ~Carries(q, w.fut)) => Once(r)
           /\ Kinds(q, F) /\ (w.fut # Sync => (F[w.fut].read <=> w.op = "read")) => Kinds(r, F)
           /\ /\ Got(q, F)
              /\ w.op = "read" => w.fut # Sync /\ F[w.fut].expect = w.val /\ w.val # Junk
              => Got(r, F)
<1>1. /\ r \in Seq(S) /\ Len(q) \in Nat /\ Len(r) = Len(q) + 1 /\ r[Len(q) + 1] = w
      /\ \A i \in 1 .. Len(q) : r[i] = q[i] /\ i \in 1 .. Len(r)
      /\ \A i \in 1 .. Len(r) : i \in 1 .. Len(q) \/ i = Len(q) + 1
      /\ Len(q) + 1 \in 1 .. Len(r)
  BY Longer
<1>2. \A f : Carries(r, f) <=> Carries(q, f) \/ w.fut = f
  BY <1>1, Zenon DEF Carries
<1>3. Once(q) /\ (w.fut # Sync => ~Carries(q, w.fut)) => Once(r)
  <2> SUFFICES ASSUME Once(q), w.fut # Sync => ~Carries(q, w.fut), NEW i \in 1 .. Len(r), NEW j \in 1 .. Len(r),
                      r[i].fut = r[j].fut, r[i].fut # Sync
               PROVE  i = j
    BY Zenon DEF Once
  <2>1. CASE i \in 1 .. Len(q) /\ j \in 1 .. Len(q)
    BY <1>1, <2>1, Zenon DEF Once
  <2>2. CASE i = Len(q) + 1 /\ j \in 1 .. Len(q)
    BY <1>1, <2>2, Zenon DEF Carries
  <2>3. CASE i \in 1 .. Len(q) /\ j = Len(q) + 1
    BY <1>1, <2>3, Zenon DEF Carries
  <2> QED
    BY <1>1, <2>1, <2>2, <2>3, Zenon
<1>4. Kinds(q, F) /\ (w.fut # Sync => (F[w.fut].read <=> w.op = "read")) => Kinds(r, F)
  BY <1>1, ZenonT(40) DEF Kinds
<1>5. /\ Got(q, F)
      /\ w.op = "read" => w.fut # Sync /\ F[w.fut].expect = w.val /\ w.val # Junk
      => Got(r, F)
  BY <1>1, ZenonT(40) DEF Got
<1> QED
  BY <1>2, <1>3, <1>4, <1>5, Zenon

\* The futures of a shorter queue.
LEMMA FuturesLess ==
    ASSUME NEW S, NEW q \in Seq(S), q # <<>>, NEW r, r = Tail(q), NEW F
    PROVE  /\ \A f : Carries(q, f) <=> Carries(r, f) \/ q[1].fut = f
           /\ Once(q) => Once(r) /\ (q[1].fut # Sync => ~Carries(r, q[1].fut))
           /\ Kinds(q, F) => Kinds(r, F) /\ (q[1].fut # Sync => (F[q[1].fut].read <=> q[1].op = "read"))
           /\ Got(q, F) =>
                /\ Got(r, F)
                /\ q[1].op = "read" => q[1].fut # Sync /\ F[q[1].fut].expect = q[1].val /\ q[1].val # Junk
<1>1. /\ r \in Seq(S) /\ Len(r) \in Nat /\ Len(q) = Len(r) + 1
      /\ \A i \in 1 .. Len(r) : r[i] = q[i + 1] /\ i + 1 \in 1 .. Len(q)
      /\ \A i \in 1 .. Len(q) : i = 1 \/ (i - 1 \in 1 .. Len(r) /\ r[i - 1] = q[i])
      /\ 1 \in 1 .. Len(q)
  <2>1. /\ r \in Seq(S) /\ Len(r) \in Nat /\ Len(q) = Len(r) + 1
        /\ \A i \in 1 .. Len(r) : r[i] = q[i + 1] /\ i + 1 \in 1 .. Len(q)
        /\ \A i \in 1 .. Len(q) : i = 1 \/ i - 1 \in 1 .. Len(r)
        /\ 1 \in 1 .. Len(q)
    BY Shorter
  <2>2. \A i \in 1 .. Len(q) : (i - 1) + 1 = i
    BY <2>1
  <2> QED
    BY <2>1, <2>2, Zenon
<1>2. ASSUME NEW f
      PROVE  Carries(q, f) <=> Carries(r, f) \/ q[1].fut = f
  <2>1. ASSUME NEW i \in 1 .. Len(q), q[i].fut = f, q[1].fut # f
        PROVE  Carries(r, f)
    <3>1. i - 1 \in 1 .. Len(r) /\ r[i - 1].fut = f
      BY <1>1, <2>1, Zenon
    <3> QED
      BY <3>1, Zenon DEF Carries
  <2>2. ASSUME NEW i \in 1 .. Len(r), r[i].fut = f
        PROVE  Carries(q, f)
    BY <1>1, <2>2, Zenon DEF Carries
  <2>3. q[1].fut = f => Carries(q, f)
    BY <1>1, Zenon DEF Carries
  <2>4. Carries(q, f) => Carries(r, f) \/ q[1].fut = f
    BY <2>1, Zenon DEF Carries
  <2>5. Carries(r, f) => Carries(q, f)
    BY <2>2, Zenon DEF Carries
  <2> QED
    BY <2>3, <2>4, <2>5, Zenon
<1>3. Once(q) => Once(r)
  <2> SUFFICES ASSUME Once(q), NEW i \in 1 .. Len(r), NEW j \in 1 .. Len(r), r[i].fut = r[j].fut, r[i].fut # Sync
               PROVE  i = j
    BY Zenon DEF Once
  <2>1. i + 1 \in 1 .. Len(q) /\ j + 1 \in 1 .. Len(q) /\ r[i] = q[i + 1] /\ r[j] = q[j + 1]
    BY <1>1, Zenon
  <2>2. i + 1 = j + 1
    BY <2>1, Zenon DEF Once
  <2> QED
    BY <1>1, <2>2
<1>4. Once(q) => (q[1].fut # Sync => ~Carries(r, q[1].fut))
  <2> SUFFICES ASSUME Once(q), q[1].fut # Sync, NEW i \in 1 .. Len(r), r[i].fut = q[1].fut
               PROVE  FALSE
    BY Zenon DEF Carries
  <2>1. i + 1 \in 1 .. Len(q) /\ q[i + 1].fut = q[1].fut /\ i + 1 # 1
    BY <1>1
  <2> QED
    BY <1>1, <2>1, Zenon DEF Once
<1>5. Kinds(q, F) => Kinds(r, F) /\ (q[1].fut # Sync => (F[q[1].fut].read <=> q[1].op = "read"))
  BY <1>1 DEF Kinds
<1>6. Got(q, F) =>
        /\ Got(r, F)
        /\ q[1].op = "read" => q[1].fut # Sync /\ F[q[1].fut].expect = q[1].val /\ q[1].val # Junk
  BY <1>1 DEF Got
<1> QED
  BY <1>2, <1>3, <1>4, <1>5, <1>6, Zenon

-----------------------------------------------------------------------------
(* post_send: of a message, of a write, of a read.                         *)

\* What the three have in common.
LEMMA Posted ==
    ASSUME Dependable, TypeInv, NEW c \in Clients, NEW s \in Stages, ClientInv(c, s), post_send(User(c))
    PROVE  /\ s = "none" /\ Call(c).pc = "queue" /\ conn[c] = "established"
           /\ Wanted(c) \in Posts(c) /\ (Sending(c) <=> Wanted(c).op = "send")
           /\ outstanding_send_wr' \in [Clients -> Int]
           /\ outstanding_send_wr'[c] = outstanding_send_wr[c] + 1
           /\ sq'[c] = Append(sq[c], Wanted(c)) /\ sq[c] \in Seq(Posts(c)) /\ DOMAIN sq' = Clients
           /\ \A d \in Clients : d # c => sq'[d] = sq[d] /\ outstanding_send_wr'[d] = outstanding_send_wr[d]
           /\ \A i \in 1 .. Len(sq[c]) : sq[c][i].op # "send"
           /\ outstanding_send_wr'[c] = Pending(c)'
           /\ UNCHANGED <<conn, objects_, send_msg, recv_msg, recv_sem, recvs, poller, unacked,
                          cq, serverVars, memory, abandoned>>
<1>1. /\ Call(c).pc = "queue" /\ conn[c] = "established"
      /\ outstanding_send_wr' = [outstanding_send_wr EXCEPT ![c] = @ + 1]
      /\ sq' = [sq EXCEPT ![c] = Append(@, Wanted(c))]
      /\ UNCHANGED <<conn, objects_, send_msg, recv_msg, recv_sem, recvs, poller, unacked,
                     cq, serverVars, memory, abandoned>>
  BY OneUser, Zenon DEF post_send, At, Call, Request, Wanted
<1>2. CallShape(c) /\ Stage(c, s) /\ Room(c, s) /\ ClientType(c) /\ SharedType
  BY Zenon DEF ClientInv, TypeInv
<1>3. Wanted(c) \in Posts(c) /\ (Sending(c) <=> Wanted(c).op = "send")
  BY <1>1, <1>2, CallWanted, Zenon
<1>4. s = "none"
  BY <1>1, <1>2, Zenon DEF Stage
<1>5. \A i \in 1 .. Len(sq[c]) : sq[c][i].op # "send"
  BY <1>2, <1>4, ZenonT(40) DEF Stage
<1>6. /\ outstanding_send_wr' \in [Clients -> Int]
      /\ outstanding_send_wr'[c] = outstanding_send_wr[c] + 1 /\ outstanding_send_wr[c] \in Int
      /\ sq'[c] = Append(sq[c], Wanted(c)) /\ DOMAIN sq' = Clients
      /\ \A d \in Clients : d # c => sq'[d] = sq[d] /\ outstanding_send_wr'[d] = outstanding_send_wr[d]
  BY <1>1, <1>2, SMTT(40) DEF SharedType
<1>7. sq[c] \in Seq(Posts(c)) /\ Len(sq[c]) \in Nat /\ Len(sq'[c]) = Len(sq[c]) + 1
  <2>1. sq[c] \in Seq(Posts(c))
    BY <1>2, ZenonT(40) DEF ClientType
  <2> QED
    BY <1>3, <1>6, <2>1, Longer
<1>8. Len(unacked[c]) \in Nat /\ Len(cq[c]) \in Nat /\ Len(poller[c]) \in Nat
  BY <1>2 DEF ClientType
<1>9. outstanding_send_wr[c] = Len(sq[c]) + Len(unacked[c]) + Len(cq[c]) + Len(poller[c])
  BY <1>2, <1>4, Zenon DEF Room, Pending
<1>10. outstanding_send_wr'[c] = Pending(c)'
  <2> DEFINE i == Len(sq[c])
             j == Len(unacked[c])
             k == Len(cq[c])
             l == Len(poller[c])
             h == Len(sq'[c])
             n == outstanding_send_wr[c]
             m == outstanding_send_wr'[c]
  <2>1. i \in Nat /\ j \in Nat /\ k \in Nat /\ l \in Nat /\ n = i + j + k + l /\ h = i + 1 /\ m = n + 1
    BY <1>6, <1>7, <1>8, <1>9, Zenon
  <2> HIDE DEF i, j, k, l, h, n, m
  <2>2. m = h + j + k + l
    BY <2>1
  <2> QED
    BY <1>1, <2>2, Zenon DEF j, k, l, h, m, Pending
<1> QED
  BY <1>1, <1>3, <1>4, <1>5, <1>6, <1>7, <1>10, Zenon

\* The futures after a request is posted: its future goes from the call to the
\* queue, or stays with the call if the request has none.
LEMMA PostFutures ==
    ASSUME NEW c \in Clients, NEW w, NEW S, sq[c] \in Seq(S), w \in S, sq'[c] = Append(sq[c], w),
           unacked'[c] = unacked[c], cq'[c] = cq[c], w.fut \in 0 .. Depth, Futures(c),
           \A f \in 1 .. Depth : fut'[User(c)][f].busy = fut[User(c)][f].busy
                                 /\ fut'[User(c)][f].done = fut[User(c)][f].done,
           \/ w.fut = Sync /\ Call(c)'.fut = Call(c).fut
           \/ w.fut = Call(c).fut /\ Call(c)'.fut = Sync
    PROVE  Futures(c)'
<1>1. /\ \A f : Carries(sq'[c], f) <=> Carries(sq[c], f) \/ w.fut = f
      /\ Once(sq[c]) /\ (w.fut # Sync => ~Carries(sq[c], w.fut)) => Once(sq'[c])
  BY FuturesMore, ZenonT(30)
<1>2. \A f \in 1 .. Depth : f # Sync
  BY Numbers
<1>3. w.fut # Sync => w.fut \in 1 .. Depth
  BY Numbers, Zenon
<1>4. Once(sq'[c])
  BY <1>1, <1>3, Zenon DEF Futures
<1>5. ASSUME NEW f \in 1 .. Depth
      PROVE  /\ Call(c)'.fut = f \/ Carries(sq'[c], f) \/ Carries(unacked[c], f) \/ Carries(cq[c], f) =>
                    fut'[User(c)][f].busy /\ ~fut'[User(c)][f].done
             /\ Call(c)'.fut = f => ~Carries(sq'[c], f) /\ ~Carries(unacked[c], f) /\ ~Carries(cq[c], f)
             /\ Carries(sq'[c], f) => ~Carries(unacked[c], f) /\ ~Carries(cq[c], f)
             /\ Carries(unacked[c], f) => ~Carries(cq[c], f)
  BY <1>1, <1>2, <1>5, ZenonT(40) DEF Futures
<1> QED
  BY <1>4, <1>5, Zenon DEF Futures

\* The reads in the queue stay as they were.
LEMMA PostReads ==
    ASSUME NEW S, NEW q \in Seq(S), NEW w \in S, NEW r, r = Append(q, w), NEW m, NEW F, WillGet(q, m, F),
           w.op = "read" => w.fut # Sync /\ F[w.fut].expect # Junk /\ Will(q, m, w.addr, Len(q), F[w.fut].expect)
    PROVE  WillGet(r, m, F)
<1>1. /\ Len(q) \in Nat /\ Len(r) = Len(q) + 1 /\ r[Len(q) + 1] = w
      /\ \A i \in 1 .. Len(q) : r[i] = q[i] /\ i \in 1 .. Len(r)
      /\ \A i \in 1 .. Len(r) : i \in 1 .. Len(q) \/ i = Len(q) + 1
  BY Longer
<1>2. ASSUME NEW i \in 1 .. Len(q), r[i].op = "read"
      PROVE  r[i].fut # Sync /\ F[r[i].fut].expect # Junk /\ Will(r, m, r[i].addr, i, F[r[i].fut].expect)
  <2>1. q[i].fut # Sync /\ F[q[i].fut].expect # Junk /\ Will(q, m, q[i].addr, i, F[q[i].fut].expect) /\ r[i] = q[i]
    BY <1>1, <1>2, Zenon DEF WillGet
  <2>2. Will(r, m, q[i].addr, i, F[q[i].fut].expect)
    BY <2>1, WillPrefix, Zenon
  <2> QED
    BY <2>1, <2>2, Zenon
<1>3. ASSUME w.op = "read"
      PROVE  w.fut # Sync /\ F[w.fut].expect # Junk /\ Will(r, m, w.addr, Len(r), F[w.fut].expect)
  <2>1. ~Writes(w, w.addr)
    BY <1>3, Zenon DEF Writes
  <2> QED
    BY <1>3, <2>1, WillMore, ZenonT(30)
<1> QED
  BY <1>1, <1>2, <1>3, Zenon DEF WillGet

\* post_send of an exchange's message.
LEMMA PostSendStep ==
    ASSUME Dependable, TypeInv, NEW c \in Clients, NEW s \in Stages, ClientInv(c, s),
           post_send(User(c)), Wanted(c).op = "send"
    PROVE  Kept(c, s, "sq")
<1> DEFINE wr == Wanted(c)
           q == sq[c]
           r == sq'[c]
           F == fut[User(c)]
<1>1. /\ s = "none" /\ Call(c).pc = "queue" /\ conn[c] = "established" /\ Sending(c)
      /\ wr \in Posts(c)
      /\ outstanding_send_wr' \in [Clients -> Int]
      /\ outstanding_send_wr'[c] = outstanding_send_wr[c] + 1
      /\ r = Append(q, wr) /\ q \in Seq(Posts(c)) /\ DOMAIN sq' = Clients
      /\ \A d \in Clients : d # c => sq'[d] = sq[d] /\ outstanding_send_wr'[d] = outstanding_send_wr[d]
      /\ \A i \in 1 .. Len(q) : q[i].op # "send"
      /\ outstanding_send_wr'[c] = Pending(c)'
      /\ UNCHANGED <<conn, objects_, send_msg, recv_msg, recv_sem, recvs, poller, unacked,
                     cq, serverVars, memory, abandoned>>
  BY Posted, Zenon
<1> USE DEF serverVars
<1>2. Goto(User(c), "sent") /\ written' = written /\ fut' = fut
  BY OneUser, Zenon DEF post_send, Request, Wanted, Call
<1>3. Jump(c, "sent") /\ Call(c)' \in CallType(c) /\ Turns(c, Call(c)')
  BY <1>2, JumpTo, Zenon
<1>4. /\ CallShape(c) /\ Stage(c, s) /\ Messages(c, s) /\ Room(c, s) /\ Neat(c, s) /\ Futures(c)
      /\ Fresh(c) /\ ClientType(c) /\ SharedType
  BY Zenon DEF ClientInv, TypeInv
<1>5. wr.fut = Sync
  BY <1>1, <1>4, Zenon DEF CallShape
<1>6. /\ r \in Seq(Posts(c)) /\ Len(q) \in Nat /\ Len(r) = Len(q) + 1 /\ r[Len(q) + 1] = wr /\ r # <<>>
      /\ \A i \in 1 .. Len(q) : r[i] = q[i]
      /\ \A i \in 1 .. Len(r) : i \in 1 .. Len(q) \/ i = Len(q) + 1
  <2>1. /\ r \in Seq(Posts(c)) /\ Len(q) \in Nat /\ Len(r) = Len(q) + 1 /\ r[Len(q) + 1] = wr
        /\ \A i \in 1 .. Len(q) : r[i] = q[i]
        /\ \A i \in 1 .. Len(r) : i \in 1 .. Len(q) \/ i = Len(q) + 1
    BY <1>1, Longer
  <2> QED
    BY <2>1, SMTT(40)
<1> HIDE DEF wr, q, r
<1>7. SharedType'
  BY <1>1, <1>2, <1>3, <1>4, Zenon DEF SharedType, Turns
<1>8. ClientType(c)'
  BY <1>1, <1>2, <1>3, <1>4, <1>6, ZenonT(40) DEF ClientType, r
<1>9. Others(c)
  BY <1>1, <1>2, <1>3 DEF Others, Same, SameWire, InScq, OnceInScq, Turns
<1>10. CallShape(c)'
  BY <1>1, <1>3, <1>4, Zenon DEF CallShape, Jump, wr
<1>11. Stage(c, "sq")'
  <2>1. \A i \in 1 .. Len(r) : r[i].op = "send" <=> i = Len(r)
    BY <1>1, <1>6, ZenonT(40) DEF wr
  <2> QED
    BY <1>1, <1>3, <1>4, <1>6, <2>1, Zenon DEF Stage, Jump, InScq, OnceInScq, InCq, AtPoller, r
<1>12. Messages(c, "sq")'
  <2>1. Asked(c)' = Asked(c)
    BY <1>3, Zenon DEF Asked, Jump
  <2> QED
    BY <1>1, <1>3, <1>4, <2>1, Zenon DEF Messages, Jump, Answered
<1>13. Room(c, "sq")'
  <2>1. /\ outstanding_send_wr[c] + 1 <= MAX_SEND_WR /\ outstanding_send_wr[c] \in Int
        /\ Call(c).call = "write" => outstanding_send_wr[c] + 2 <= MAX_SEND_WR
    BY <1>1, <1>4, Zenon DEF Room, SharedType
  <2>2. /\ Call(c).call = "write" => outstanding_send_wr'[c] + 1 <= MAX_SEND_WR
        /\ outstanding_send_wr'[c] <= MAX_SEND_WR
    <3> DEFINE n == outstanding_send_wr[c]
               m == outstanding_send_wr'[c]
    <3>1. n + 1 <= MAX_SEND_WR /\ n \in Int /\ m = n + 1 /\ MAX_SEND_WR \in Nat
          /\ (Call(c).call = "write" => n + 2 <= MAX_SEND_WR)
      BY <1>1, <2>1, Numbers, Zenon
    <3> HIDE DEF n, m
    <3>2. (n + 2 <= MAX_SEND_WR => m + 1 <= MAX_SEND_WR) /\ m <= MAX_SEND_WR
      BY <3>1
    <3> QED
      BY <3>1, <3>2, Zenon DEF m
  <2> QED
    BY <1>1, <1>3, <2>2, Zenon DEF Room, Jump
<1>14. Located(c)' = Located(c) /\ Moving(c, "sq")' = Moving(c, s)
  BY <1>1, <1>3, Zenon DEF Located, Moving, Answered, Answer, Jump
<1>15. Own(c, "sq")' = Own(c, s)
  BY <1>14, Zenon DEF Own
<1>16. Neat(c, "sq")'
  <2>1. \A i \in 1 .. Len(r) : r[i].op # "send" => r[i].addr \in Own(c, s)
    BY <1>4, <1>6, Zenon DEF Neat, wr, q
  <2> QED
    BY <1>1, <1>4, <1>14, <1>15, <2>1, Zenon DEF Neat, r
<1>17. Futures(c)'
  <2>1. wr.fut \in 0 .. Depth /\ Call(c)'.fut = Call(c).fut
    BY <1>3, <1>5, Numbers, Zenon DEF Jump
  <2> QED
    BY <1>1, <1>2, <1>4, <1>5, <2>1, PostFutures, ZenonT(40) DEF q, r
<1>18. Kinds(r, F) /\ WillGet(r, memory, F)
  <2>1. Kinds(q, F) /\ WillGet(q, memory, F)
    BY <1>4, Zenon DEF Fresh, q
  <2>2. Kinds(r, F)
    BY <1>1, <1>5, <2>1, FuturesMore, Zenon
  <2>3. WillGet(r, memory, F)
    BY <1>1, <2>1, PostReads, Zenon DEF wr
  <2> QED
    BY <2>2, <2>3, Zenon
<1>19. Holds(c)'
  <2>0. \A o \in DOMAIN objects_[c] : written[c][o] # Junk
    <3>1. Call(c).oid \notin DOMAIN objects_[c]
      BY <1>1, <1>4, Zenon DEF CallShape
    <3> QED
      BY <1>4, <3>1, Zenon DEF Fresh, Holds
  <2> SUFFICES ASSUME NEW o \in DOMAIN objects_[c]
               PROVE  Will(r, memory, objects_[c][o], Len(r), written[c][o])
    <3>1. objects_' = objects_ /\ written' = written /\ memory' = memory
      BY <1>1, <1>2, Zenon
    <3> QED
      BY <2>0, <3>1, Zenon DEF Holds, r
  <2>1. Will(q, memory, objects_[c][o], Len(q), written[c][o])
    BY <1>4, <2>0, Zenon DEF Fresh, Holds, q
  <2>2. ~Writes(wr, objects_[c][o])
    BY Zenon DEF Writes, wr
  <2> QED
    BY <1>1, <2>1, <2>2, WillMore, Zenon
<1>20. Fresh(c)'
  BY <1>1, <1>2, <1>3, <1>4, <1>18, <1>19, ZenonT(40) DEF Fresh, Jump, r
<1> QED
  BY <1>1, <1>7, <1>8, <1>9, <1>10, <1>11, <1>12, <1>13, <1>15, <1>16, <1>17, <1>20, Zenon DEF Kept, ClientInv

\* post_send of a write: write_sync waits (for nothing), write_async returns.
LEMMA PostWriteStep ==
    ASSUME Dependable, TypeInv, NEW c \in Clients, NEW s \in Stages, ClientInv(c, s),
           post_send(User(c)), Wanted(c).op = "write"
    PROVE  Kept(c, s, s)
<1> DEFINE wr == Wanted(c)
           q == sq[c]
           r == sq'[c]
           F == fut[User(c)]
           oid == Call(c).oid
<1>1. /\ s = "none" /\ Call(c).pc = "queue" /\ conn[c] = "established" /\ ~Sending(c)
      /\ wr \in Posts(c)
      /\ outstanding_send_wr' \in [Clients -> Int]
      /\ outstanding_send_wr'[c] = outstanding_send_wr[c] + 1
      /\ r = Append(q, wr) /\ q \in Seq(Posts(c)) /\ DOMAIN sq' = Clients
      /\ \A d \in Clients : d # c => sq'[d] = sq[d] /\ outstanding_send_wr'[d] = outstanding_send_wr[d]
      /\ \A i \in 1 .. Len(q) : q[i].op # "send"
      /\ outstanding_send_wr'[c] = Pending(c)'
      /\ UNCHANGED <<conn, objects_, send_msg, recv_msg, recv_sem, recvs, poller, unacked,
                     cq, serverVars, memory, abandoned>>
  BY Posted, Zenon
<1> USE DEF serverVars
<1>2. /\ CallShape(c) /\ Stage(c, s) /\ Messages(c, s) /\ Room(c, s) /\ Neat(c, s) /\ Futures(c)
      /\ Fresh(c) /\ ClientType(c) /\ SharedType
  BY Zenon DEF ClientInv, TypeInv
<1>3. /\ oid \in DOMAIN objects_[c] /\ wr.addr = objects_[c][oid] /\ wr.val # Junk /\ wr.val \in Vals
      /\ Call(c).call = "write" /\ Call(c).fut = wr.fut
  BY <1>1, <1>2, Zenon DEF CallShape, Posts
<1>4. /\ IF wr.fut = Sync THEN Goto(User(c), "sent") ELSE Return(User(c))
      /\ written' = [written EXCEPT ![c] = With(@, oid, wr.val)] /\ fut' = fut
  BY <1>3, OneUser, Zenon DEF post_send, Request, Wanted, Call, Known
<1>5. /\ Call(c)' \in CallType(c) /\ Turns(c, Call(c)') /\ Call(c)'.pc \in {"sent", "idle"} /\ ~Sending(c)'
      /\ Call(c)'.fut = Sync /\ CallShape(c)'
  <2>1. CASE wr.fut = Sync
    <3>1. Jump(c, "sent") /\ Call(c)' \in CallType(c) /\ Turns(c, Call(c)')
      BY <1>4, <2>1, JumpTo, Zenon
    <3>2. CallShape(c)'
      BY <1>1, <1>2, <2>1, <3>1, Zenon DEF CallShape, Jump
    <3> QED
      BY <1>1, <1>3, <2>1, <3>1, <3>2, Zenon DEF Jump
  <2>2. CASE wr.fut # Sync
    <3>1. Call(c)' = AtRest /\ AtRest \in CallType(c) /\ Turns(c, AtRest) /\ AtRest.pc = "idle" /\ AtRest.fut = Sync
      BY <1>4, <2>2, RestTo, Zenon
    <3>2. ~Sending(c)'
      BY <3>1, RestSends, Zenon
    <3> QED
      BY <3>1, <3>2, Zenon DEF CallShape
  <2> QED
    BY <2>1, <2>2, Zenon
<1>6. /\ r \in Seq(Posts(c)) /\ Len(q) \in Nat /\ Len(r) = Len(q) + 1 /\ r[Len(q) + 1] = wr
      /\ \A i \in 1 .. Len(q) : r[i] = q[i]
      /\ \A i \in 1 .. Len(r) : i \in 1 .. Len(q) \/ i = Len(q) + 1
  <2>1. r = Append(q, wr) /\ q \in Seq(Posts(c)) /\ wr \in Posts(c)
    BY <1>1, Zenon
  <2> HIDE DEF q, r, wr
  <2> QED
    BY <2>1, Longer
<1> DEFINE wrt == written'[c]
<1>7. /\ DOMAIN written' = Clients /\ DOMAIN wrt = DOMAIN objects_[c] /\ wrt[oid] = wr.val
      /\ \A o \in DOMAIN objects_[c] : o # oid => wrt[o] = written[c][o]
      /\ \A d \in Clients : d # c => written'[d] = written[d]
  BY <1>2, <1>3, <1>4, Zenon DEF SharedType, ClientType, With
<1> HIDE DEF wr, q, r, wrt
<1>8. SharedType'
  BY <1>1, <1>2, <1>4, <1>5, <1>7, Zenon DEF SharedType, Turns
<1>9. ClientType(c)'
  BY <1>1, <1>2, <1>3, <1>4, <1>5, <1>6, <1>7, ZenonT(30) DEF ClientType, r, wrt
<1>10. Others(c)
  BY <1>1, <1>4, <1>5, <1>7 DEF Others, Same, SameWire, InScq, OnceInScq, Turns
<1>11. Stage(c, s)'
  <2>1. \A i \in 1 .. Len(r) : r[i].op # "send"
    BY <1>1, <1>6, Zenon DEF wr
  <2> QED
    BY <1>1, <1>2, <1>5, <2>1, Zenon DEF Stage, InScq, OnceInScq, InCq, AtPoller, r
<1>12. Messages(c, s)'
  BY <1>1, <1>2, <1>5, Zenon DEF Messages, Answered
<1>13. Room(c, s)'
  <2>1. outstanding_send_wr[c] + 1 <= MAX_SEND_WR
    BY <1>1, <1>2, Zenon DEF Room
  <2> QED
    BY <1>1, <1>5, <2>1, Zenon DEF Room
<1>14. Located(c)' = Located(c) /\ Moving(c, s)' = {} /\ Moving(c, s) = {}
  <2>1. Call(c)'.pc = "idle" \/ Call(c)'.call = "write"
    <3>1. CASE wr.fut = Sync
      BY <1>3, <1>4, <3>1, JumpTo, Zenon DEF Jump
    <3>2. CASE wr.fut # Sync
      BY <1>4, <3>2, RestTo, Zenon
    <3> QED
      BY <3>1, <3>2, Zenon
  <2> QED
    BY <1>1, <1>3, <1>5, <2>1, Zenon DEF Located, Moving, Answered
<1>15. Own(c, s)' = Own(c, s)
  BY <1>14, Zenon DEF Own
<1>16. Neat(c, s)'
  <2>1. wr.addr \in Own(c, s)
    BY <1>3, Zenon DEF Own, Located
  <2>2. \A i \in 1 .. Len(r) : r[i].op # "send" => r[i].addr \in Own(c, s)
    BY <1>2, <1>6, <2>1, Zenon DEF Neat, q
  <2> QED
    BY <1>1, <1>2, <1>14, <1>15, <2>2, ZenonT(40) DEF Neat, r
<1>17. Futures(c)'
  <2>1. wr.fut \in 0 .. Depth
    BY <1>1, Zenon DEF Posts
  <2> QED
    BY <1>1, <1>2, <1>3, <1>4, <1>5, <2>1, PostFutures, ZenonT(40) DEF q, r
<1>18. Kinds(r, F) /\ WillGet(r, memory, F)
  <2>1. Kinds(q, F) /\ WillGet(q, memory, F) /\ (wr.fut # Sync => ~F[wr.fut].read)
    BY <1>2, <1>3, Zenon DEF Fresh, q
  <2>2. wr.op = "write"
    BY Zenon DEF wr
  <2>5. wr.fut # Sync => (F[wr.fut].read <=> wr.op = "read")
    BY <2>1, <2>2, Zenon
  <2> HIDE DEF F
  <2>3. Kinds(r, F)
    BY <1>1, <2>1, <2>5, FuturesMore, Zenon
  <2>4. WillGet(r, memory, F)
    BY <1>1, <2>1, <2>2, PostReads, Zenon
  <2> QED
    BY <2>3, <2>4, Zenon
<1>19. Holds(c)'
  <2>1. ASSUME NEW o \in DOMAIN objects_[c]
        PROVE  wrt[o] # Junk /\ Will(r, memory, objects_[c][o], Len(r), wrt[o])
    <3>1. CASE o = oid
      <4>1. Writes(wr, objects_[c][o]) /\ wrt[o] = wr.val
        BY <1>3, <1>7, <3>1, Zenon DEF Writes, wr
      <4> QED
        BY <1>1, <1>3, <4>1, WillMore, Zenon
    <3>2. CASE o # oid
      <4>1. ~Writes(wr, objects_[c][o]) /\ wrt[o] = written[c][o]
        BY <1>2, <1>3, <1>7, <3>2, Zenon DEF Writes, Neat
      <4>2. written[c][o] # Junk /\ Will(q, memory, objects_[c][o], Len(q), written[c][o])
        BY <1>2, <3>2, Zenon DEF Fresh, Holds, q
      <4> QED
        BY <1>1, <4>1, <4>2, WillMore, Zenon
    <3> QED
      BY <3>1, <3>2, Zenon
  <2>2. objects_' = objects_ /\ memory' = memory
    BY <1>1, Zenon
  <2> QED
    BY <2>1, <2>2, Zenon DEF Holds, r, wrt
<1>20. Fresh(c)'
  BY <1>1, <1>2, <1>4, <1>5, <1>18, <1>19, ZenonT(40) DEF Fresh, r
<1> QED
  BY <1>1, <1>5, <1>8, <1>9, <1>10, <1>11, <1>12, <1>13, <1>15, <1>16, <1>17, <1>20, ZenonT(40) DEF Kept, ClientInv

\* post_send of a read: it will get what was last written.
LEMMA PostReadStep ==
    ASSUME Dependable, TypeInv, NEW c \in Clients, NEW s \in Stages, ClientInv(c, s),
           post_send(User(c)), Wanted(c).op = "read"
    PROVE  Kept(c, s, s)
<1> DEFINE wr == Wanted(c)
           q == sq[c]
           r == sq'[c]
           F == fut[User(c)]
           G == fut'[User(c)]
           oid == Call(c).oid
           v == written[c][oid]
<1>1. /\ s = "none" /\ Call(c).pc = "queue" /\ conn[c] = "established" /\ ~Sending(c)
      /\ wr \in Posts(c)
      /\ outstanding_send_wr' \in [Clients -> Int]
      /\ outstanding_send_wr'[c] = outstanding_send_wr[c] + 1
      /\ r = Append(q, wr) /\ q \in Seq(Posts(c)) /\ DOMAIN sq' = Clients
      /\ \A d \in Clients : d # c => sq'[d] = sq[d] /\ outstanding_send_wr'[d] = outstanding_send_wr[d]
      /\ \A i \in 1 .. Len(q) : q[i].op # "send"
      /\ outstanding_send_wr'[c] = Pending(c)'
      /\ UNCHANGED <<conn, objects_, send_msg, recv_msg, recv_sem, recvs, poller, unacked,
                     cq, serverVars, memory, abandoned>>
  BY Posted, Zenon
<1> USE DEF serverVars
<1>2. /\ CallShape(c) /\ Stage(c, s) /\ Messages(c, s) /\ Room(c, s) /\ Neat(c, s) /\ Futures(c)
      /\ Fresh(c) /\ ClientType(c) /\ SharedType /\ User(c) \in Threads
  BY OneUser, Zenon DEF ClientInv, TypeInv
<1>3. /\ oid \in DOMAIN objects_[c] /\ wr.addr = objects_[c][oid]
      /\ Call(c).call = "read" /\ Call(c).fut = wr.fut /\ wr.fut # Sync
  BY <1>1, <1>2, Zenon DEF CallShape
<1>4. oid \in DOMAIN written[c] /\ v \in Vals /\ wr.fut \in 0 .. Depth
  BY <1>1, <1>2, <1>3, Zenon DEF ClientType, Posts
<1>5. /\ Return(User(c)) /\ written' = written
      /\ fut' = [fut EXCEPT ![User(c)][wr.fut].expect = v]
  BY <1>3, <1>4, OneUser, Zenon DEF post_send, Request, Wanted, Call
<1>6. wr.fut \in 1 .. Depth
  BY <1>3, <1>4, Numbers, Zenon
<1>7. /\ DOMAIN fut' = Threads /\ G \in [1 .. Depth -> FutureType]
      /\ \A d \in Clients : d # c => fut'[User(d)] = fut[User(d)]
      /\ \A g \in 1 .. Depth : g # wr.fut => G[g] = F[g]
      /\ \A g \in 1 .. Depth : G[g].busy = F[g].busy /\ G[g].done = F[g].done /\ G[g].read = F[g].read
      /\ G[wr.fut].expect = v
  <2>1. F \in [1 .. Depth -> FutureType] /\ DOMAIN fut = Threads
    BY <1>2, Zenon DEF ClientType, SharedType
  <2>2. F[wr.fut] \in FutureType
    BY <1>6, <2>1, Zenon
  <2> DEFINE x == [F[wr.fut] EXCEPT !.expect = v]
  <2>3. x \in FutureType /\ x.busy = F[wr.fut].busy /\ x.done = F[wr.fut].done /\ x.read = F[wr.fut].read /\ x.expect = v
    BY <1>4, <2>2, Zenon DEF FutureType
  <2>4. fut' = [fut EXCEPT ![User(c)] = [F EXCEPT ![wr.fut] = x]]
    BY <1>5, Zenon
  <2> HIDE DEF x, v
  <2>5. G = [F EXCEPT ![wr.fut] = x] /\ DOMAIN fut' = Threads
    BY <1>2, <2>1, <2>4, Zenon
  <2>6. \A d \in Clients : d # c => fut'[User(d)] = fut[User(d)]
    BY <2>1, <2>4, OneUser, Zenon
  <2> HIDE DEF G, F
  <2> QED
    BY <1>6, <2>1, <2>3, <2>5, <2>6, Zenon
<1>8. Call(c)' = AtRest /\ AtRest \in CallType(c) /\ Turns(c, AtRest) /\ AtRest.pc = "idle" /\ AtRest.fut = Sync
  BY <1>5, RestTo, Zenon
<1>9. Call(c)'.pc = "idle" /\ ~Sending(c)' /\ Call(c)'.fut = Sync /\ CallShape(c)'
  <2>1. ~Sending(c)'
    BY <1>8, RestSends, ZenonT(40)
  <2> QED
    BY <1>8, <2>1, Zenon DEF CallShape
<1>10. /\ r \in Seq(Posts(c)) /\ Len(q) \in Nat /\ Len(r) = Len(q) + 1 /\ r[Len(q) + 1] = wr
       /\ \A i \in 1 .. Len(q) : r[i] = q[i]
       /\ \A i \in 1 .. Len(r) : i \in 1 .. Len(q) \/ i = Len(q) + 1
  BY <1>1, Longer
<1> HIDE DEF wr, q, r, G
<1>11. SharedType'
  BY <1>1, <1>2, <1>5, <1>7, <1>8, Zenon DEF SharedType, Turns
<1>12. ClientType(c)'
  BY <1>1, <1>2, <1>5, <1>7, <1>8, <1>10, ZenonT(40) DEF ClientType, r, G
<1>13. Others(c)
  <2>1. ASSUME NEW d \in Clients, d # c
        PROVE  Same(d)
    <3>1. SameWire(d)
      BY <1>1, <2>1, Zenon DEF SameWire, InScq, OnceInScq
    <3>2. fut'[User(d)] = fut[User(d)] /\ thr'[User(d)] = thr[User(d)]
      BY <1>7, <1>8, <2>1, Zenon DEF Turns
    <3> QED
      BY <1>1, <1>5, <2>1, <3>1, <3>2, Zenon DEF Same
  <2> QED
    BY <2>1, Zenon DEF Others
<1>14. Stage(c, s)'
  <2>1. \A i \in 1 .. Len(r) : r[i].op # "send"
    BY <1>1, <1>10, Zenon DEF wr
  <2> QED
    BY <1>1, <1>2, <1>9, <2>1, Zenon DEF Stage, InScq, OnceInScq, InCq, AtPoller, r
<1>15. Messages(c, s)'
  BY <1>1, <1>2, <1>9, Zenon DEF Messages, Answered
<1>16. Room(c, s)'
  <2>1. outstanding_send_wr[c] + 1 <= MAX_SEND_WR
    BY <1>1, <1>2, Zenon DEF Room
  <2> QED
    BY <1>1, <1>9, <2>1, Zenon DEF Room
<1>17. Located(c)' = Located(c) /\ Moving(c, s)' = {} /\ Moving(c, s) = {}
  BY <1>1, <1>3, <1>9, Zenon DEF Located, Moving, Answered
<1>18. Own(c, s)' = Own(c, s)
  BY <1>17, Zenon DEF Own
<1>19. Neat(c, s)'
  <2>1. wr.addr \in Own(c, s)
    BY <1>3, Zenon DEF Own, Located
  <2>2. \A i \in 1 .. Len(r) : r[i].op # "send" => r[i].addr \in Own(c, s)
    BY <1>2, <1>10, <2>1, Zenon DEF Neat, q
  <2> QED
    BY <1>1, <1>2, <1>17, <1>18, <2>2, Zenon DEF Neat, r
<1>20. Futures(c)'
  BY <1>1, <1>2, <1>3, <1>4, <1>7, <1>9, PostFutures, ZenonT(40) DEF q, r, G
<1>21. ~Carries(q, wr.fut) /\ ~Carries(unacked[c], wr.fut) /\ ~Carries(cq[c], wr.fut) /\ F[wr.fut].read /\ ~F[wr.fut].done
  BY <1>2, <1>3, <1>6, Zenon DEF Futures, Fresh, q
<1>22. v # Junk /\ Will(q, memory, wr.addr, Len(q), v)
  BY <1>2, <1>3, Zenon DEF Fresh, Holds, q
<1> HIDE DEF v
<1>23. /\ Kinds(q, G) /\ WillGet(q, memory, G)
       /\ Kinds(unacked[c], G) /\ Got(unacked[c], G) /\ Kinds(cq[c], G) /\ Got(cq[c], G)
  <2>1. /\ Kinds(q, F) /\ WillGet(q, memory, F)
        /\ Kinds(unacked[c], F) /\ Got(unacked[c], F) /\ Kinds(cq[c], F) /\ Got(cq[c], F)
    BY <1>2, Zenon DEF Fresh, q
  <2>2. /\ \A i \in 1 .. Len(q) : q[i].fut \in 0 .. Depth
        /\ \A i \in 1 .. Len(unacked[c]) : unacked[c][i].fut \in 0 .. Depth
        /\ \A i \in 1 .. Len(cq[c]) : cq[c][i].fut \in 0 .. Depth
    BY <1>2, QueueFutures, Zenon DEF q
  <2>3. \A g \in 1 .. Depth : g # wr.fut => G[g] = F[g]
    BY <1>7, Zenon
  <2> HIDE DEF F
  <2>4. Kinds(q, G) /\ WillGet(q, memory, G)
    BY <1>21, <2>1, <2>2, <2>3, Aside, ZenonT(40)
  <2>5. Kinds(unacked[c], G) /\ Got(unacked[c], G)
    BY <1>21, <2>1, <2>2, <2>3, Aside, Zenon
  <2>6. Kinds(cq[c], G) /\ Got(cq[c], G)
    BY <1>21, <2>1, <2>2, <2>3, Aside, ZenonT(40)
  <2> QED
    BY <2>4, <2>5, <2>6, Zenon
<1>24. Kinds(r, G) /\ WillGet(r, memory, G)
  <2>1. wr.op = "read" /\ (G[wr.fut].read <=> wr.op = "read")
    BY <1>6, <1>7, <1>21, Zenon DEF wr
  <2>2. Kinds(r, G)
    BY <1>1, <1>23, <2>1, FuturesMore, Zenon
  <2>3. G[wr.fut].expect = v
    BY <1>7, Zenon
  <2>4. WillGet(r, memory, G)
    BY <1>1, <1>3, <1>22, <1>23, <2>1, <2>3, PostReads, ZenonT(40)
  <2> QED
    BY <2>2, <2>4, Zenon
<1>25. Holds(c)'
  <2>1. ASSUME NEW o \in DOMAIN objects_[c]
        PROVE  written[c][o] # Junk /\ Will(r, memory, objects_[c][o], Len(r), written[c][o])
    <3>1. written[c][o] # Junk /\ Will(q, memory, objects_[c][o], Len(q), written[c][o])
      BY <1>2, <1>3, Zenon DEF Fresh, Holds, q
    <3>2. ~Writes(wr, objects_[c][o])
      BY Zenon DEF Writes, wr
    <3> QED
      BY <1>1, <3>1, <3>2, WillMore, Zenon
  <2>2. objects_' = objects_ /\ memory' = memory /\ written' = written
    BY <1>1, <1>5, Zenon
  <2> QED
    BY <2>1, <2>2, Zenon DEF Holds, r
<1>26. \A g \in 1 .. Depth : G[g].busy /\ G[g].done /\ G[g].read => G[g].val = G[g].expect /\ G[g].val # Junk
  <2>1. \A g \in 1 .. Depth : g # wr.fut => G[g] = F[g]
    BY <1>7, Zenon
  <2>2. ~G[wr.fut].done
    BY <1>6, <1>7, <1>21, Zenon
  <2> QED
    BY <1>2, <2>1, <2>2, ZenonT(40) DEF Fresh
<1>27. Fresh(c)'
  BY <1>1, <1>9, <1>23, <1>24, <1>25, <1>26, ZenonT(40) DEF Fresh, r, G
<1> QED
  BY <1>1, <1>9, <1>11, <1>12, <1>13, <1>14, <1>15, <1>16, <1>18, <1>19, <1>20, <1>27, ZenonT(40) DEF Kept, ClientInv

-----------------------------------------------------------------------------
(* The network cards.                                                      *)

\* The server's completion queue gets a message of client c.
LEMMA ScqMore ==
    ASSUME NEW c \in Clients, scq \in Seq(Clients), scq' = Append(scq, c)
    PROVE  /\ scq' \in Seq(Clients) /\ InScq(c)' /\ (~InScq(c) => OnceInScq(c)')
           /\ \A d \in Clients : d # c => (InScq(d)' <=> InScq(d)) /\ (OnceInScq(d) => OnceInScq(d)')
<1>1. /\ scq' \in Seq(Clients) /\ Len(scq) \in Nat /\ Len(scq') = Len(scq) + 1 /\ scq'[Len(scq) + 1] = c
      /\ \A i \in 1 .. Len(scq) : scq'[i] = scq[i] /\ i \in 1 .. Len(scq')
      /\ \A i \in 1 .. Len(scq') : i \in 1 .. Len(scq) \/ i = Len(scq) + 1
      /\ Len(scq) + 1 \in 1 .. Len(scq')
  BY Longer
<1>2. InScq(c)'
  BY <1>1, Zenon DEF InScq
<1>3. ~InScq(c) => OnceInScq(c)'
  BY <1>1, Zenon DEF InScq, OnceInScq
<1>4. ASSUME NEW d \in Clients, d # c
      PROVE  (InScq(d)' <=> InScq(d)) /\ (OnceInScq(d) => OnceInScq(d)')
  <2>1. InScq(d)' <=> InScq(d)
    BY <1>1, <1>4, Zenon DEF InScq
  <2>2. OnceInScq(d) => OnceInScq(d)'
    BY <1>1, <1>4 DEF OnceInScq
  <2> QED
    BY <2>1, <2>2, Zenon
<1> QED
  BY <1>1, <1>2, <1>3, <1>4, ZenonT(40)

\* A sequence without elements.
LEMMA NoElement ==
    ASSUME NEW S, NEW w \in Seq(S), Len(w) = 0
    PROVE  w = <<>>
  OBVIOUS

\* The first request of sq is executed: its future moves to unacked.
LEMMA ExecuteFutures ==
    ASSUME NEW c \in Clients, NEW S, sq[c] \in Seq(S), sq[c] # <<>>, unacked[c] \in Seq(S), NEW w \in S,
           sq'[c] = Tail(sq[c]), unacked'[c] = Append(unacked[c], w), w.fut = sq[c][1].fut,
           cq'[c] = cq[c], fut' = fut, Call(c)' = Call(c), Futures(c), sq[c][1].fut \in 0 .. Depth
    PROVE  Futures(c)'
<1>1. /\ \A f : Carries(sq[c], f) <=> Carries(sq'[c], f) \/ w.fut = f
      /\ Once(sq[c]) => Once(sq'[c]) /\ (w.fut # Sync => ~Carries(sq'[c], w.fut))
  BY FuturesLess, ZenonT(40)
<1>2. /\ \A f : Carries(unacked'[c], f) <=> Carries(unacked[c], f) \/ w.fut = f
      /\ Once(unacked[c]) /\ (w.fut # Sync => ~Carries(unacked[c], w.fut)) => Once(unacked'[c])
  BY FuturesMore, ZenonT(40)
<1>3. \A f \in 1 .. Depth : f # Sync
  BY Numbers
<1>4. w.fut # Sync => w.fut \in 1 .. Depth
  BY Numbers, Zenon
<1>5. Once(sq'[c]) /\ Once(unacked'[c])
  BY <1>1, <1>2, <1>4, Zenon DEF Futures
<1>6. ASSUME NEW f \in 1 .. Depth
      PROVE  /\ Call(c).fut = f \/ Carries(sq'[c], f) \/ Carries(unacked'[c], f) \/ Carries(cq[c], f) =>
                    fut[User(c)][f].busy /\ ~fut[User(c)][f].done
             /\ Call(c).fut = f => ~Carries(sq'[c], f) /\ ~Carries(unacked'[c], f) /\ ~Carries(cq[c], f)
             /\ Carries(sq'[c], f) => ~Carries(unacked'[c], f) /\ ~Carries(cq[c], f)
             /\ Carries(unacked'[c], f) => ~Carries(cq[c], f)
  BY <1>1, <1>2, <1>3, <1>6, Zenon DEF Futures
<1> QED
  BY <1>5, <1>6, Zenon DEF Futures

\* The first request of unacked is acknowledged: its future moves to cq.
LEMMA AcknowledgeFutures ==
    ASSUME NEW c \in Clients, NEW S, unacked[c] \in Seq(S), unacked[c] # <<>>, NEW R, cq[c] \in Seq(R), NEW w \in R,
           unacked'[c] = Tail(unacked[c]), cq'[c] = Append(cq[c], w), w.fut = unacked[c][1].fut,
           sq'[c] = sq[c], fut' = fut, Call(c)' = Call(c), Futures(c), unacked[c][1].fut \in 0 .. Depth
    PROVE  Futures(c)'
<1>1. /\ \A f : Carries(unacked[c], f) <=> Carries(unacked'[c], f) \/ w.fut = f
      /\ Once(unacked[c]) => Once(unacked'[c]) /\ (w.fut # Sync => ~Carries(unacked'[c], w.fut))
  BY FuturesLess, ZenonT(30)
<1>2. /\ \A f : Carries(cq'[c], f) <=> Carries(cq[c], f) \/ w.fut = f
      /\ Once(cq[c]) /\ (w.fut # Sync => ~Carries(cq[c], w.fut)) => Once(cq'[c])
  BY FuturesMore, ZenonT(40)
<1>3. \A f \in 1 .. Depth : f # Sync
  BY Numbers
<1>4. w.fut # Sync => w.fut \in 1 .. Depth
  BY Numbers, Zenon
<1>5. Once(unacked'[c]) /\ Once(cq'[c])
  BY <1>1, <1>2, <1>4, Zenon DEF Futures
<1>6. ASSUME NEW f \in 1 .. Depth
      PROVE  /\ Call(c).fut = f \/ Carries(sq[c], f) \/ Carries(unacked'[c], f) \/ Carries(cq'[c], f) =>
                    fut[User(c)][f].busy /\ ~fut[User(c)][f].done
             /\ Call(c).fut = f => ~Carries(sq[c], f) /\ ~Carries(unacked'[c], f) /\ ~Carries(cq'[c], f)
             /\ Carries(sq[c], f) => ~Carries(unacked'[c], f) /\ ~Carries(cq'[c], f)
             /\ Carries(unacked'[c], f) => ~Carries(cq'[c], f)
  BY <1>1, <1>2, <1>3, <1>6, ZenonT(30) DEF Futures
<1> QED
  BY <1>5, <1>6, Zenon DEF Futures

\* The server's card receives a message.
LEMMA ExecuteSendStep ==
    ASSUME Dependable, TypeInv, NEW c \in Clients, NEW s \in Stages, ClientInv(c, s), Execute(c),
           Head(sq[c]).op = "send"
    PROVE  Kept(c, s, "scq")
<1> DEFINE q == sq[c]
           wr == Head(q)
           r == sq'[c]
           F == fut[User(c)]
<1>1. /\ q # <<>> /\ conn[c] # "exited"
      /\ sq' = [sq EXCEPT ![c] = Tail(q)]
      /\ unacked' = [unacked EXCEPT ![c] = Append(@, wr)]
      /\ srecv_msg' = [srecv_msg EXCEPT ![c] = send_msg[c]]
      /\ scq' = Append(scq, c)
      /\ UNCHANGED <<clientVars, cq, sconn, spoller, replies, allocated, memory, abandoned>>
  BY Zenon DEF Execute
<1> USE DEF clientVars
<1>2. /\ CallShape(c) /\ Stage(c, s) /\ Messages(c, s) /\ Room(c, s) /\ Neat(c, s) /\ Futures(c)
      /\ Fresh(c) /\ ClientType(c) /\ SharedType
  BY Zenon DEF ClientInv, TypeInv
<1>3. q \in Seq(Posts(c)) /\ unacked[c] \in Seq(Posts(c)) /\ DOMAIN sq = Clients /\ DOMAIN unacked = Clients
  BY <1>2, Zenon DEF ClientType, SharedType
<1>4. /\ r = Tail(q) /\ DOMAIN sq' = Clients /\ unacked'[c] = Append(unacked[c], wr) /\ DOMAIN unacked' = Clients
      /\ \A d \in Clients : d # c => sq'[d] = sq[d] /\ unacked'[d] = unacked[d]
  BY <1>1, <1>3, ZenonT(40)
<1>5. /\ r \in Seq(Posts(c)) /\ Len(r) \in Nat /\ Len(q) = Len(r) + 1 /\ wr = q[1] /\ wr \in Posts(c)
      /\ 1 \in 1 .. Len(q)
  BY <1>1, <1>3, <1>4, Shorter
<1>6. s = "sq" /\ Len(q) = 1
  <2>1. q[1].op = "send"
    BY <1>5, Zenon
  <2>2. q[1].op = "send" <=> s = "sq" /\ 1 = Len(q)
    BY <1>2, <1>5, Zenon DEF Stage
  <2> QED
    BY <2>1, <2>2, Zenon
<1> HIDE DEF r, q
<1>7. Len(r) = 0 /\ r = <<>>
  <2> DEFINE n == Len(r)
             k == Len(q)
  <2>0. n \in Nat /\ k = n + 1 /\ k = 1
    BY <1>5, <1>6, Zenon
  <2> HIDE DEF n, k
  <2>3. n = 0
    BY <2>0
  <2>1. Len(r) = 0
    BY <2>3, Zenon DEF n
  <2>2. r \in Seq(Posts(c))
    BY <1>5, ZenonT(40)
  <2> QED
    BY <2>1, <2>2, NoElement, Zenon
<1>8. /\ unacked'[c] \in Seq(Posts(c)) /\ Len(unacked[c]) \in Nat /\ Len(unacked'[c]) = Len(unacked[c]) + 1
  BY <1>3, <1>4, <1>5, Longer
<1>9. /\ scq' \in Seq(Clients) /\ InScq(c)' /\ OnceInScq(c)'
      /\ \A d \in Clients : d # c => (InScq(d)' <=> InScq(d)) /\ (OnceInScq(d) => OnceInScq(d)')
  <2>1. ~InScq(c) /\ scq \in Seq(Clients)
    BY <1>2, <1>6, Zenon DEF Stage, SharedType
  <2> QED
    BY <1>1, <2>1, ScqMore, Zenon
<1>10. srecv_msg'[c] = Asked(c) /\ send_msg[c] = Asked(c) /\ srecv_msg' \in [Clients -> Msgs]
  BY <1>1, <1>2, <1>6, Zenon DEF Messages, SharedType
<1>11. Call(c)' = Call(c) /\ Wanted(c)' = Wanted(c) /\ (Sending(c)' <=> Sending(c)) /\ Asked(c)' = Asked(c)
  BY <1>1, Zenon DEF Call, Wanted, Sending, Asked
<1>12. Sending(c) /\ Call(c).pc \in {"sent", "reply"} /\ Call(c).pc # "idle"
  BY <1>2, <1>6, Zenon DEF Stage
<1> HIDE DEF wr, q
<1>13. SharedType'
  BY <1>1, <1>2, <1>4, <1>9, <1>10, ZenonT(40) DEF SharedType
<1>14. ClientType(c)'
  BY <1>1, <1>2, <1>5, <1>8, <1>11, ZenonT(40) DEF ClientType, r
<1>15. Others(c)
  <2>1. ASSUME NEW d \in Clients, d # c
        PROVE  Same(d)
    <3>1. srecv_msg'[d] = srecv_msg[d]
      BY <1>1, <1>2, <2>1, Zenon DEF SharedType
    <3>2. SameWire(d)
      BY <1>1, <1>4, <1>9, <2>1, <3>1, ZenonT(40) DEF SameWire
    <3> QED
      BY <1>1, <3>2, Zenon DEF Same
  <2> QED
    BY <2>1, Zenon DEF Others
<1>16. CallShape(c)'
  BY <1>1, <1>2, <1>11, Zenon DEF CallShape
<1>17. Stage(c, "scq")'
  <2>1. /\ cq' = cq /\ poller' = poller /\ recv_sem' = recv_sem /\ spoller' = spoller /\ replies' = replies
        /\ sq'[c] = <<>>
    BY <1>1, <1>7, Zenon DEF r
  <2>2. /\ ~InCq(c) /\ ~AtPoller(c) /\ ~recv_sem[c] /\ spoller # <<c>> /\ Len(replies[c]) = 0
        /\ \A i, j \in 1 .. Len(cq[c]) : cq[c][i].op = "recv" /\ cq[c][j].op = "recv" => i = j
    BY <1>2, <1>6, Zenon DEF Stage
  <2>3. ~InCq(c)' /\ ~AtPoller(c)'
    BY <2>1, <2>2, Zenon DEF InCq, AtPoller
  <2>4. \A i \in 1 .. Len(sq'[c]) : FALSE
    BY <1>7 DEF r
  <2> QED
    BY <1>9, <1>11, <1>12, <2>1, <2>2, <2>3, <2>4, ZenonT(40) DEF Stage
<1>18. Messages(c, "scq")'
  BY <1>1, <1>2, <1>6, <1>10, <1>11, <1>12, ZenonT(40) DEF Messages, Answered
<1>19. Room(c, "scq")'
  <2>1. Pending(c)' = Pending(c)
    <3> DEFINE n == Len(r)
               m == Len(unacked[c])
               k == Len(cq[c])
               l == Len(poller[c])
    <3>1. cq' = cq /\ poller' = poller /\ k \in Nat /\ l \in Nat /\ m \in Nat /\ n \in Nat
      <4>1. cq[c] \in Seq(Completions(c)) /\ poller[c] \in Seq(Completions(c))
        BY <1>2, Zenon DEF ClientType
      <4>2. k \in Nat /\ l \in Nat
        BY <4>1
      <4>3. cq' = cq /\ poller' = poller
        BY <1>1, Zenon
      <4> QED
        BY <1>5, <1>8, <4>2, <4>3, Zenon
    <3>2. Pending(c) = (n + 1) + m + k + l
      BY <1>5, Zenon DEF Pending, q
    <3>3. Pending(c)' = n + (m + 1) + k + l
      BY <1>8, <3>1, Zenon DEF Pending, r
    <3> HIDE DEF n, m, k, l
    <3> QED
      BY <3>1, <3>2, <3>3
  <2> QED
    BY <1>1, <1>2, <1>6, <1>11, <2>1, ZenonT(40) DEF Room
<1>20. Located(c)' = Located(c) /\ Moving(c, "scq")' = Moving(c, s)
  BY <1>1, <1>6, <1>11, <1>12, Zenon DEF Located, Moving, Answered
<1>21. Own(c, "scq")' = Own(c, s)
  BY <1>20, Zenon DEF Own
<1>22. Neat(c, "scq")'
  <2>1. \A i \in 1 .. Len(sq'[c]) : FALSE
    BY <1>7 DEF r
  <2> QED
    BY <1>1, <1>2, <1>20, <1>21, <2>1, ZenonT(40) DEF Neat
<1>23. Futures(c)'
  <2>1. wr.fut \in 0 .. Depth /\ wr.fut = q[1].fut
    BY <1>5, Zenon DEF Posts
  <2> QED
    BY <1>1, <1>2, <1>3, <1>4, <1>5, <1>11, <2>1, ExecuteFutures, ZenonT(40) DEF q, r
<1>24. Kinds(unacked'[c], F) /\ Got(unacked'[c], F)
  <2>1. Kinds(unacked[c], F) /\ Got(unacked[c], F) /\ Kinds(q, F)
    BY <1>2, Zenon DEF Fresh, q
  <2>2. wr.fut # Sync => (F[wr.fut].read <=> wr.op = "read")
    BY <1>5, <2>1, Zenon DEF Kinds
  <2>3. wr.op # "read"
    BY Zenon DEF wr, q
  <2>4. unacked[c] \in Seq(Posts(c)) /\ wr \in Posts(c) /\ unacked'[c] = Append(unacked[c], wr)
    BY <1>3, <1>4, <1>5, Zenon
  <2> HIDE DEF F
  <2>5. Kinds(unacked'[c], F)
    BY <2>1, <2>2, <2>4, FuturesMore, Zenon
  <2>6. Got(unacked'[c], F)
    BY <2>1, <2>3, <2>4, FuturesMore, Zenon
  <2> QED
    BY <2>5, <2>6, Zenon
<1>25. Kinds(r, F) /\ WillGet(r, memory, F)
  <2>1. \A i \in 1 .. Len(r) : FALSE
    BY <1>7
  <2> QED
    BY <2>1, Zenon DEF Kinds, WillGet
<1>26. Holds(c)'
  <2>1. ASSUME NEW o \in DOMAIN objects_[c]
        PROVE  written[c][o] # Junk /\ Will(r, memory, objects_[c][o], Len(r), written[c][o])
    <3>1. written[c][o] # Junk /\ Will(q, memory, objects_[c][o], Len(q), written[c][o])
      BY <1>2, <1>12, Zenon DEF Fresh, Holds, q
    <3>2. ~Writes(q[1], objects_[c][o])
      BY <1>5, Zenon DEF Writes, wr, q
    <3>3. q \in Seq(Posts(c)) /\ q # <<>> /\ r = Tail(q) /\ Len(q) \in 1 .. Len(q) /\ Len(q) - 1 = Len(r)
      <4>1. q \in Seq(Posts(c)) /\ q # <<>> /\ r = Tail(q)
        BY <1>1, <1>3, <1>4, Zenon DEF q
      <4>2. Len(q) = 1 /\ Len(r) = 0
        BY <1>6, <1>7, Zenon
      <4>3. Len(q) \in 1 .. Len(q) /\ Len(q) - 1 = Len(r)
        BY <4>2
      <4> QED
        BY <4>1, <4>3, Zenon
    <3>4. Will(r, memory, objects_[c][o], Len(q) - 1, written[c][o])
      BY <3>1, <3>2, <3>3, WillLess, Zenon
    <3> QED
      BY <3>1, <3>3, <3>4, ZenonT(40)
  <2>2. objects_' = objects_ /\ memory' = memory /\ written' = written
    BY <1>1, Zenon
  <2> QED
    BY <2>1, <2>2, Zenon DEF Holds, r
<1>27. Fresh(c)'
  BY <1>1, <1>2, <1>11, <1>24, <1>25, <1>26, ZenonT(40) DEF Fresh, r
<1> QED
  BY <1>1, <1>13, <1>14, <1>15, <1>16, <1>17, <1>18, <1>19, <1>21, <1>22, <1>23, <1>27, SMTT(30) DEF Kept, ClientInv

\* What executing a request makes of the cells, and that the reads of a queue are of these cells.
Effect(m, k, w, A) == \A a \in A : k[a] = IF Writes(w, a) THEN w.val ELSE m[a]
Within(q, A) == \A i \in 1 .. Len(q) : q[i].op = "read" => q[i].addr \in A

\* A queue without its first request, which was executed, keeps its promises.
LEMMA ExecuteReads ==
    ASSUME NEW S, NEW q \in Seq(S), q # <<>>, NEW r, r = Tail(q), NEW m, NEW k, NEW F, WillGet(q, m, F),
           NEW A, Effect(m, k, q[1], A), Within(q, A)
    PROVE  /\ WillGet(r, k, F)
           /\ q[1].op = "read" => q[1].fut # Sync /\ F[q[1].fut].expect = m[q[1].addr] /\ m[q[1].addr] # Junk
<1>1. /\ Len(r) \in Nat /\ Len(q) = Len(r) + 1 /\ 1 \in 1 .. Len(q)
      /\ \A i \in 1 .. Len(r) : r[i] = q[i + 1] /\ i + 1 \in 1 .. Len(q)
  BY Shorter
<1>2. ASSUME NEW i \in 1 .. Len(r), r[i].op = "read"
      PROVE  /\ r[i].fut # Sync /\ F[r[i].fut].expect # Junk
             /\ Will(r, k, r[i].addr, i, F[r[i].fut].expect)
  <2> DEFINE a == r[i].addr
             v == F[r[i].fut].expect
             n == i + 1
  <2>1. n \in 1 .. Len(q) /\ q[n] = r[i] /\ n - 1 = i
    BY <1>1
  <2>2. r[i].fut # Sync /\ v # Junk /\ Will(q, m, a, n, v) /\ a \in A
    BY <1>2, <2>1, Zenon DEF WillGet, Within
  <2>3. k[a] = IF Writes(q[1], a) THEN q[1].val ELSE m[a]
    BY <2>2, Zenon DEF Effect
  <2> HIDE DEF a, v, n
  <2>4. Will(r, k, a, n - 1, v)
    BY <2>1, <2>2, <2>3, WillLess, Zenon
  <2> QED
    BY <2>1, <2>2, <2>4, Zenon DEF a, v
<1>3. ASSUME q[1].op = "read"
      PROVE  q[1].fut # Sync /\ F[q[1].fut].expect = m[q[1].addr] /\ m[q[1].addr] # Junk
  <2>1. /\ q[1].fut # Sync /\ F[q[1].fut].expect # Junk
        /\ Will(q, m, q[1].addr, 1, F[q[1].fut].expect)
    BY <1>1, <1>3, Zenon DEF WillGet
  <2>2. ~Writes(q[1], q[1].addr) /\ \A i \in 1 .. 1 : i = 1
    BY <1>3 DEF Writes
  <2>3. m[q[1].addr] = F[q[1].fut].expect
    BY <2>1, <2>2, ZenonT(40) DEF Will
  <2> QED
    BY <2>1, <2>3, Zenon
<1> QED
  BY <1>2, <1>3, Zenon DEF WillGet

\* The server's card executes a write or a read.
LEMMA ExecuteOtherStep ==
    ASSUME Dependable, TypeInv, NEW c \in Clients, NEW s \in Stages, ClientInv(c, s), Execute(c),
           Head(sq[c]).op # "send"
    PROVE  Kept(c, s, s)
<1> DEFINE q == sq[c]
           wr == Head(q)
           r == sq'[c]
           F == fut[User(c)]
           w == IF wr.op = "read" THEN [wr EXCEPT !.val = memory[wr.addr]] ELSE wr
<1>1. /\ q # <<>> /\ conn[c] # "exited"
      /\ sq' = [sq EXCEPT ![c] = Tail(q)]
      /\ unacked' = [unacked EXCEPT ![c] = Append(@, w)]
      /\ memory' = IF wr.op = "write" THEN [memory EXCEPT ![wr.addr] = wr.val] ELSE memory
      /\ UNCHANGED <<clientVars, cq, sconn, srecvs, srecv_msg, scq, spoller, replies, allocated, abandoned>>
  BY Zenon DEF Execute
<1> USE DEF clientVars
<1>2. /\ CallShape(c) /\ Stage(c, s) /\ Messages(c, s) /\ Room(c, s) /\ Neat(c, s) /\ Futures(c)
      /\ Fresh(c) /\ ClientType(c) /\ SharedType /\ Own(c, s) \subseteq Addrs
  BY OwnCells, Zenon DEF ClientInv, TypeInv
<1>3. q \in Seq(Posts(c)) /\ unacked[c] \in Seq(Posts(c)) /\ DOMAIN sq = Clients /\ DOMAIN unacked = Clients
  BY <1>2, Zenon DEF ClientType, SharedType
<1>4. /\ r = Tail(q) /\ DOMAIN sq' = Clients /\ unacked'[c] = Append(unacked[c], w) /\ DOMAIN unacked' = Clients
      /\ \A d \in Clients : d # c => sq'[d] = sq[d] /\ unacked'[d] = unacked[d]
  BY <1>1, <1>3, ZenonT(40)
<1>5. /\ r \in Seq(Posts(c)) /\ Len(r) \in Nat /\ Len(q) = Len(r) + 1 /\ wr = q[1] /\ wr \in Posts(c)
      /\ 1 \in 1 .. Len(q) /\ Len(q) \in 1 .. Len(q)
      /\ \A i \in 1 .. Len(r) : r[i] = q[i + 1] /\ i + 1 \in 1 .. Len(q)
  BY <1>1, <1>3, <1>4, Shorter
<1> HIDE DEF r, q
<1>6. wr.addr \in Own(c, s) /\ wr.addr \in Addrs /\ memory[wr.addr] \in Vals /\ wr.op \in {"read", "write"}
  <2>1. q[1].op # "send"
    BY <1>5, Zenon DEF q
  <2>2. q[1].addr \in Own(c, s)
    BY <1>2, <1>5, <2>1, Zenon DEF Neat, q
  <2>3. wr.op \in {"read", "write"}
    BY <1>5, <2>1, Zenon DEF Posts
  <2> QED
    BY <1>2, <1>5, <2>2, <2>3, Zenon DEF SharedType
<1>7. w \in Posts(c) /\ w.fut = wr.fut /\ w.op = wr.op /\ (wr.op = "read" => w.val = memory[wr.addr])
  <2>1. CASE wr.op = "read"
    BY <1>5, <1>6, <2>1, Zenon DEF Posts
  <2>2. CASE wr.op # "read"
    BY <1>5, <2>2, ZenonT(40)
  <2> QED
    BY <2>1, <2>2, Zenon
<1> HIDE DEF w
<1>8. /\ unacked'[c] \in Seq(Posts(c)) /\ Len(unacked[c]) \in Nat /\ Len(unacked'[c]) = Len(unacked[c]) + 1
  BY <1>3, <1>4, <1>7, Longer
<1>9. /\ \A a \in Addrs : memory'[a] = IF Writes(q[1], a) THEN q[1].val ELSE memory[a]
      /\ \A a \in Addrs : a \notin Own(c, s) => memory'[a] = memory[a]
      /\ memory' \in [Addrs -> Vals]
  <2>1. memory \in [Addrs -> Vals] /\ wr.val \in Vals
    BY <1>2, <1>5, Zenon DEF SharedType, Posts
  <2>2. CASE wr.op = "write"
    BY <1>1, <1>5, <1>6, <2>1, <2>2, ZenonT(40) DEF Writes
  <2>3. CASE wr.op # "write"
    BY <1>1, <1>5, <2>1, <2>3, Zenon DEF Writes
  <2> QED
    BY <2>2, <2>3, Zenon
<1>10. Call(c)' = Call(c) /\ Wanted(c)' = Wanted(c) /\ (Sending(c)' <=> Sending(c)) /\ Asked(c)' = Asked(c)
  BY <1>1, Zenon DEF Call, Wanted, Sending, Asked
<1>11. SharedType'
  BY <1>1, <1>2, <1>4, <1>9, Zenon DEF SharedType
<1>12. ClientType(c)'
  BY <1>1, <1>2, <1>5, <1>8, <1>10, ZenonT(40) DEF ClientType, r
<1>13. Others(c)
  <2>1. ASSUME NEW d \in Clients, d # c
        PROVE  Same(d)
    <3>1. SameWire(d)
      BY <1>1, <1>4, <2>1, Zenon DEF SameWire, InScq, OnceInScq
    <3> QED
      BY <1>1, <3>1, Zenon DEF Same
  <2> QED
    BY <2>1, Zenon DEF Others
<1>14. CallShape(c)'
  BY <1>1, <1>2, <1>10, Zenon DEF CallShape

<1>15. Stage(c, s)'
  <2>1. /\ cq' = cq /\ poller' = poller /\ recv_sem' = recv_sem /\ spoller' = spoller /\ replies' = replies
        /\ scq' = scq /\ r = sq'[c]
    BY <1>1, Zenon DEF r
  <2>2. /\ InCq(c)' = InCq(c) /\ AtPoller(c)' = AtPoller(c)
        /\ InScq(c)' = InScq(c) /\ OnceInScq(c)' = OnceInScq(c)
    BY <2>1, Zenon DEF InCq, AtPoller, InScq, OnceInScq
  <2>3. s \in {"none", "sq"} /\ (s = "sq" => Len(q) # 1)
    <3>1. q[1].op # "send" /\ (q[1].op = "send" <=> s = "sq" /\ 1 = Len(q))
      BY <1>2, <1>5, Zenon DEF Stage, q
    <3>2. s \notin {"none", "sq"} => q = <<>>
      BY <1>2, Zenon DEF Stage, q
    <3> QED
      BY <1>1, <3>1, <3>2, Zenon DEF q
  <2>4. \A i \in 1 .. Len(r) : r[i].op = "send" <=> s = "sq" /\ i = Len(r)
    <3> TAKE i \in 1 .. Len(r)
    <3> DEFINE n == i + 1
    <3>1. r[i] = q[n] /\ n \in 1 .. Len(q) /\ (n = Len(q) <=> i = Len(r))
      BY <1>5
    <3> HIDE DEF n
    <3>2. q[n].op = "send" <=> s = "sq" /\ n = Len(q)
      BY <1>2, <3>1, Zenon DEF Stage, q
    <3> QED
      BY <3>1, <3>2, Zenon
  <2>5. s = "sq" => r # <<>>
    <3>1. s = "sq" => Len(r) # 0
      BY <1>5, <2>3
    <3>2. Len(<<>>) = 0
      BY Zenon
    <3> QED
      BY <3>1, <3>2, Zenon
  <2> QED
    BY <1>2, <1>10, <2>1, <2>2, <2>3, <2>4, <2>5, ZenonT(40) DEF Stage
<1>16. Messages(c, s)'
  BY <1>1, <1>2, <1>10, Zenon DEF Messages, Answered, Answer
<1>17. Room(c, s)'
  <2>1. Pending(c)' = Pending(c)
    <3> DEFINE n == Len(r)
               m == Len(unacked[c])
               k == Len(cq[c])
               l == Len(poller[c])
    <3>1. cq' = cq /\ poller' = poller /\ k \in Nat /\ l \in Nat /\ m \in Nat /\ n \in Nat
      <4>1. cq[c] \in Seq(Completions(c)) /\ poller[c] \in Seq(Completions(c))
        BY <1>2, Zenon DEF ClientType
      <4>2. k \in Nat /\ l \in Nat
        BY <4>1
      <4>3. cq' = cq /\ poller' = poller
        BY <1>1, Zenon
      <4> QED
        BY <1>5, <1>8, <4>2, <4>3, Zenon
    <3>2. Pending(c) = (n + 1) + m + k + l
      BY <1>5, Zenon DEF Pending, q
    <3>3. Pending(c)' = n + (m + 1) + k + l
      BY <1>8, <3>1, Zenon DEF Pending, r
    <3> HIDE DEF n, m, k, l
    <3> QED
      BY <3>1, <3>2, <3>3
  <2> QED
    BY <1>1, <1>2, <1>10, <2>1, ZenonT(40) DEF Room
<1>18. Located(c)' = Located(c) /\ Moving(c, s)' = Moving(c, s)
  BY <1>1, <1>10, Zenon DEF Located, Moving, Answered, Answer
<1>19. Own(c, s)' = Own(c, s)
  BY <1>18, Zenon DEF Own
<1>20. Neat(c, s)'
  <2>1. \A i \in 1 .. Len(r) : r[i].op # "send" => r[i].addr \in Own(c, s)
    BY <1>2, <1>5, ZenonT(40) DEF Neat, q
  <2> QED
    BY <1>1, <1>2, <1>18, <1>19, <2>1, ZenonT(40) DEF Neat, r
<1>21. Futures(c)'
  <2>1. w.fut \in 0 .. Depth /\ w.fut = q[1].fut
    BY <1>5, <1>7, Zenon DEF Posts
  <2>2. cq'[c] = cq[c] /\ fut' = fut
    BY <1>1, Zenon
  <2> QED
    BY <1>1, <1>2, <1>3, <1>4, <1>7, <1>10, <2>1, <2>2, ExecuteFutures, Zenon DEF q, r
<1>22. /\ WillGet(r, memory', F)
       /\ wr.op = "read" => wr.fut # Sync /\ F[wr.fut].expect = w.val /\ w.val # Junk
  <2>1. WillGet(q, memory, F)
    BY <1>2, Zenon DEF Fresh, q
  <2>2. Within(q, Addrs)
    BY <1>2, Zenon DEF Neat, Within, q
  <2>3. q \in Seq(Posts(c)) /\ q # <<>> /\ r = Tail(q)
    BY <1>1, <1>3, <1>4, Zenon
  <2>4. Effect(memory, memory', q[1], Addrs)
    BY <1>9, Zenon DEF Effect
  <2> HIDE DEF F
  <2>5. /\ WillGet(r, memory', F)
        /\ q[1].op = "read" => q[1].fut # Sync /\ F[q[1].fut].expect = memory[q[1].addr] /\ memory[q[1].addr] # Junk
    BY <2>1, <2>2, <2>3, <2>4, ExecuteReads, ZenonT(40)
  <2>6. wr.op = "read" => w.val = memory[wr.addr]
    BY <1>7, Zenon
  <2>7. wr = q[1]
    BY <1>5, Zenon
  <2> HIDE DEF wr
  <2> QED
    BY <2>5, <2>6, <2>7, Zenon
<1>23. Kinds(unacked'[c], F) /\ Got(unacked'[c], F) /\ Kinds(r, F)
  <2>1. Kinds(unacked[c], F) /\ Got(unacked[c], F) /\ Kinds(q, F)
    BY <1>2, Zenon DEF Fresh, q
  <2>2. w.fut # Sync => (F[w.fut].read <=> w.op = "read")
    BY <1>5, <1>7, <2>1, Zenon DEF Kinds
  <2>3. unacked[c] \in Seq(Posts(c)) /\ w \in Posts(c) /\ unacked'[c] = Append(unacked[c], w)
    BY <1>3, <1>4, <1>7, Zenon
  <2>4. w.op = "read" => w.fut # Sync /\ F[w.fut].expect = w.val /\ w.val # Junk
    BY <1>7, <1>22, ZenonT(40)
  <2>5. q \in Seq(Posts(c)) /\ q # <<>> /\ r = Tail(q)
    BY <1>1, <1>3, <1>4, Zenon
  <2> HIDE DEF F
  <2>6. Kinds(unacked'[c], F)
    BY <2>1, <2>2, <2>3, FuturesMore, ZenonT(40)
  <2>7. Got(unacked'[c], F)
    BY <2>1, <2>3, <2>4, FuturesMore, Zenon
  <2>8. Kinds(r, F)
    BY <2>1, <2>5, FuturesLess, Zenon
  <2> QED
    BY <2>6, <2>7, <2>8, Zenon
<1>24. Holds(c)'
  <2>1. ASSUME NEW o \in DOMAIN objects_[c], written[c][o] # Junk
        PROVE  Will(r, memory', objects_[c][o], Len(r), written[c][o])
    <3>1. Will(q, memory, objects_[c][o], Len(q), written[c][o])
      BY <1>2, <2>1, Zenon DEF Fresh, Holds, q
    <3>2. objects_[c][o] \in Addrs
      BY <1>2, Zenon DEF ClientType
    <3>3. q \in Seq(Posts(c)) /\ q # <<>> /\ r = Tail(q) /\ Len(q) \in 1 .. Len(q) /\ Len(q) - 1 = Len(r)
      <4> DEFINE n == Len(q)
                 m == Len(r)
      <4>1. n = m + 1 /\ m \in Nat
        BY <1>5, Zenon
      <4> HIDE DEF n, m
      <4>2. n - 1 = m
        BY <4>1
      <4>3. Len(q) - 1 = Len(r)
        BY <4>2, Zenon DEF n, m
      <4> QED
        BY <1>1, <1>3, <1>4, <1>5, <4>3, ZenonT(40) DEF q
    <3>5. memory'[objects_[c][o]] = IF Writes(q[1], objects_[c][o]) THEN q[1].val ELSE memory[objects_[c][o]]
      BY <1>9, <3>2, Zenon
    <3>4. Will(r, memory', objects_[c][o], Len(q) - 1, written[c][o])
      BY <3>1, <3>3, <3>5, WillLess, ZenonT(40)
    <3> QED
      BY <3>3, <3>4, Zenon
  <2>2. objects_' = objects_ /\ written' = written /\ Call(c)' = Call(c)
    BY <1>1, <1>10, Zenon
  <2>3. \A o \in DOMAIN objects_[c] :
          written[c][o] = Junk => Call(c).pc \in {"check", "queue"} /\ Call(c).call = "write" /\ Call(c).oid = o
    BY <1>2, Zenon DEF Fresh, Holds
  <2> QED
    BY <2>1, <2>2, <2>3, Zenon DEF Holds, r
<1>25. Fresh(c)'
  BY <1>1, <1>2, <1>10, <1>22, <1>23, <1>24, ZenonT(40) DEF Fresh, r
<1> QED
  BY <1>1, <1>9, <1>11, <1>12, <1>13, <1>14, <1>15, <1>16, <1>17, <1>19, <1>20, <1>21, <1>25, SMTT(30) DEF Kept, ClientInv

\* A completion queue that holds an answer, and holds no more than one.
HasRecv(q) == \E i \in 1 .. Len(q) : q[i].op = "recv"
OneRecv(q) == \A i, j \in 1 .. Len(q) : q[i].op = "recv" /\ q[j].op = "recv" => i = j

\* A completion is added.
LEMMA RecvMore ==
    ASSUME NEW S, NEW q \in Seq(S), NEW w \in S, NEW r, r = Append(q, w), OneRecv(q)
    PROVE  /\ HasRecv(r) <=> HasRecv(q) \/ w.op = "recv"
           /\ ~(HasRecv(q) /\ w.op = "recv") => OneRecv(r)
<1>1. /\ Len(q) \in Nat /\ Len(r) = Len(q) + 1 /\ r[Len(q) + 1] = w /\ Len(q) + 1 \in 1 .. Len(r)
      /\ \A i \in 1 .. Len(q) : r[i] = q[i] /\ i \in 1 .. Len(r)
      /\ \A i \in 1 .. Len(r) : i \in 1 .. Len(q) \/ i = Len(q) + 1
  <2>1. /\ Len(q) \in Nat /\ Len(r) = Len(q) + 1 /\ r[Len(q) + 1] = w
        /\ \A i \in 1 .. Len(q) : r[i] = q[i] /\ i \in 1 .. Len(r)
        /\ \A i \in 1 .. Len(r) : i \in 1 .. Len(q) \/ i = Len(q) + 1
    BY Longer
  <2>2. Len(q) + 1 \in 1 .. Len(r)
    <3> DEFINE n == Len(q)
               m == Len(r)
    <3>1. n \in Nat /\ m = n + 1
      BY <2>1, Zenon
    <3> HIDE DEF n, m
    <3>2. n + 1 \in 1 .. m
      BY <3>1
    <3> QED
      BY <3>2, Zenon DEF n, m
  <2> QED
    BY <2>1, <2>2, Zenon
<1>2. HasRecv(r) <=> HasRecv(q) \/ w.op = "recv"
  BY <1>1, Zenon DEF HasRecv
<1>3. ~(HasRecv(q) /\ w.op = "recv") => OneRecv(r)
  BY <1>1 DEF HasRecv, OneRecv
<1> QED
  BY <1>2, <1>3, Zenon

\* A completion is taken.
LEMMA RecvLess ==
    ASSUME NEW S, NEW q \in Seq(S), q # <<>>, NEW r, r = Tail(q), OneRecv(q)
    PROVE  /\ HasRecv(q) <=> HasRecv(r) \/ q[1].op = "recv"
           /\ ~(HasRecv(r) /\ q[1].op = "recv") /\ OneRecv(r)
<1>1. /\ Len(r) \in Nat /\ Len(q) = Len(r) + 1 /\ 1 \in 1 .. Len(q)
      /\ \A i \in 1 .. Len(r) : r[i] = q[i + 1] /\ i + 1 \in 1 .. Len(q)
      /\ \A i \in 1 .. Len(q) : i = 1 \/ i - 1 \in 1 .. Len(r)
  BY Shorter
<1>2. \A i \in 1 .. Len(q) : i = 1 \/ (i - 1 \in 1 .. Len(r) /\ q[i] = r[i - 1])
  <2> TAKE i \in 1 .. Len(q)
  <2>1. i - 1 \in 1 .. Len(r) => (i - 1) + 1 = i
    BY <1>1
  <2> QED
    BY <1>1, <2>1, Zenon
<1>3. HasRecv(q) <=> HasRecv(r) \/ q[1].op = "recv"
  BY <1>1, <1>2 DEF HasRecv
<1>4. ASSUME NEW i \in 1 .. Len(r), r[i].op = "recv"
      PROVE  q[1].op # "recv"
  <2>1. i + 1 # 1 /\ q[i + 1].op = "recv" /\ i + 1 \in 1 .. Len(q)
    BY <1>1, <1>4
  <2> QED
    BY <1>1, <2>1, Zenon DEF OneRecv
<1>5. ASSUME NEW i \in 1 .. Len(r), NEW j \in 1 .. Len(r), r[i].op = "recv", r[j].op = "recv"
      PROVE  i = j
  <2>1. i + 1 = j + 1
    BY <1>1, <1>5, SMTT(40) DEF OneRecv
  <2> QED
    BY <1>1, <2>1
<1> QED
  BY <1>3, <1>4, <1>5, Zenon DEF HasRecv, OneRecv

\* An acknowledgement reaches the client's card.
LEMMA AcknowledgeStep ==
    ASSUME Dependable, TypeInv, NEW c \in Clients, NEW s \in Stages, ClientInv(c, s), Acknowledge(c)
    PROVE  Kept(c, s, s)
<1> DEFINE q == unacked[c]
           r == unacked'[c]
           p == cq[c]
           u == cq'[c]
           w == q[1]
           F == fut[User(c)]
<1>1. /\ q # <<>> /\ cq' = [cq EXCEPT ![c] = Append(@, Head(q))]
      /\ unacked' = [unacked EXCEPT ![c] = Tail(@)]
      /\ UNCHANGED <<clientVars, sq, serverVars, memory, abandoned>>
  BY Zenon DEF Acknowledge
<1> USE DEF clientVars, serverVars
<1>2. /\ CallShape(c) /\ Stage(c, s) /\ Messages(c, s) /\ Room(c, s) /\ Neat(c, s) /\ Futures(c)
      /\ Fresh(c) /\ ClientType(c) /\ SharedType
  BY Zenon DEF ClientInv, TypeInv
<1>3. q \in Seq(Posts(c)) /\ p \in Seq(Completions(c)) /\ DOMAIN cq = Clients /\ DOMAIN unacked = Clients
  BY <1>2, Zenon DEF ClientType, SharedType
<1>4. /\ r = Tail(q) /\ DOMAIN unacked' = Clients /\ u = Append(p, Head(q)) /\ DOMAIN cq' = Clients
      /\ \A d \in Clients : d # c => cq'[d] = cq[d] /\ unacked'[d] = unacked[d]
  BY <1>1, <1>3, ZenonT(40)
<1>5. /\ r \in Seq(Posts(c)) /\ Len(r) \in Nat /\ Len(q) = Len(r) + 1 /\ Head(q) = w /\ w \in Posts(c)
      /\ 1 \in 1 .. Len(q)
  BY <1>1, <1>3, <1>4, Shorter
<1>6. w \in Completions(c) /\ w.op # "recv" /\ w.fut \in 0 .. Depth /\ u = Append(p, w)
  BY <1>4, <1>5, ZenonT(40) DEF Posts, Completions
<1> HIDE DEF q, r, p, u, w
<1>7. u \in Seq(Completions(c)) /\ Len(p) \in Nat /\ Len(u) = Len(p) + 1
  BY <1>3, <1>6, Longer
<1>8. Call(c)' = Call(c) /\ Wanted(c)' = Wanted(c) /\ (Sending(c)' <=> Sending(c)) /\ Asked(c)' = Asked(c)
  BY <1>1, Zenon DEF Call, Wanted, Sending, Asked
<1>9. SharedType'
  BY <1>1, <1>2, <1>4, Zenon DEF SharedType
<1>10. ClientType(c)'
  BY <1>1, <1>2, <1>5, <1>7, <1>8, ZenonT(40) DEF ClientType, r, u
<1>11. Others(c)
  <2>1. ASSUME NEW d \in Clients, d # c
        PROVE  Same(d)
    <3>1. SameWire(d)
      BY <1>1, <1>4, <2>1, Zenon DEF SameWire, InScq, OnceInScq
    <3> QED
      BY <1>1, <3>1, Zenon DEF Same
  <2> QED
    BY <2>1, Zenon DEF Others
<1>12. CallShape(c)'
  BY <1>1, <1>2, <1>8, Zenon DEF CallShape

<1>13. Stage(c, s)'
  <2>1. sq' = sq /\ poller' = poller /\ recv_sem' = recv_sem /\ spoller' = spoller /\ replies' = replies /\ scq' = scq
    BY <1>1, Zenon
  <2>2. AtPoller(c)' = AtPoller(c) /\ InScq(c)' = InScq(c) /\ OnceInScq(c)' = OnceInScq(c)
    BY <2>1, Zenon DEF AtPoller, InScq, OnceInScq
  <2>3. OneRecv(p) /\ (HasRecv(p) <=> InCq(c))
    BY <1>2, Zenon DEF Stage, OneRecv, HasRecv, InCq, p
  <2>4. (HasRecv(u) <=> HasRecv(p)) /\ OneRecv(u)
    BY <1>3, <1>6, <2>3, RecvMore, ZenonT(40)
  <2>5. /\ InCq(c)' = InCq(c)
        /\ \A i, j \in 1 .. Len(cq'[c]) : cq'[c][i].op = "recv" /\ cq'[c][j].op = "recv" => i = j
    BY <2>3, <2>4, Zenon DEF OneRecv, HasRecv, InCq, u
  <2> QED
    BY <1>2, <1>8, <2>1, <2>2, <2>5, ZenonT(40) DEF Stage
<1>14. Messages(c, s)'
  BY <1>1, <1>2, <1>8, Zenon DEF Messages, Answered, Answer
<1>15. Room(c, s)'
  <2>1. Pending(c)' = Pending(c)
    <3> DEFINE n == Len(r)
               m == Len(sq[c])
               k == Len(p)
               l == Len(poller[c])
    <3>1. sq' = sq /\ poller' = poller /\ k \in Nat /\ l \in Nat /\ m \in Nat /\ n \in Nat
      <4>1. sq' = sq /\ poller' = poller /\ k \in Nat /\ n \in Nat
        BY <1>1, <1>5, <1>7, Zenon
      <4>2. sq[c] \in Seq(Posts(c)) /\ poller[c] \in Seq(Completions(c))
        BY <1>2, ZenonT(40) DEF ClientType
      <4>3. m \in Nat
        BY <4>2
      <4>4. l \in Nat
        BY <4>2
      <4> QED
        BY <4>1, <4>3, <4>4, Zenon
    <3>2. Pending(c) = m + (n + 1) + k + l
      BY <1>5, Zenon DEF Pending, q, p
    <3>3. Pending(c)' = m + n + (k + 1) + l
      BY <1>7, <3>1, Zenon DEF Pending, r, u
    <3> HIDE DEF n, m, k, l
    <3> QED
      BY <3>1, <3>2, <3>3
  <2> QED
    BY <1>1, <1>2, <1>8, <2>1, ZenonT(40) DEF Room
<1>16. Located(c)' = Located(c) /\ Moving(c, s)' = Moving(c, s)
  BY <1>1, <1>8, Zenon DEF Located, Moving, Answered, Answer
<1>17. Own(c, s)' = Own(c, s)
  BY <1>16, Zenon DEF Own
<1>18. Neat(c, s)'
  BY <1>1, <1>2, <1>16, <1>17, ZenonT(30) DEF Neat
<1>19. Futures(c)'
  <2>1. sq'[c] = sq[c] /\ fut' = fut
    BY <1>1, Zenon
  <2> QED
    BY <1>1, <1>2, <1>3, <1>4, <1>6, <1>8, <2>1, AcknowledgeFutures, SMTT(30) DEF q, r, p, u, w
<1>20. Kinds(u, F) /\ Got(u, F) /\ Kinds(r, F) /\ Got(r, F)
  <2>1. Kinds(q, F) /\ Got(q, F) /\ Kinds(p, F) /\ Got(p, F)
    BY <1>2, Zenon DEF Fresh, q, p
  <2>2. q \in Seq(Posts(c)) /\ q # <<>> /\ r = Tail(q)
    BY <1>1, <1>3, <1>4, Zenon
  <2>3. p \in Seq(Completions(c)) /\ w \in Completions(c) /\ u = Append(p, w)
    BY <1>3, <1>6, Zenon
  <2> HIDE DEF F
  <2>4. /\ Kinds(r, F) /\ (w.fut # Sync => (F[w.fut].read <=> w.op = "read"))
        /\ Got(r, F)
        /\ w.op = "read" => w.fut # Sync /\ F[w.fut].expect = w.val /\ w.val # Junk
    BY <2>1, <2>2, FuturesLess, Zenon DEF w
  <2>5. Kinds(u, F)
    BY <2>1, <2>3, <2>4, FuturesMore, ZenonT(40)
  <2>6. Got(u, F)
    BY <2>1, <2>3, <2>4, FuturesMore, ZenonT(40)
  <2> QED
    BY <2>4, <2>5, <2>6, Zenon
<1>21. Holds(c)'
  BY <1>1, <1>2, <1>8, Zenon DEF Fresh, Holds
<1>22. Fresh(c)'
  BY <1>1, <1>2, <1>8, <1>20, <1>21, ZenonT(40) DEF Fresh, r, u
<1> QED
  BY <1>1, <1>9, <1>10, <1>11, <1>12, <1>13, <1>14, <1>15, <1>17, <1>18, <1>19, <1>22, SMTT(30) DEF Kept, ClientInv

\* The answer reaches the client's one receive buffer.
LEMMA DeliverReplyStep ==
    ASSUME Dependable, TypeInv, NEW c \in Clients, NEW s \in Stages, ClientInv(c, s), DeliverReply(c)
    PROVE  Kept(c, s, "cq")
<1> DEFINE p == cq[c]
           u == cq'[c]
           w == RecvWC(c)
           F == fut[User(c)]
<1>1. /\ replies[c] # <<>>
      /\ recvs' = [recvs EXCEPT ![c] = @ - 1]
      /\ recv_msg' = [recv_msg EXCEPT ![c] = Head(replies[c])]
      /\ replies' = [replies EXCEPT ![c] = Tail(@)]
      /\ cq' = [cq EXCEPT ![c] = Append(@, w)]
      /\ UNCHANGED <<conn, objects_, send_msg, recv_sem, outstanding_send_wr, poller, thr,
                     fut, written, sq, unacked, sconn, srecvs, srecv_msg, scq, spoller,
                     allocated, memory, abandoned>>
  BY Zenon DEF DeliverReply
<1>2. /\ CallShape(c) /\ Stage(c, s) /\ Messages(c, s) /\ Room(c, s) /\ Neat(c, s) /\ Futures(c)
      /\ Fresh(c) /\ ClientType(c) /\ SharedType
  BY Zenon DEF ClientInv, TypeInv
<1>3. /\ p \in Seq(Completions(c)) /\ DOMAIN cq = Clients /\ replies \in [Clients -> Seq(Msgs)]
      /\ recvs \in [Clients -> Nat] /\ recv_msg \in [Clients -> Msgs]
  BY <1>2, Zenon DEF ClientType, SharedType
<1>4. s = "replies" /\ Len(replies[c]) = 1 /\ Sending(c) /\ Call(c).pc \in {"sent", "reply"} /\ recvs[c] = 1
  <2>1. Len(replies[c]) # 0
    BY <1>1, <1>3, NoElement, Zenon
  <2>2. s = "replies" /\ Len(replies[c]) = 1
    BY <1>2, <2>1, Zenon DEF Stage
  <2>3. Sending(c) /\ Call(c).pc \in {"sent", "reply"}
    BY <1>2, <2>2, Zenon DEF Stage
  <2>4. recvs[c] = 1
    BY <1>2, <2>2, Zenon DEF Messages
  <2> QED
    BY <2>2, <2>3, <2>4, Zenon
<1>5. replies[c][1] \in Msgs /\ Head(replies[c]) = replies[c][1] /\ Tail(replies[c]) = <<>> /\ <<>> \in Seq(Msgs)
  <2> DEFINE q == replies[c]
             r == Tail(q)
  <2>1. q \in Seq(Msgs) /\ Len(q) = 1 /\ q # <<>>
    BY <1>1, <1>3, <1>4, Zenon
  <2>2. r \in Seq(Msgs) /\ Len(r) \in Nat /\ Len(q) = Len(r) + 1 /\ Head(q) = q[1] /\ q[1] \in Msgs
    BY <2>1, Shorter, Zenon
  <2> DEFINE n == Len(r)
  <2>3. n \in Nat /\ 1 = n + 1
    BY <2>1, <2>2, Zenon
  <2> HIDE DEF n
  <2>4. n = 0
    BY <2>3
  <2> HIDE DEF r
  <2>5. r = <<>>
    BY <2>2, <2>4, NoElement, ZenonT(40) DEF n
  <2> QED
    BY <2>2, <2>5, Zenon DEF r
<1>6. /\ replies' \in [Clients -> Seq(Msgs)] /\ replies'[c] = <<>> /\ recvs' \in [Clients -> Nat] /\ recvs'[c] = 0
      /\ recv_msg' \in [Clients -> Msgs] /\ recv_msg'[c] = replies[c][1]
      /\ DOMAIN cq' = Clients /\ u = Append(p, w)
      /\ \A d \in Clients : d # c =>
           cq'[d] = cq[d] /\ replies'[d] = replies[d] /\ recvs'[d] = recvs[d] /\ recv_msg'[d] = recv_msg[d]
  <2>1. recvs' = [recvs EXCEPT ![c] = 0]
    BY <1>1, <1>3, <1>4
  <2>2. replies' = [replies EXCEPT ![c] = <<>>] /\ recv_msg' = [recv_msg EXCEPT ![c] = replies[c][1]]
    BY <1>1, <1>5, Zenon
  <2> QED
    BY <1>1, <1>3, <1>5, <2>1, <2>2, SMTT(40)
<1>7. w \in Completions(c) /\ w.op = "recv" /\ w.fut = Sync
  BY Numbers, ZenonT(30) DEF RecvWC, Completions, User, Cells
<1> HIDE DEF p, u, w
<1>8. u \in Seq(Completions(c)) /\ Len(p) \in Nat /\ Len(u) = Len(p) + 1
  <2>1. u = Append(p, w)
    BY <1>6, Zenon
  <2>2. p \in Seq(Completions(c)) /\ w \in Completions(c)
    BY <1>3, <1>7, Zenon
  <2> QED
    BY <2>1, <2>2, Longer, SMTT(30)
<1>9. Call(c)' = Call(c) /\ Wanted(c)' = Wanted(c) /\ (Sending(c)' <=> Sending(c)) /\ Asked(c)' = Asked(c)
  BY <1>1, Zenon DEF Call, Wanted, Sending, Asked
<1>10. SharedType'
  BY <1>1, <1>2, <1>6, Zenon DEF SharedType
<1>11. ClientType(c)'
  BY <1>1, <1>2, <1>8, <1>9, Zenon DEF ClientType, u
<1>12. Others(c)
  <2>1. ASSUME NEW d \in Clients, d # c
        PROVE  Same(d)
    <3>1. SameWire(d)
      BY <1>1, <1>6, <2>1, ZenonT(40) DEF SameWire, InScq, OnceInScq
    <3> QED
      BY <1>1, <1>6, <2>1, <3>1, Zenon DEF Same
  <2> QED
    BY <2>1, Zenon DEF Others
<1>13. CallShape(c)'
  BY <1>1, <1>2, <1>9, Zenon DEF CallShape
<1>14. Stage(c, "cq")'
  <2>1. sq' = sq /\ poller' = poller /\ recv_sem' = recv_sem /\ spoller' = spoller /\ scq' = scq
    BY <1>1, Zenon
  <2>2. AtPoller(c)' = AtPoller(c) /\ InScq(c)' = InScq(c) /\ OnceInScq(c)' = OnceInScq(c)
    BY <2>1, Zenon DEF AtPoller, InScq, OnceInScq
  <2>3. OneRecv(p) /\ ~HasRecv(p)
    BY <1>2, <1>4, Zenon DEF Stage, OneRecv, HasRecv, InCq, p
  <2>4. HasRecv(u) /\ OneRecv(u)
    BY <1>3, <1>6, <1>7, <2>3, RecvMore, ZenonT(40)
  <2>5. /\ InCq(c)'
        /\ \A i, j \in 1 .. Len(cq'[c]) : cq'[c][i].op = "recv" /\ cq'[c][j].op = "recv" => i = j
    BY <2>4, Zenon DEF OneRecv, HasRecv, InCq, u
  <2>6. Len(replies'[c]) = 0
    BY <1>6, Zenon
  <2>7. /\ ~AtPoller(c) /\ ~InScq(c) /\ OnceInScq(c) /\ spoller # <<c>> /\ ~recv_sem[c] /\ sq[c] = <<>>
        /\ \A i \in 1 .. Len(sq[c]) : sq[c][i].op # "send"
    BY <1>2, <1>4, Zenon DEF Stage
  <2> QED
    BY <1>4, <1>9, <2>1, <2>2, <2>5, <2>6, <2>7, ZenonT(40) DEF Stage
<1>15. Messages(c, "cq")'
  BY <1>1, <1>2, <1>4, <1>6, <1>9, ZenonT(40) DEF Messages, Answered, Answer
<1>16. Room(c, "cq")'
  <2>1. Pending(c)' = Pending(c) + 1
    <3> DEFINE n == Len(unacked[c])
               m == Len(sq[c])
               k == Len(p)
               l == Len(poller[c])
    <3>1. sq' = sq /\ unacked' = unacked /\ poller' = poller /\ k \in Nat /\ l \in Nat /\ m \in Nat /\ n \in Nat
      <4>1. sq[c] \in Seq(Posts(c)) /\ unacked[c] \in Seq(Posts(c)) /\ poller[c] \in Seq(Completions(c))
        BY <1>2, ZenonT(40) DEF ClientType
      <4>2. n \in Nat /\ m \in Nat /\ l \in Nat
        BY <4>1
      <4>3. sq' = sq /\ unacked' = unacked /\ poller' = poller
        BY <1>1, Zenon
      <4> QED
        BY <1>8, <4>2, <4>3, Zenon
    <3>2. Pending(c) = m + n + k + l
      BY Zenon DEF Pending, p
    <3>3. Pending(c)' = m + n + (k + 1) + l
      BY <1>8, <3>1, Zenon DEF Pending, u
    <3> HIDE DEF n, m, k, l
    <3> QED
      BY <3>1, <3>2, <3>3
  <2>2. Pending(c)' = outstanding_send_wr[c] + 1
    BY <1>2, <1>4, <2>1, Zenon DEF Room
  <2> QED
    BY <1>1, <1>2, <1>4, <1>9, <2>2, ZenonT(40) DEF Room
<1>17. Located(c)' = Located(c) /\ Moving(c, "cq")' = Moving(c, s)
  <2>1. objects_' = objects_ /\ thr' = thr /\ Call(c)' = Call(c)
    BY <1>1, <1>9, Zenon DEF Call
  <2>2. Located(c)' = Located(c)
    BY <2>1, Zenon DEF Located
  <2>3. Answered(c, s) /\ Answered(c, "cq")'
    BY <1>4, Zenon DEF Answered
  <2>4. Answer(c, "cq")' = Answer(c, s)
    BY <1>4, <1>6, <1>9, Zenon DEF Answer
  <2> QED
    BY <2>1, <2>2, <2>3, <2>4, Zenon DEF Moving
<1>18. Own(c, "cq")' = Own(c, s)
  BY <1>17, Zenon DEF Own
<1>19. Neat(c, "cq")'
  BY <1>1, <1>2, <1>17, <1>18, Zenon DEF Neat
<1>20. (\A f \in 1 .. Depth : Carries(u, f) <=> Carries(p, f)) /\ (Once(p) => Once(u))
  <2>1. \A f \in 1 .. Depth : f # Sync
    BY Numbers
  <2>4. p \in Seq(Completions(c)) /\ w \in Completions(c) /\ u = Append(p, w)
    BY <1>3, <1>6, <1>7, Zenon
  <2> HIDE DEF F
  <2>2. /\ \A f : Carries(u, f) <=> Carries(p, f) \/ w.fut = f
        /\ Once(p) /\ (w.fut # Sync => ~Carries(p, w.fut)) => Once(u)
        /\ Kinds(p, F) /\ (w.fut # Sync => (F[w.fut].read <=> w.op = "read")) => Kinds(u, F)
    BY <2>4, FuturesMore, Zenon
  <2>3. Once(p) /\ (w.fut # Sync => ~Carries(p, w.fut)) => Once(u)
    BY <2>2, Zenon
  <2> QED
    BY <1>7, <2>1, <2>2, <2>3, ZenonT(40)
<1>21. Futures(c)'
  BY <1>1, <1>2, <1>9, <1>20, ZenonT(40) DEF Futures, p, u
<1>22. Kinds(u, F) /\ Got(u, F)
  <2>1. Kinds(p, F) /\ Got(p, F)
    BY <1>2, Zenon DEF Fresh, p
  <2> HIDE DEF F
  <2> QED
    BY <1>3, <1>6, <1>7, <2>1, FuturesMore, ZenonT(40)
<1>23. Holds(c)'
  BY <1>1, <1>2, <1>9, Zenon DEF Fresh, Holds
<1>24. Fresh(c)'
  BY <1>1, <1>2, <1>9, <1>22, <1>23, Zenon DEF Fresh, u
<1> QED
  BY <1>1, <1>10, <1>11, <1>12, <1>13, <1>14, <1>15, <1>16, <1>18, <1>19, <1>21, <1>24, SMTT(30) DEF Kept, ClientInv
=============================================================================
