--------------------------- MODULE RDMAStoreProofs ---------------------------
(***************************************************************************)
(* The RDMA transport, for any number of clients, objects, cells and       *)
(* asynchronous requests and any size of the send queue, as long as the    *)
(* clients are Dependable: no two objects share memory, none is lost, a    *)
(* read returns the last write posted before it, and the count of the send *)
(* requests is exact.  RDMACallProofs defines the invariant.               *)
(***************************************************************************)
EXTENDS RDMACallProofs, FiniteSetTheorems

-----------------------------------------------------------------------------
(* The client's poller.                                                    *)

\* A future that keeps its kind and the value it expects.
LEMMA SameExpectation ==
    ASSUME NEW q, NEW F, NEW G, \A i \in 1 .. Len(q) : q[i].fut \in 0 .. Depth,
           \A g \in 1 .. Depth : G[g].read = F[g].read /\ G[g].expect = F[g].expect
    PROVE  /\ Kinds(q, F) => Kinds(q, G)
           /\ Got(q, F) => Got(q, G)
           /\ \A m : WillGet(q, m, F) => WillGet(q, m, G)
<1>1. ASSUME NEW i \in 1 .. Len(q), q[i].fut # Sync
      PROVE  G[q[i].fut].read = F[q[i].fut].read /\ G[q[i].fut].expect = F[q[i].fut].expect
  BY <1>1, Numbers, Zenon
<1>2. Kinds(q, F) => Kinds(q, G)
  BY <1>1, Zenon DEF Kinds
<1>3. Got(q, F) => Got(q, G)
  BY <1>1, Zenon DEF Got
<1>4. ASSUME NEW m, WillGet(q, m, F)
      PROVE  WillGet(q, m, G)
  BY <1>1, <1>4, Zenon DEF WillGet
<1> QED
  BY <1>2, <1>3, <1>4, Zenon

\* The first completion makes the result of its request available.
Completes(wc, F, G) ==
    IF wc.fut = Sync THEN G = F
    ELSE G = [F EXCEPT ![wc.fut] = [F[wc.fut] EXCEPT !.done = TRUE, !.val = wc.val]]

\* ... and leaves the other futures, and what it expects, alone.
Completed(wc, F, G) ==
    /\ G \in [1 .. Depth -> FutureType]
    /\ \A g \in 1 .. Depth :
         /\ G[g].busy = F[g].busy /\ G[g].read = F[g].read /\ G[g].expect = F[g].expect
         /\ g # wc.fut => G[g] = F[g]
         /\ g = wc.fut => G[g].val = wc.val

\* A completion does just that to the futures.
LEMMA CompletedFutures ==
    ASSUME NEW d, NEW wc \in Completions(d), NEW F \in [1 .. Depth -> FutureType], NEW G, Completes(wc, F, G)
    PROVE  Completed(wc, F, G)
<1> USE DEF Completed
<1>0. wc.fut \in 0 .. Depth /\ wc.val \in Vals
  BY Zenon DEF Completions
<1>1. CASE wc.fut = Sync
  <2>1. \A g \in 1 .. Depth : g # Sync
    BY Numbers
  <2> QED
    BY <1>1, <2>1, Zenon DEF Completes
<1>2. CASE wc.fut # Sync
  <2>1. wc.fut \in 1 .. Depth
    BY <1>0, <1>2, Numbers, Zenon
  <2> DEFINE x == [F[wc.fut] EXCEPT !.done = TRUE, !.val = wc.val]
  <2>2. F[wc.fut] \in FutureType
    BY <2>1, Zenon
  <2>3. /\ x \in FutureType /\ x.busy = F[wc.fut].busy /\ x.read = F[wc.fut].read
        /\ x.expect = F[wc.fut].expect /\ x.val = wc.val
    BY <1>0, <2>2, Zenon DEF FutureType
  <2>4. G = [F EXCEPT ![wc.fut] = x]
    BY <1>2, Zenon DEF Completes
  <2> HIDE DEF x
  <2> QED
    BY <2>1, <2>3, <2>4, Zenon
<1> QED
  BY <1>1, <1>2, Zenon

\* poll_cq.
LEMMA PollStep ==
    ASSUME Dependable, TypeInv, NEW c \in Clients, NEW s \in Stages, ClientInv(c, s), poll_cq(c)
    PROVE  \E z \in Stages : Kept(c, s, z)
<1> DEFINE q == cq[c]
           r == cq'[c]
           w == q[1]
           F == fut[User(c)]
           G == fut'[User(c)]
<1>1. /\ q # <<>> /\ poller[c] = <<>> /\ conn[c] = "established"
      /\ cq' = [cq EXCEPT ![c] = Tail(@)]
      /\ poller' = [poller EXCEPT ![c] = <<Head(q)>>]
      /\ fut' = IF Head(q).fut = Sync THEN fut
                ELSE [fut EXCEPT ![Head(q).by][Head(q).fut].done = TRUE,
                                 ![Head(q).by][Head(q).fut].val = Head(q).val]
      /\ UNCHANGED <<conn, objects_, send_msg, recv_msg, recv_sem, recvs, outstanding_send_wr, thr,
                     written, sq, unacked, serverVars, memory, abandoned>>
  BY Zenon DEF poll_cq
<1> USE DEF serverVars
<1>2. /\ CallShape(c) /\ Stage(c, s) /\ Messages(c, s) /\ Room(c, s) /\ Neat(c, s) /\ Futures(c)
      /\ Fresh(c) /\ ClientType(c) /\ SharedType /\ User(c) \in Threads
  BY OneUser, Zenon DEF ClientInv, TypeInv
<1>3. q \in Seq(Completions(c)) /\ DOMAIN cq = Clients /\ DOMAIN poller = Clients /\ DOMAIN fut = Threads
  BY <1>2, Zenon DEF ClientType, SharedType
<1>4. /\ r = Tail(q) /\ DOMAIN cq' = Clients
      /\ \A d \in Clients : d # c => cq'[d] = cq[d] /\ poller'[d] = poller[d]
  BY <1>1, <1>3, Zenon
<1>5. /\ r \in Seq(Completions(c)) /\ Len(r) \in Nat /\ Len(q) = Len(r) + 1 /\ Head(q) = w /\ w \in Completions(c)
      /\ 1 \in 1 .. Len(q)
  <2>1. q \in Seq(Completions(c)) /\ q # <<>> /\ r = Tail(q)
    BY <1>1, <1>3, <1>4, Zenon
  <2> HIDE DEF q, r
  <2> QED
    BY <2>1, Shorter, Zenon DEF w
<1>6. w.by = User(c) /\ w.fut \in 0 .. Depth /\ w.val \in Vals
  BY <1>5, Zenon DEF Completions
<1>7. poller'[c] = <<w>> /\ DOMAIN poller' = Clients
  BY <1>1, <1>3, <1>5, Zenon
<1> HIDE DEF q, r, w
<1>8. poller'[c] \in Seq(Completions(c)) /\ Len(poller'[c]) = 1 /\ poller'[c][1] = w /\ poller'[c] # <<>>
  <2>1. <<w>> \in Seq(Completions(c)) /\ Len(<<w>>) = 1 /\ <<w>>[1] = w
    BY <1>5
  <2>2. <<w>> # <<>>
    BY Zenon
  <2> QED
    BY <1>7, <2>1, <2>2, Zenon
<1>9. /\ Completes(w, F, G) /\ DOMAIN fut' = Threads
      /\ \A d \in Clients : d # c => fut'[User(d)] = fut[User(d)]
  <2>1. CASE w.fut = Sync
    BY <1>1, <1>3, <1>5, <2>1, ZenonT(40) DEF Completes
  <2>2. CASE w.fut # Sync
    <3> DEFINE x == [F[w.fut] EXCEPT !.done = TRUE, !.val = w.val]
    <3>0. F \in [1 .. Depth -> FutureType] /\ w.fut \in 1 .. Depth
      BY <1>2, <1>6, <2>2, Numbers, ZenonT(40) DEF ClientType
    <3>1. fut' = [fut EXCEPT ![User(c)] = [F EXCEPT ![w.fut] = x]]
      BY <1>1, <1>2, <1>3, <1>5, <1>6, <2>2, <3>0, ZenonT(40)
    <3>2. Completes(w, F, [F EXCEPT ![w.fut] = x])
      BY <2>2, Zenon DEF Completes
    <3> HIDE DEF x, F
    <3> QED
      BY <1>2, <1>3, <3>1, <3>2, OneUser, ZenonT(40)
  <2> QED
    BY <2>1, <2>2, Zenon
<1> HIDE DEF G
<1>10. /\ G \in [1 .. Depth -> FutureType]
       /\ \A g \in 1 .. Depth :
            /\ G[g].busy = F[g].busy /\ G[g].read = F[g].read /\ G[g].expect = F[g].expect
            /\ g # w.fut => G[g] = F[g]
            /\ g = w.fut => G[g].val = w.val
  <2>1. F \in [1 .. Depth -> FutureType] /\ Completes(w, F, G) /\ w \in Completions(c)
    BY <1>2, <1>5, <1>9, Zenon DEF ClientType
  <2> HIDE DEF F
  <2>2. Completed(w, F, G)
    BY <2>1, CompletedFutures, Zenon
  <2> QED
    BY <2>2, Zenon DEF Completed
<1>11. PICK z \in Stages : z = IF w.op = "recv" THEN "poller" ELSE s
  BY Zenon DEF Stages
<1>12. Call(c)' = Call(c) /\ Wanted(c)' = Wanted(c) /\ (Sending(c)' <=> Sending(c)) /\ Asked(c)' = Asked(c)
  BY <1>1, Zenon DEF Call, Wanted, Sending, Asked
<1>13. SharedType'
  BY <1>1, <1>2, <1>4, <1>7, <1>9, ZenonT(40) DEF SharedType
<1>14. ClientType(c)'
  <2>1. Len(poller'[c]) <= 1
    BY <1>8
  <2> QED
    BY <1>1, <1>2, <1>5, <1>8, <1>10, <1>12, <2>1, ZenonT(40) DEF ClientType, r, G
<1>15. Others(c)
  <2>1. ASSUME NEW d \in Clients, d # c
        PROVE  Same(d)
    <3>1. SameWire(d)
      BY <1>1, <1>4, <2>1, ZenonT(40) DEF SameWire, InScq, OnceInScq
    <3> QED
      BY <1>1, <1>9, <2>1, <3>1, ZenonT(40) DEF Same
  <2> QED
    BY <2>1, Zenon DEF Others
<1>16. CallShape(c)'
  BY <1>1, <1>2, <1>12, ZenonT(40) DEF CallShape
<1>17. (w.op = "recv" => s = "cq") /\ s # "poller" /\ OneRecv(r) /\ (HasRecv(r) <=> s = "cq" /\ w.op # "recv")
  <2>1. OneRecv(q) /\ (HasRecv(q) <=> s = "cq")
    BY <1>2, Zenon DEF Stage, OneRecv, HasRecv, InCq, q
  <2>2. q \in Seq(Completions(c)) /\ q # <<>> /\ r = Tail(q)
    BY <1>1, <1>3, <1>4, ZenonT(40)
  <2>3. (HasRecv(q) <=> HasRecv(r) \/ w.op = "recv") /\ ~(HasRecv(r) /\ w.op = "recv") /\ OneRecv(r)
    BY <2>1, <2>2, RecvLess, ZenonT(40) DEF w
  <2>4. s # "poller"
    BY <1>1, <1>2, Zenon DEF Stage, AtPoller
  <2> QED
    BY <2>1, <2>3, <2>4, ZenonT(40)

<1>18. Stage(c, z)'
  <2>1. sq' = sq /\ recv_sem' = recv_sem /\ spoller' = spoller /\ scq' = scq /\ replies' = replies
    BY <1>1, Zenon
  <2>2. InScq(c)' = InScq(c) /\ OnceInScq(c)' = OnceInScq(c)
    BY <2>1, Zenon DEF InScq, OnceInScq
  <2>3. AtPoller(c)' <=> z = "poller"
    BY <1>8, <1>11, <1>17, ZenonT(40) DEF AtPoller
  <2>4. /\ InCq(c)' <=> z = "cq"
        /\ \A i, j \in 1 .. Len(cq'[c]) : cq'[c][i].op = "recv" /\ cq'[c][j].op = "recv" => i = j
    BY <1>11, <1>17, Zenon DEF OneRecv, HasRecv, InCq, r
  <2>5. CASE w.op = "recv"
    <3>1. s = "cq" /\ z = "poller"
      BY <1>11, <1>17, <2>5, ZenonT(40)
    <3> QED
      BY <1>2, <1>12, <2>1, <2>2, <2>3, <2>4, <3>1, ZenonT(40) DEF Stage
  <2>6. CASE w.op # "recv"
    <3>1. z = s
      BY <1>11, <2>6, Zenon
    <3> QED
      BY <1>2, <1>12, <2>1, <2>2, <2>3, <2>4, <3>1, SMTT(40) DEF Stage
  <2> QED
    BY <2>5, <2>6, Zenon
<1>19. z = s \/ (s = "cq" /\ z = "poller")
  BY <1>11, <1>17, Zenon
<1>20. Messages(c, z)'
  BY <1>1, <1>2, <1>12, <1>19, ZenonT(40) DEF Messages, Answered, Answer
<1>21. Room(c, z)'
  <2>1. Pending(c)' = Pending(c)
    <3> DEFINE n == Len(r)
               m == Len(sq[c])
               k == Len(unacked[c])
    <3>1. sq' = sq /\ unacked' = unacked /\ k \in Nat /\ m \in Nat /\ n \in Nat
      BY <1>1, <1>2, <1>5, SMTT(30) DEF ClientType
    <3>0. Len(poller[c]) = 0
      BY <1>1
    <3>2. Pending(c) = m + k + (n + 1) + 0
      BY <1>5, <3>0, Zenon DEF Pending, q
    <3>3. Pending(c)' = m + k + n + 1
      BY <1>8, <3>1, Zenon DEF Pending, r
    <3> HIDE DEF n, m, k
    <3> QED
      BY <3>1, <3>2, <3>3, SMTT(30)
  <2> QED
    BY <1>1, <1>2, <1>12, <1>19, <2>1, ZenonT(40) DEF Room
<1>22. Located(c)' = Located(c) /\ Moving(c, z)' = Moving(c, s)
  BY <1>1, <1>12, <1>19, ZenonT(40) DEF Located, Moving, Answered, Answer
<1>23. Own(c, z)' = Own(c, s)
  BY <1>22, Zenon DEF Own
<1>24. Neat(c, z)'
  BY <1>1, <1>2, <1>22, <1>23, ZenonT(40) DEF Neat
<1>25. /\ \A f : Carries(q, f) <=> Carries(r, f) \/ w.fut = f
       /\ Once(q) => Once(r) /\ (w.fut # Sync => ~Carries(r, w.fut))
  <2>1. q \in Seq(Completions(c)) /\ q # <<>> /\ r = Tail(q)
    BY <1>1, <1>3, <1>4, Zenon
  <2> QED
    BY <2>1, FuturesLess, ZenonT(40) DEF w
<1>26. Futures(c)'
  <2>1. ASSUME NEW f \in 1 .. Depth
        PROVE  /\ Call(c).fut = f \/ Carries(sq[c], f) \/ Carries(unacked[c], f) \/ Carries(r, f) =>
                     G[f].busy /\ ~G[f].done
               /\ Call(c).fut = f => ~Carries(sq[c], f) /\ ~Carries(unacked[c], f) /\ ~Carries(r, f)
               /\ Carries(sq[c], f) => ~Carries(unacked[c], f) /\ ~Carries(r, f)
               /\ Carries(unacked[c], f) => ~Carries(r, f)
    <3>1. CASE f = w.fut
      <4>1. f # Sync
        BY Numbers
      <4>2. Carries(q, f) /\ ~Carries(r, f)
        BY <1>2, <1>25, <3>1, <4>1, ZenonT(40) DEF Futures, q
      <4> QED
        BY <1>2, <2>1, <4>2, ZenonT(40) DEF Futures, q
    <3>2. CASE f # w.fut
      <4>1. G[f] = F[f] /\ (Carries(r, f) => Carries(q, f))
        BY <1>10, <1>25, <3>2, ZenonT(40)
      <4> QED
        BY <1>2, <2>1, <4>1, ZenonT(40) DEF Futures, q
    <3> QED
      BY <3>1, <3>2, Zenon
  <2>2. Once(sq[c]) /\ Once(unacked[c]) /\ Once(r)
    BY <1>2, <1>25, ZenonT(40) DEF Futures, q
  <2> QED
    BY <1>1, <1>12, <2>1, <2>2, ZenonT(40) DEF Futures, r, G
<1>27. /\ Kinds(sq[c], G) /\ WillGet(sq[c], memory, G)
       /\ Kinds(unacked[c], G) /\ Got(unacked[c], G) /\ Kinds(r, G) /\ Got(r, G)
       /\ w.fut # Sync => (F[w.fut].read <=> w.op = "read")
       /\ w.op = "read" => w.fut # Sync /\ F[w.fut].expect = w.val /\ w.val # Junk
  <2>1. /\ Kinds(sq[c], F) /\ WillGet(sq[c], memory, F)
        /\ Kinds(unacked[c], F) /\ Got(unacked[c], F) /\ Kinds(q, F) /\ Got(q, F)
    BY <1>2, Zenon DEF Fresh, q
  <2>2. /\ \A i \in 1 .. Len(sq[c]) : sq[c][i].fut \in 0 .. Depth
        /\ \A i \in 1 .. Len(unacked[c]) : unacked[c][i].fut \in 0 .. Depth
        /\ \A i \in 1 .. Len(r) : r[i].fut \in 0 .. Depth
    <3>1. \A i \in 1 .. Len(r) : r[i] \in Completions(c)
      BY <1>5
    <3> QED
      BY <1>2, <3>1, QueueFutures, ZenonT(40) DEF Completions
  <2>3. \A g \in 1 .. Depth : G[g].read = F[g].read /\ G[g].expect = F[g].expect
    BY <1>10, ZenonT(40)
  <2>4. q \in Seq(Completions(c)) /\ q # <<>> /\ r = Tail(q)
    BY <1>1, <1>3, <1>4, Zenon
  <2> HIDE DEF F
  <2>5. /\ Kinds(r, F) /\ Got(r, F)
        /\ w.fut # Sync => (F[w.fut].read <=> w.op = "read")
        /\ w.op = "read" => w.fut # Sync /\ F[w.fut].expect = w.val /\ w.val # Junk
    BY <2>1, <2>4, FuturesLess, ZenonT(40) DEF w
  <2>6. Kinds(sq[c], G) /\ WillGet(sq[c], memory, G)
    BY <2>1, <2>2, <2>3, SameExpectation, ZenonT(40)
  <2>7. Kinds(unacked[c], G) /\ Got(unacked[c], G)
    BY <2>1, <2>2, <2>3, SameExpectation, ZenonT(40)
  <2>8. Kinds(r, G) /\ Got(r, G)
    BY <2>2, <2>3, <2>5, SameExpectation, ZenonT(40)
  <2> QED
    BY <2>5, <2>6, <2>7, <2>8, ZenonT(40)
<1>28. \A f \in 1 .. Depth : G[f].busy /\ G[f].done /\ G[f].read => G[f].val = G[f].expect /\ G[f].val # Junk
  <2> TAKE f \in 1 .. Depth
  <2>1. CASE f # w.fut
    BY <1>2, <1>10, <2>1, ZenonT(40) DEF Fresh
  <2>2. CASE f = w.fut
    <3>1. f # Sync
      BY Numbers
    <3> QED
      BY <1>10, <1>27, <2>2, <3>1, SMTT(40)
  <2> QED
    BY <2>1, <2>2, ZenonT(40)
<1>29. Holds(c)'
  BY <1>1, <1>2, <1>12, ZenonT(40) DEF Fresh, Holds
<1>30. Call(c).fut # Sync => (G[Call(c).fut].read <=> Call(c).call = "read")
  <2>1. Call(c).fut # Sync => Call(c).fut \in 1 .. Depth
    <3>1. Call(c).fut \in 0 .. Depth
      BY <1>2, Zenon DEF ClientType, CallType
    <3> QED
      BY <3>1, Numbers, ZenonT(40)
  <2> QED
    BY <1>2, <1>10, <2>1, ZenonT(40) DEF Fresh
<1>31. Fresh(c)'
  BY <1>1, <1>12, <1>27, <1>28, <1>29, <1>30, ZenonT(30) DEF Fresh, r, G
<1>32. Kept(c, s, z)
  BY <1>1, <1>13, <1>14, <1>15, <1>16, <1>18, <1>20, <1>21, <1>23, <1>24, <1>26, <1>31, SMTT(30) DEF Kept, ClientInv
<1> QED
  BY <1>32, Zenon

\* on_completion: the answer signals recv_sem, a request is counted off.
LEMMA CompletionStep ==
    ASSUME Dependable, TypeInv, NEW c \in Clients, NEW s \in Stages, ClientInv(c, s), on_completion(c)
    PROVE  \E z \in Stages : Kept(c, s, z)
<1> DEFINE w == poller[c][1]
           F == fut[User(c)]
<1>1. /\ poller[c] # <<>> /\ conn[c] = "established"
      /\ poller' = [poller EXCEPT ![c] = <<>>]
      /\ IF w.op = "recv"
         THEN recv_sem' = [recv_sem EXCEPT ![c] = TRUE] /\ outstanding_send_wr' = outstanding_send_wr
         ELSE /\ outstanding_send_wr' = [outstanding_send_wr EXCEPT ![c] = @ - 1]
              /\ recv_sem' = recv_sem
      /\ thr' = IF Waiter(w) THEN [thr EXCEPT ![w.by].freed = TRUE] ELSE thr
      /\ UNCHANGED <<conn, objects_, send_msg, recv_msg, recvs, fut, written, wireVars, serverVars, memory,
                     abandoned>>
  BY Zenon DEF on_completion
<1> USE DEF serverVars, wireVars
<1>2. /\ CallShape(c) /\ Stage(c, s) /\ Messages(c, s) /\ Room(c, s) /\ Neat(c, s) /\ Futures(c)
      /\ Fresh(c) /\ ClientType(c) /\ SharedType /\ User(c) \in Threads
  BY OneUser, Zenon DEF ClientInv, TypeInv
<1>3. /\ DOMAIN poller = Clients /\ DOMAIN thr = Threads /\ Call(c) \in CallType(c)
      /\ outstanding_send_wr \in [Clients -> Int] /\ recv_sem \in [Clients -> BOOLEAN]
      /\ poller[c] \in Seq(Completions(c)) /\ Len(poller[c]) <= 1
  BY <1>2, Zenon DEF ClientType, SharedType
<1>4. Len(poller[c]) = 1 /\ w \in Completions(c) /\ w.by = User(c)
  <2> DEFINE n == Len(poller[c])
  <2>1. n # 0 /\ n \in Nat /\ n <= 1
    BY <1>1, <1>3, NoElement
  <2> HIDE DEF n
  <2>2. n = 1
    BY <2>1
  <2>3. w \in Completions(c)
    BY <1>3, <2>2, OneElement, ZenonT(40) DEF n
  <2> QED
    BY <2>2, <2>3, ZenonT(40) DEF n, Completions
<1> HIDE DEF w
<1>5. poller'[c] = <<>> /\ DOMAIN poller' = Clients /\ \A d \in Clients : d # c => poller'[d] = poller[d]
  BY <1>1, <1>3, Zenon
<1>6. /\ <<>> \in Seq(Completions(c)) /\ Len(<<>>) = 0
  OBVIOUS
<1>7. /\ DOMAIN thr' = Threads /\ Call(c)' \in CallType(c) /\ \A d \in Clients : d # c => thr'[User(d)] = thr[User(d)]
      /\ Call(c)'.pc = Call(c).pc /\ Call(c)'.call = Call(c).call /\ Call(c)'.oid = Call(c).oid
      /\ Call(c)'.val = Call(c).val /\ Call(c)'.fut = Call(c).fut /\ Call(c)'.wr = Call(c).wr
      /\ Call(c).pc = "idle" => Call(c)' = Call(c)
  <2>1. CASE ~Waiter(w)
    BY <1>1, <1>3, <2>1, ZenonT(40) DEF Call
  <2>2. CASE Waiter(w)
    <3> DEFINE T == [Call(c) EXCEPT !.freed = TRUE]
    <3>1. /\ T \in CallType(c) /\ T.pc = Call(c).pc /\ T.call = Call(c).call /\ T.oid = Call(c).oid
          /\ T.val = Call(c).val /\ T.fut = Call(c).fut /\ T.wr = Call(c).wr
      BY <1>3, Zenon DEF CallType
    <3>2. thr' = [thr EXCEPT ![User(c)] = T] /\ Call(c).pc = "sent"
      BY <1>1, <1>4, <2>2, ZenonT(40) DEF Call, Waiter
    <3> HIDE DEF T
    <3>3. Call(c)' = T /\ DOMAIN thr' = Threads /\ \A d \in Clients : d # c => thr'[User(d)] = thr[User(d)]
      BY <1>2, <1>3, <3>2, OneUser, ZenonT(40) DEF Call
    <3> QED
      BY <3>1, <3>2, <3>3, ZenonT(40)
  <2> QED
    BY <2>1, <2>2, ZenonT(40)
<1>8. Wanted(c)' = Wanted(c) /\ (Sending(c)' <=> Sending(c)) /\ Asked(c)' = Asked(c)
  BY <1>7, Zenon DEF Wanted, Sending, Asked
<1>9. PICK z \in Stages : z = IF w.op = "recv" THEN "sem" ELSE s
  BY Zenon DEF Stages
<1>10. (w.op = "recv" <=> s = "poller") /\ z # "poller" /\ (z = s \/ (s = "poller" /\ z = "sem"))
  <2>1. AtPoller(c) <=> w.op = "recv"
    BY <1>1, Zenon DEF AtPoller, w
  <2> QED
    BY <1>2, <1>9, <2>1, ZenonT(40) DEF Stage
<1>11. /\ recv_sem' \in [Clients -> BOOLEAN] /\ (recv_sem'[c] <=> z = "sem")
       /\ \A d \in Clients : d # c => recv_sem'[d] = recv_sem[d]
  <2>1. recv_sem[c] <=> s = "sem"
    BY <1>2, Zenon DEF Stage
  <2>2. CASE w.op = "recv"
    BY <1>1, <1>3, <1>9, <2>2, ZenonT(40)
  <2>3. CASE w.op # "recv"
    BY <1>1, <1>3, <1>9, <2>1, <2>3, ZenonT(40)
  <2> QED
    BY <2>2, <2>3, ZenonT(40)
<1>12. /\ outstanding_send_wr' \in [Clients -> Int]
       /\ outstanding_send_wr'[c] = IF w.op = "recv" THEN outstanding_send_wr[c] ELSE outstanding_send_wr[c] - 1
       /\ \A d \in Clients : d # c => outstanding_send_wr'[d] = outstanding_send_wr[d]
  <2>1. CASE w.op = "recv"
    BY <1>1, <1>3, <2>1, ZenonT(40)
  <2>2. CASE w.op # "recv"
    <3>1. outstanding_send_wr[c] - 1 \in Int
      BY <1>3
    <3> QED
      BY <1>1, <1>3, <2>2, <3>1, ZenonT(40)
  <2> QED
    BY <2>1, <2>2, ZenonT(40)
<1>13. SharedType'
  BY <1>1, <1>2, <1>5, <1>7, <1>11, <1>12, ZenonT(40) DEF SharedType
<1>14. ClientType(c)'
  <2>1. Len(poller'[c]) <= 1 /\ poller'[c] \in Seq(Completions(c))
    BY <1>5, <1>6, SMTT(40)
  <2> QED
    BY <1>1, <1>2, <1>7, <2>1, ZenonT(40) DEF ClientType

<1>15. Others(c)
  <2>1. ASSUME NEW d \in Clients, d # c
        PROVE  Same(d)
    <3>1. SameWire(d)
      BY <1>1, <1>5, <2>1, ZenonT(40) DEF SameWire, InScq, OnceInScq
    <3> QED
      BY <1>1, <1>7, <1>11, <1>12, <2>1, <3>1, ZenonT(40) DEF Same
  <2> QED
    BY <2>1, Zenon DEF Others
<1>16. CallShape(c)'
  BY <1>1, <1>2, <1>7, <1>8, ZenonT(40) DEF CallShape
<1>17. Stage(c, z)'
  <2>1. sq' = sq /\ cq' = cq /\ spoller' = spoller /\ scq' = scq /\ replies' = replies
    BY <1>1, Zenon
  <2>2. InScq(c)' = InScq(c) /\ OnceInScq(c)' = OnceInScq(c) /\ InCq(c)' = InCq(c)
    BY <2>1, Zenon DEF InScq, OnceInScq, InCq
  <2>3. ~AtPoller(c)'
    BY <1>5, Zenon DEF AtPoller
  <2>4. CASE z = s
    BY <1>2, <1>7, <1>8, <1>10, <1>11, <2>1, <2>2, <2>3, <2>4, ZenonT(30) DEF Stage
  <2>5. CASE s = "poller" /\ z = "sem"
    BY <1>2, <1>7, <1>8, <1>11, <2>1, <2>2, <2>3, <2>5, SMTT(30) DEF Stage
  <2> QED
    BY <1>10, <2>4, <2>5, ZenonT(40)
<1>18. Messages(c, z)'
  BY <1>1, <1>2, <1>7, <1>8, <1>10, ZenonT(40) DEF Messages, Answered, Answer
<1>19. Room(c, z)'
  <2> DEFINE m == Len(sq[c])
             n == Len(unacked[c])
             k == Len(cq[c])
             o == outstanding_send_wr[c]
             p == outstanding_send_wr'[c]
  <2>1. sq' = sq /\ unacked' = unacked /\ cq' = cq /\ m \in Nat /\ n \in Nat /\ k \in Nat /\ o \in Int
    BY <1>1, <1>2, <1>3, SMTT(40) DEF ClientType
  <2>2. Pending(c) = m + n + k + 1
    BY <1>4, Zenon DEF Pending
  <2>3. Pending(c)' = m + n + k + 0
    BY <1>5, <1>6, <2>1, ZenonT(40) DEF Pending
  <2>4. Pending(c) = IF s \in {"cq", "poller"} THEN o + 1 ELSE o
    BY <1>2, Zenon DEF Room
  <2>5. p = IF s = "poller" THEN o ELSE o - 1
    BY <1>10, <1>12, ZenonT(40)
  <2> HIDE DEF m, n, k, o, p
  <2>6. Pending(c)' = IF z \in {"cq", "poller"} THEN p + 1 ELSE p
    <3>1. CASE s = "poller"
      <4>1. z = "sem"
        BY <1>9, <1>10, <3>1, ZenonT(40)
      <4> QED
        BY <2>1, <2>2, <2>3, <2>4, <2>5, <3>1, <4>1, SMTT(30)
    <3>2. CASE s # "poller"
      <4>1. z = s
        BY <1>10, <3>2, ZenonT(40)
      <4> QED
        BY <2>1, <2>2, <2>3, <2>4, <2>5, <3>2, <4>1, SMTT(30)
    <3> QED
      BY <3>1, <3>2, ZenonT(40)
  <2>7. /\ p <= o /\ \A x \in Nat : o <= x => p <= x
        /\ \A x \in Nat : o + 1 <= x => p + 1 <= x
        /\ \A x \in Nat : o + 2 <= x => p + 2 <= x
    BY <2>1, <2>5
  <2>8. MAX_SEND_WR \in Nat
    BY Numbers, Zenon
  <2> QED
    BY <1>1, <1>2, <1>7, <1>8, <2>6, <2>7, <2>8, SMTT(30) DEF Room, o, p
<1>20. Located(c)' = Located(c) /\ Moving(c, z)' = Moving(c, s)
  BY <1>1, <1>7, <1>8, <1>10, ZenonT(40) DEF Located, Moving, Answered, Answer
<1>21. Own(c, z)' = Own(c, s)
  BY <1>20, Zenon DEF Own
<1>22. Neat(c, z)'
  BY <1>1, <1>2, <1>20, <1>21, ZenonT(40) DEF Neat
<1>23. Futures(c)'
  BY <1>1, <1>2, <1>7, ZenonT(40) DEF Futures
<1>24. Holds(c)'
  BY <1>1, <1>2, <1>7, ZenonT(40) DEF Fresh, Holds
<1>25. Fresh(c)'
  BY <1>1, <1>2, <1>7, <1>24, ZenonT(40) DEF Fresh
<1>26. Kept(c, s, z)
  BY <1>1, <1>13, <1>14, <1>15, <1>16, <1>17, <1>18, <1>19, <1>21, <1>22, <1>23, <1>25, SMTT(30) DEF Kept, ClientInv
<1> QED
  BY <1>26, Zenon

-----------------------------------------------------------------------------
(* The server.                                                             *)

\* The server's poller takes the first message.
LEMMA ScqLess ==
    ASSUME NEW c, scq \in Seq(Clients), scq # <<>>, scq' = Tail(scq), c = Head(scq)
    PROVE  /\ scq' \in Seq(Clients) /\ c \in Clients /\ InScq(c) /\ (OnceInScq(c) => ~InScq(c)' /\ OnceInScq(c)')
           /\ \A d \in Clients : d # c => (InScq(d)' <=> InScq(d)) /\ (OnceInScq(d) => OnceInScq(d)')
<1> DEFINE q == scq
           r == scq'
<1>1. q \in Seq(Clients) /\ q # <<>> /\ r = Tail(q)
  BY Zenon
<1> HIDE DEF q, r
<1>2. /\ r \in Seq(Clients) /\ Len(r) \in Nat /\ Len(q) = Len(r) + 1 /\ Head(q) = q[1] /\ q[1] \in Clients
      /\ \A i \in 1 .. Len(r) : r[i] = q[i + 1] /\ i + 1 \in 1 .. Len(q)
      /\ \A i \in 1 .. Len(q) : i = 1 \/ i - 1 \in 1 .. Len(r)
      /\ 1 \in 1 .. Len(q)
  BY <1>1, Shorter
<1>3. \A i \in 1 .. Len(q) : i = 1 \/ (i - 1 \in 1 .. Len(r) /\ q[i] = r[i - 1])
  <2> TAKE i \in 1 .. Len(q)
  <2>1. i - 1 \in 1 .. Len(r) => (i - 1) + 1 = i
    BY <1>2
  <2> QED
    BY <1>2, <2>1, ZenonT(40)
<1>4. c = q[1] /\ c \in Clients
  BY <1>2, Zenon DEF q
<1>5. InScq(c)
  BY <1>2, <1>4, ZenonT(40) DEF InScq, q
<1>6. ASSUME OnceInScq(c), NEW i \in 1 .. Len(r)
      PROVE  r[i] # c
  <2>1. i + 1 # 1 /\ i + 1 \in 1 .. Len(q) /\ q[i + 1] = r[i]
    BY <1>2
  <2> QED
    BY <1>2, <1>4, <1>6, <2>1, ZenonT(40) DEF OnceInScq, q
<1>7. OnceInScq(c) => ~InScq(c)' /\ OnceInScq(c)'
  BY <1>6, Zenon DEF InScq, OnceInScq, r
<1>8. ASSUME NEW d \in Clients, d # c
      PROVE  (InScq(d)' <=> InScq(d)) /\ (OnceInScq(d) => OnceInScq(d)')
  <2>1. (\E i \in 1 .. Len(r) : r[i] = d) <=> (\E i \in 1 .. Len(q) : q[i] = d)
    BY <1>2, <1>3, <1>4, <1>8, ZenonT(40)
  <2>2. ASSUME OnceInScq(d), NEW i \in 1 .. Len(r), NEW j \in 1 .. Len(r), r[i] = d, r[j] = d
        PROVE  i = j
    <3> DEFINE k == i + 1
               l == j + 1
    <3>0. k \in 1 .. Len(q) /\ l \in 1 .. Len(q) /\ q[k] = d /\ q[l] = d /\ (k = l => i = j)
      BY <1>2, <2>2
    <3> HIDE DEF k, l
    <3>1. k = l
      BY <2>2, <3>0, ZenonT(40) DEF OnceInScq, q
    <3> QED
      BY <3>0, <3>1, Zenon
  <2> QED
    BY <2>1, <2>2, ZenonT(40) DEF InScq, OnceInScq, q, r
<1> QED
  BY <1>2, <1>4, <1>5, <1>7, <1>8, ZenonT(40) DEF r

\* The poller of the server takes a message.
LEMMA ServerPollStep ==
    ASSUME Dependable, TypeInv, NEW c \in Clients, NEW s \in Stages, ClientInv(c, s), ServerPoll, c = Head(scq)
    PROVE  Kept(c, s, "spoller")
<1>1. /\ spoller = <<>> /\ scq # <<>> /\ spoller' = <<c>> /\ scq' = Tail(scq)
      /\ UNCHANGED <<clientVars, wireVars, sconn, srecvs, srecv_msg, replies, allocated, memory, abandoned>>
  BY Zenon DEF ServerPoll
<1> USE DEF clientVars, wireVars
<1>2. /\ CallShape(c) /\ Stage(c, s) /\ Messages(c, s) /\ Room(c, s) /\ Neat(c, s) /\ Futures(c)
      /\ Fresh(c) /\ ClientType(c) /\ SharedType
  BY Zenon DEF ClientInv, TypeInv
<1>3. /\ scq' \in Seq(Clients) /\ InScq(c) /\ (OnceInScq(c) => ~InScq(c)' /\ OnceInScq(c)')
      /\ \A d \in Clients : d # c => (InScq(d)' <=> InScq(d)) /\ (OnceInScq(d) => OnceInScq(d)')
  BY <1>1, <1>2, ScqLess, ZenonT(40) DEF SharedType
<1>4. s = "scq" /\ Sending(c) /\ Call(c).pc \in {"sent", "reply"} /\ ~InScq(c)' /\ OnceInScq(c)'
  <2>1. s = "scq" /\ OnceInScq(c)
    BY <1>2, <1>3, ZenonT(40) DEF Stage
  <2> QED
    BY <1>2, <1>3, <2>1, ZenonT(40) DEF Stage
<1>5. <<c>> \in Seq(Clients) /\ Len(<<c>>) <= 1 /\ (\A d : <<c>> = <<d>> <=> d = c) /\ \A d : <<d>> # <<>>
  OBVIOUS
<1>6. Call(c)' = Call(c) /\ Wanted(c)' = Wanted(c) /\ (Sending(c)' <=> Sending(c)) /\ Asked(c)' = Asked(c)
  BY <1>1, Zenon DEF Call, Wanted, Sending, Asked
<1>7. SharedType'
  BY <1>1, <1>2, <1>3, <1>5, ZenonT(40) DEF SharedType
<1>8. ClientType(c)'
  BY <1>1, <1>2, <1>6, ZenonT(40) DEF ClientType
<1>9. Others(c)
  <2>1. ASSUME NEW d \in Clients, d # c
        PROVE  Same(d)
    <3>1. SameWire(d)
      BY <1>1, <1>3, <1>5, <2>1, ZenonT(40) DEF SameWire
    <3> QED
      BY <1>1, <3>1, ZenonT(40) DEF Same
  <2> QED
    BY <2>1, Zenon DEF Others
<1>10. CallShape(c)'
  BY <1>1, <1>2, <1>6, ZenonT(40) DEF CallShape
<1>11. Stage(c, "spoller")'
  <2>1. sq' = sq /\ cq' = cq /\ poller' = poller /\ recv_sem' = recv_sem /\ replies' = replies
    BY <1>1, Zenon
  <2>2. InCq(c)' = InCq(c) /\ AtPoller(c)' = AtPoller(c)
    BY <2>1, Zenon DEF InCq, AtPoller
  <2> QED
    BY <1>1, <1>2, <1>4, <1>6, <2>1, <2>2, ZenonT(30) DEF Stage
<1>12. Messages(c, "spoller")'
  BY <1>1, <1>2, <1>4, <1>6, Zenon DEF Messages, Answered
<1>13. Room(c, "spoller")'
  BY <1>1, <1>2, <1>4, <1>6, ZenonT(40) DEF Room, Pending
<1>14. Located(c)' = Located(c) /\ Moving(c, "spoller")' = Moving(c, s)
  BY <1>1, <1>4, <1>6, ZenonT(40) DEF Located, Moving, Answered
<1>15. Own(c, "spoller")' = Own(c, s)
  BY <1>14, Zenon DEF Own
<1>16. Neat(c, "spoller")'
  BY <1>1, <1>2, <1>14, <1>15, ZenonT(40) DEF Neat
<1>17. Futures(c)'
  BY <1>1, <1>2, <1>6, ZenonT(40) DEF Futures
<1>18. Holds(c)'
  BY <1>1, <1>2, <1>6, ZenonT(40) DEF Fresh, Holds
<1>19. Fresh(c)'
  BY <1>1, <1>2, <1>6, <1>18, ZenonT(40) DEF Fresh
<1> QED
  BY <1>1, <1>7, <1>8, <1>9, <1>10, <1>11, <1>12, <1>13, <1>15, <1>16, <1>17, <1>19, ZenonT(40) DEF Kept, ClientInv

\* What a step of client c that is about its cells is to show: those it no longer
\* owns are free or abandoned, the new ones were free.
Changed(c, s, u) ==
    /\ SharedType' /\ ClientType(c)' /\ ClientInv(c, u)' /\ Others(c)
    /\ memory' = memory
    /\ Own(c, u)' \subseteq Own(c, s) \cup (Addrs \ allocated)
    /\ Own(c, u)' \subseteq allocated' \ abandoned'
    /\ abandoned' \subseteq allocated'
    /\ \A a \in (allocated' \ abandoned') \cap Own(c, s) : a \in Own(c, u)'
    /\ \A a : a \notin Own(c, s) /\ a \notin Own(c, u)' =>
         (a \in allocated' <=> a \in allocated) /\ (a \in abandoned' <=> a \in abandoned)

\* Then the others keep theirs.
LEMMA Regroup ==
    ASSUME TypeInv, NEW st \in [Clients -> Stages], Staged(st), Owners(st),
           NEW c \in Clients, NEW s \in Stages, s = st[c], NEW u \in Stages, Changed(c, s, u)
    PROVE  IInv'
<1>0. PICK su : Moves(su, st, c, u)
  BY Zenon DEF Moves
<1>1. /\ su \in [Clients -> Stages] /\ su[c] = u
      /\ TypeInv' /\ Staged(su)'
      /\ \A d \in Clients : d # c => su[d] = st[d] /\ Own(d, st[d])' = Own(d, st[d])
  <2>1. Spared(c, st)
    BY Zenon DEF Spared, Changed
  <2> QED
    BY <1>0, <2>1, Apart, SMTT(40) DEF Changed
<1>2. /\ \A d \in Clients : d # c => Own(d, su[d])' = Own(d, st[d])
      /\ Own(c, su[c])' = Own(c, u)'
  BY <1>1, Zenon
<1> DEFINE O(d) == Own(d, st[d])
           P(d) == Own(d, su[d])'
<1>3. \A d \in Clients : d # c => P(d) = O(d)
  BY <1>2, Zenon
<1>4. /\ P(c) \subseteq O(c) \cup (Addrs \ allocated) /\ P(c) \subseteq allocated' \ abandoned'
      /\ abandoned' \subseteq allocated'
      /\ \A a \in (allocated' \ abandoned') \cap O(c) : a \in P(c)
      /\ \A a : a \notin O(c) /\ a \notin P(c) =>
           (a \in allocated' <=> a \in allocated) /\ (a \in abandoned' <=> a \in abandoned)
  BY <1>2, Zenon DEF Changed
<1>5. /\ \A d, e \in Clients : d # e => O(d) \cap O(e) = {}
      /\ \A d \in Clients : O(d) \subseteq allocated \ abandoned
      /\ \A a \in allocated \ abandoned : \E d \in Clients : a \in O(d)
  BY Zenon DEF Owners
<1> HIDE DEF O, P
<1>6. ASSUME NEW d \in Clients, d # c
      PROVE  P(d) \cap P(c) = {} /\ P(d) \subseteq allocated' \ abandoned'
  BY <1>3, <1>4, <1>5, <1>6, SMTT(40)
<1>7. ASSUME NEW d \in Clients, NEW e \in Clients, d # e
      PROVE  P(d) \cap P(e) = {}
  BY <1>3, <1>5, <1>6, <1>7, ZenonT(40)
<1>8. ASSUME NEW a \in allocated' \ abandoned'
      PROVE  \E d \in Clients : a \in P(d)
  <2>1. CASE a \in O(c) \/ a \in P(c)
    BY <1>4, <1>8, <2>1, ZenonT(40)
  <2>2. CASE a \notin O(c) /\ a \notin P(c)
    <3>1. a \in allocated \ abandoned
      BY <1>4, <1>8, <2>2, ZenonT(40)
    <3>2. PICK d \in Clients : a \in O(d)
      BY <1>5, <3>1, ZenonT(40)
    <3> QED
      BY <1>3, <2>2, <3>2, ZenonT(40)
  <2> QED
    BY <2>1, <2>2, ZenonT(40)
<1>9. Owners(su)'
  BY <1>4, <1>6, <1>7, <1>8, ZenonT(40) DEF Owners, P
<1> QED
  BY <1>1, <1>9, ZenonT(40) DEF IInv, Staged

\* What the server makes of a message: the answer, and the cells handed out.
LEMMA AnswerIs ==
    ASSUME TypeInv, NEW c \in Clients, NEW s \in Stages, ClientInv(c, s), ServerCompletion, c = spoller[1]
    PROVE  /\ s = "spoller" /\ Sending(c) /\ Call(c).pc \in {"sent", "reply"} /\ spoller = <<c>>
           /\ \E m \in Msgs :
                /\ replies' = [replies EXCEPT ![c] = Append(@, m)]
                /\ \/ /\ Call(c).call = "write" /\ m = AllocAck(NullAddr) /\ allocated' = allocated
                   \/ /\ Call(c).call = "write" /\ m.op = "AllocAck" /\ m.addr \in Addrs \ allocated
                      /\ allocated' = allocated \cup {m.addr}
                   \/ /\ Call(c).call = "remove" /\ m = DeallocAck /\ Wanted(c).addr \in Addrs
                      /\ allocated' = allocated \ {Wanted(c).addr}
<1>1. /\ CallShape(c) /\ Stage(c, s) /\ Messages(c, s) /\ SharedType
  BY Zenon DEF ClientInv, TypeInv
<1>2. spoller = <<c>>
  <2> DEFINE n == Len(spoller)
  <2>0. spoller \in Seq(Clients) /\ n <= 1 /\ n \in Nat /\ spoller # <<>>
    BY <1>1 DEF SharedType, ServerCompletion
  <2>1. n # 0
    BY <2>0, NoElement, ZenonT(40)
  <2> HIDE DEF n
  <2>2. n = 1
    BY <2>0, <2>1
  <2> QED
    BY <2>0, <2>2, OneElement, ZenonT(40) DEF n
<1>3. s = "spoller" /\ Sending(c) /\ Call(c).pc \in {"sent", "reply"}
  <2>1. s = "spoller"
    BY <1>1, <1>2, ZenonT(40) DEF Stage
  <2> QED
    BY <1>1, <2>1, ZenonT(40) DEF Stage
<1>4. srecv_msg[c] = Asked(c)
  BY <1>1, <1>3, ZenonT(40) DEF Messages
<1>5. Call(c).call = "write" \/ (Call(c).call = "remove" /\ Wanted(c).addr \in Addrs)
  BY <1>1, <1>3, ZenonT(40) DEF CallShape, Sending
<1>6. CASE Call(c).call = "write"
  <2>1. srecv_msg[c].op = "Alloc"
    BY <1>4, <1>6 DEF Asked, Alloc
  <2>2. process_alloc(c)
    BY <2>1, Zenon DEF ServerCompletion
  <2>3. CASE send_message(c, AllocAck(NullAddr)) /\ UNCHANGED allocated
    <3>1. AllocAck(NullAddr) \in Msgs
      BY Zenon DEF AllocAck, Msgs, Cells
    <3> QED
      BY <1>2, <1>3, <1>6, <2>3, <3>1, ZenonT(40) DEF send_message
  <2>4. CASE \E a \in Free : allocated' = allocated \cup {a} /\ send_message(c, AllocAck(a))
    <3>1. PICK a \in Free : allocated' = allocated \cup {a} /\ send_message(c, AllocAck(a))
      BY <2>4, Zenon
    <3> DEFINE m == AllocAck(a)
    <3>2. m \in Msgs /\ m.op = "AllocAck" /\ m.addr = a /\ a \in Addrs \ allocated
      BY Zenon DEF AllocAck, Msgs, Cells, Free
    <3>3. replies' = [replies EXCEPT ![c] = Append(@, m)]
      BY <3>1, Zenon DEF send_message
    <3> HIDE DEF m
    <3> QED
      BY <1>2, <1>3, <1>6, <3>1, <3>2, <3>3, ZenonT(40)
  <2> QED
    BY <2>2, <2>3, <2>4, ZenonT(40) DEF process_alloc
<1>7. CASE Call(c).call = "remove"
  <2>1. srecv_msg[c].op = "Dealloc" /\ srecv_msg[c].addr = Wanted(c).addr
    BY <1>4, <1>7, SMTT(40) DEF Asked, Dealloc
  <2>2. process_dealloc(c, Wanted(c).addr)
    BY <2>1, Zenon DEF ServerCompletion
  <2>3. DeallocAck \in Msgs
    BY Zenon DEF DeallocAck, Msgs, Cells
  <2> QED
    BY <1>2, <1>3, <1>5, <1>7, <2>2, <2>3, ZenonT(40) DEF process_dealloc, send_message
<1> QED
  BY <1>5, <1>6, <1>7, ZenonT(40)

\* The server hands a cell out, or takes one back, or neither: M moves before, N after.
Served(M, N, A, B) ==
    \/ N = {} /\ M = {} /\ B = A
    \/ \E x \in Addrs \ A : N = {x} /\ M = {} /\ B = A \cup {x}
    \/ \E x : N = {} /\ M = {x} /\ B = A \ {x}

\* The cells of a client, located or moving, when the server hands one out or takes one back.
Handed(P, O, A, B, D) ==
    /\ P \subseteq O \cup (Addrs \ A) /\ P \subseteq B \ D /\ D \subseteq B
    /\ \A a \in (B \ D) \cap O : a \in P
    /\ \A a : a \notin O /\ a \notin P => (a \in B <=> a \in A)

\* It is the client's afterwards, or no longer.
LEMMA HandOver ==
    ASSUME NEW L, NEW M, NEW N, NEW A, NEW B, NEW D, L \cap M = {}, L \cup M \subseteq A \ D, D \subseteq A,
           Served(M, N, A, B)
    PROVE  L \cap N = {} /\ Handed(L \cup N, L \cup M, A, B, D)
<1>1. CASE N = {} /\ M = {} /\ B = A
  BY <1>1, Zenon DEF Handed
<1>2. CASE \E x \in Addrs \ A : N = {x} /\ M = {} /\ B = A \cup {x}
  BY <1>2, Zenon DEF Handed
<1>3. CASE \E x : N = {} /\ M = {x} /\ B = A \ {x}
  BY <1>3, ZenonT(40) DEF Handed
<1> QED
  BY <1>1, <1>2, <1>3, ZenonT(40) DEF Served

\* The server answers a message.
LEMMA AnswerStep ==
    ASSUME Dependable, TypeInv, NEW c \in Clients, NEW s \in Stages, ClientInv(c, s), ServerCompletion, c = spoller[1],
           Own(c, s) \subseteq allocated \ abandoned, abandoned \subseteq allocated
    PROVE  Changed(c, s, "replies")
<1>1. /\ spoller' = <<>>
      /\ UNCHANGED <<clientVars, wireVars, srecv_msg, scq, memory, abandoned>>
  BY Zenon DEF ServerCompletion
<1> USE DEF clientVars, wireVars
<1>2. /\ CallShape(c) /\ Stage(c, s) /\ Messages(c, s) /\ Room(c, s) /\ Neat(c, s) /\ Futures(c)
      /\ Fresh(c) /\ ClientType(c) /\ SharedType /\ Own(c, s) \subseteq Addrs
  BY OwnCells, Zenon DEF ClientInv, TypeInv
<1>3. s = "spoller" /\ Sending(c) /\ Call(c).pc \in {"sent", "reply"} /\ spoller = <<c>>
  BY AnswerIs, Zenon
<1>4. PICK m \in Msgs :
        /\ replies' = [replies EXCEPT ![c] = Append(@, m)]
        /\ \/ /\ Call(c).call = "write" /\ m = AllocAck(NullAddr) /\ allocated' = allocated
           \/ /\ Call(c).call = "write" /\ m.op = "AllocAck" /\ m.addr \in Addrs \ allocated
              /\ allocated' = allocated \cup {m.addr}
           \/ /\ Call(c).call = "remove" /\ m = DeallocAck /\ Wanted(c).addr \in Addrs
              /\ allocated' = allocated \ {Wanted(c).addr}
  BY AnswerIs, Zenon
<1>5. /\ replies' \in [Clients -> Seq(Msgs)] /\ replies'[c] = <<m>>
      /\ \A d \in Clients : d # c => replies'[d] = replies[d]
  <2>1. replies[c] = <<>> /\ replies \in [Clients -> Seq(Msgs)]
    <3>1. Len(replies[c]) = 0 /\ replies \in [Clients -> Seq(Msgs)]
      BY <1>2, <1>3, ZenonT(40) DEF Stage, SharedType
    <3> QED
      BY <3>1, NoElement, ZenonT(40)
  <2>2. Append(<<>>, m) = <<m>> /\ <<m>> \in Seq(Msgs)
    OBVIOUS
  <2> QED
    BY <1>4, <2>1, <2>2, ZenonT(40)
<1>6. Len(replies'[c]) = 1 /\ replies'[c][1] = m
  <2>1. Len(<<m>>) = 1 /\ <<m>>[1] = m
    BY Zenon
  <2> QED
    BY <1>5, <2>1, ZenonT(40)
<1>7. Call(c)' = Call(c) /\ Wanted(c)' = Wanted(c) /\ (Sending(c)' <=> Sending(c)) /\ Asked(c)' = Asked(c)
  BY <1>1, Zenon DEF Call, Wanted, Sending, Asked
<1>8. m.op = (IF Call(c).call = "write" THEN "AllocAck" ELSE "DeallocAck") /\ Answer(c, "replies")' = m
  <2>1. AllocAck(NullAddr).op = "AllocAck" /\ DeallocAck.op = "DeallocAck"
    BY Zenon DEF AllocAck, DeallocAck
  <2> QED
    BY <1>4, <1>6, <2>1, ZenonT(40) DEF Answer
<1>9. /\ allocated' \subseteq Addrs /\ <<>> \in Seq(Clients) /\ Len(<<>>) = 0
  <2>1. allocated \subseteq Addrs
    BY <1>2, ZenonT(40) DEF SharedType
  <2>2. <<>> \in Seq(Clients) /\ Len(<<>>) = 0
    OBVIOUS
  <2> QED
    BY <1>4, <2>1, <2>2, ZenonT(40)
<1>10. SharedType'
  <2>1. spoller' \in Seq(Clients) /\ Len(spoller') <= 1
    BY <1>1, <1>9, SMTT(40)
  <2> QED
    BY <1>1, <1>2, <1>5, <1>9, <2>1, ZenonT(40) DEF SharedType
<1>11. ClientType(c)'
  BY <1>1, <1>2, <1>7, ZenonT(40) DEF ClientType
<1>12. Others(c)
  <2>0. \A d : (<<c>> = <<d>> <=> d = c) /\ <<d>> # <<>>
    BY Zenon
  <2>1. ASSUME NEW d \in Clients, d # c
        PROVE  Same(d)
    <3>1. spoller' # <<d>> /\ spoller # <<d>>
      BY <1>1, <1>3, <2>0, <2>1, ZenonT(40)
    <3>2. SameWire(d)
      BY <1>1, <1>5, <2>1, <3>1, ZenonT(40) DEF SameWire, InScq, OnceInScq
    <3> QED
      BY <1>1, <3>2, ZenonT(40) DEF Same
  <2> QED
    BY <2>1, Zenon DEF Others
<1>13. CallShape(c)'
  BY <1>1, <1>2, <1>7, ZenonT(40) DEF CallShape
<1>14. Stage(c, "replies")'
  <2>1. sq' = sq /\ cq' = cq /\ poller' = poller /\ recv_sem' = recv_sem /\ scq' = scq
    BY <1>1, ZenonT(40)
  <2>2. /\ InCq(c)' = InCq(c) /\ AtPoller(c)' = AtPoller(c) /\ InScq(c)' = InScq(c) /\ OnceInScq(c)' = OnceInScq(c)
    BY <2>1, ZenonT(40) DEF InCq, AtPoller, InScq, OnceInScq
  <2>3. spoller' # <<c>>
    BY <1>1, Zenon
  <2> QED
    BY <1>2, <1>3, <1>6, <1>7, <2>1, <2>2, <2>3, ZenonT(40) DEF Stage
<1>15. Messages(c, "replies")'
  BY <1>1, <1>2, <1>3, <1>7, <1>8, ZenonT(40) DEF Messages
<1>16. Room(c, "replies")'
  BY <1>1, <1>2, <1>3, <1>7, ZenonT(40) DEF Room, Pending
<1>17. Located(c)' = Located(c) /\ Own(c, s) = Located(c) \cup Moving(c, s) /\ Own(c, "replies")' = Located(c) \cup Moving(c, "replies")'
  BY <1>1, ZenonT(40) DEF Located, Own
<1>18. /\ Located(c) \cap Moving(c, "replies")' = {} /\ abandoned' = abandoned
       /\ Handed(Own(c, "replies")', Own(c, s), allocated, allocated', abandoned)
  <2> DEFINE L == Located(c)
             M == Moving(c, s)
             N == Moving(c, "replies")'
  <2>0. abandoned' = abandoned /\ L \cap M = {} /\ Own(c, s) = L \cup M /\ Own(c, "replies")' = L \cup N
    BY <1>1, <1>2, <1>17, ZenonT(40) DEF Neat
  <2>4. \/ N = {} /\ M = {} /\ allocated' = allocated
        \/ \E x \in Addrs \ allocated : N = {x} /\ M = {} /\ allocated' = allocated \cup {x}
        \/ \E x : N = {} /\ M = {x} /\ allocated' = allocated \ {x}
    <3>1. CASE Call(c).call = "write" /\ m = AllocAck(NullAddr) /\ allocated' = allocated
      <4>1. N = {} /\ M = {}
        BY <1>3, <1>7, <1>8, <3>1, SMTT(40) DEF Moving, Answered, AllocAck
      <4> QED
        BY <3>1, <4>1, ZenonT(40)
    <3>2. CASE /\ Call(c).call = "write" /\ m.op = "AllocAck" /\ m.addr \in Addrs \ allocated
               /\ allocated' = allocated \cup {m.addr}
      <4>1. m.addr # NullAddr
        BY <3>2, RDMAAssumption, ZenonT(40)
      <4>2. N = {m.addr} /\ M = {}
        BY <1>3, <1>7, <1>8, <3>2, <4>1, ZenonT(40) DEF Moving, Answered
      <4> QED
        BY <3>2, <4>2, ZenonT(40)
    <3>3. CASE /\ Call(c).call = "remove" /\ m = DeallocAck /\ Wanted(c).addr \in Addrs
               /\ allocated' = allocated \ {Wanted(c).addr}
      <4>1. N = {} /\ M = {Wanted(c).addr}
        BY <1>3, <1>7, <3>3, ZenonT(40) DEF Moving, Answered
      <4> QED
        BY <3>3, <4>1, ZenonT(40)
    <3> QED
      BY <1>4, <3>1, <3>2, <3>3, ZenonT(40)
  <2>5. L \cup M \subseteq allocated \ abandoned /\ abandoned \subseteq allocated
    BY <2>0, ZenonT(40)
  <2> HIDE DEF L, M, N
  <2>7. Served(M, N, allocated, allocated')
    BY <2>4, ZenonT(40) DEF Served
  <2>6. L \cap N = {} /\ Handed(L \cup N, L \cup M, allocated, allocated', abandoned)
    BY <2>0, <2>5, <2>7, HandOver, ZenonT(40)
  <2> QED
    BY <2>0, <2>6, ZenonT(40) DEF L, N
<1>19. Neat(c, "replies")'
  <2>1. sq'[c] = <<>>
    BY <1>1, <1>2, <1>3, ZenonT(40) DEF Stage
  <2>2. \A i \in 1 .. Len(sq'[c]) : FALSE
    BY <1>9, <2>1, SMTT(40)
  <2> QED
    BY <1>1, <1>2, <1>17, <1>18, <2>2, ZenonT(40) DEF Neat
<1>20. Futures(c)'
  BY <1>1, <1>2, <1>7, ZenonT(40) DEF Futures
<1>21. Holds(c)'
  BY <1>1, <1>2, <1>7, ZenonT(40) DEF Fresh, Holds
<1>22. Fresh(c)'
  BY <1>1, <1>2, <1>7, <1>21, ZenonT(40) DEF Fresh
<1>23. ClientInv(c, "replies")'
  BY <1>13, <1>14, <1>15, <1>16, <1>19, <1>20, <1>22, SMTT(30) DEF ClientInv
<1> QED
  BY <1>1, <1>10, <1>11, <1>12, <1>18, <1>23, SMTT(30) DEF Changed, Handed

-----------------------------------------------------------------------------
(* A client exits, and connects.                                           *)

\* A client that makes no call has no exchange with the server.
LEMMA AtRestStage ==
    ASSUME NEW c \in Clients, NEW s \in Stages, CallShape(c), Stage(c, s), Messages(c, s), Call(c).pc = "idle"
    PROVE  /\ s = "none" /\ Call(c) = AtRest /\ ~Sending(c) /\ Call(c).fut = Sync
           /\ Moving(c, s) = {} /\ recvs[c] = 0
<1>1. Call(c) = AtRest
  BY Zenon DEF CallShape
<1>2. ~Sending(c) /\ Call(c).fut = Sync
  BY <1>1 DEF Sending, AtRest
<1>3. s = "none"
  BY <1>2, ZenonT(40) DEF Stage
<1> QED
  BY <1>1, <1>2, <1>3, ZenonT(40) DEF Moving, Messages

\* Exit: the client's cells are abandoned.
LEMMA ExitStep ==
    ASSUME Dependable, TypeInv, NEW c \in Clients, NEW s \in Stages, ClientInv(c, s), Exit(c),
           Own(c, s) \subseteq allocated \ abandoned, abandoned \subseteq allocated
    PROVE  Changed(c, s, "none")
<1> DEFINE noFut == [i \in 1 .. Depth |-> NoFuture]
<1>1. /\ conn[c] = "established" /\ ~Busy(c)
      /\ conn' = [conn EXCEPT ![c] = "exited"]
      /\ abandoned' = abandoned \cup Located(c)
      /\ objects_' = [objects_ EXCEPT ![c] = [o \in {} |-> NullAddr]]
      /\ written' = [written EXCEPT ![c] = [o \in {} |-> Junk]]
      /\ thr' = [t \in Threads |-> IF t[1] = c THEN AtRest ELSE thr[t]]
      /\ fut' = [t \in Threads |-> IF t[1] = c THEN noFut ELSE fut[t]]
      /\ sq' = [sq EXCEPT ![c] = <<>>] /\ unacked' = [unacked EXCEPT ![c] = <<>>]
      /\ cq' = [cq EXCEPT ![c] = <<>>] /\ poller' = [poller EXCEPT ![c] = <<>>]
      /\ outstanding_send_wr' = [outstanding_send_wr EXCEPT ![c] = 0]
      /\ UNCHANGED <<send_msg, recv_msg, recv_sem, recvs, serverVars, memory>>
  BY Zenon DEF Exit, Dependable, Located
<1> USE DEF serverVars
<1>2. /\ CallShape(c) /\ Stage(c, s) /\ Messages(c, s) /\ Room(c, s) /\ Neat(c, s) /\ Futures(c)
      /\ Fresh(c) /\ ClientType(c) /\ SharedType /\ User(c) \in Threads /\ User(c)[1] = c
      /\ \A d \in Clients : User(d) \in Threads /\ User(d)[1] = d
  BY OneUser, Zenon DEF ClientInv, TypeInv
<1>3. Call(c).pc = "idle"
  BY <1>1, <1>2, ZenonT(40) DEF Busy, Call
<1>4. s = "none" /\ Moving(c, s) = {} /\ recvs[c] = 0
  BY <1>2, <1>3, AtRestStage, ZenonT(40)
<1>5. /\ conn'[c] = "exited" /\ DOMAIN objects_'[c] = {} /\ DOMAIN written'[c] = {}
      /\ Call(c)' = AtRest /\ fut'[User(c)] = noFut
      /\ sq'[c] = <<>> /\ unacked'[c] = <<>> /\ cq'[c] = <<>> /\ poller'[c] = <<>>
      /\ outstanding_send_wr'[c] = 0
  BY <1>1, <1>2, ZenonT(40) DEF SharedType, Call
<1>6. /\ AtRest \in CallType(c) /\ AtRest.pc = "idle" /\ AtRest.fut = Sync /\ ~Sending(c)'
      /\ noFut \in [1 .. Depth -> FutureType]
      /\ \A f \in 1 .. Depth : noFut[f] = NoFuture
      /\ ~NoFuture.busy
  <2>1. AtRest \in CallType(c) /\ AtRest.pc = "idle" /\ AtRest.fut = Sync /\ AtRest.wr = <<>>
    <3>1. <<>> \in Seq(Posts(c))
      OBVIOUS
    <3> QED
      BY <3>1, Numbers, ZenonT(40) DEF AtRest, CallType
  <2>2. NoFuture \in FutureType /\ ~NoFuture.busy
    BY Numbers, ZenonT(40) DEF NoFuture, FutureType
  <2> QED
    BY <1>5, <2>1, <2>2, ZenonT(40) DEF Sending
<1> HIDE DEF noFut
<1>7. /\ Len(<<>>) = 0 /\ (\A i \in 1 .. Len(<<>>) : FALSE)
      /\ <<>> \in Seq(Posts(c)) /\ <<>> \in Seq(Completions(c))
  OBVIOUS
<1>8. SharedType'
  <2>1. /\ conn' \in [Clients -> {"start", "built", "resolving", "connecting", "established", "exited"}]
        /\ outstanding_send_wr' \in [Clients -> Int]
    <3>1. /\ conn' = [conn EXCEPT ![c] = "exited"]
          /\ outstanding_send_wr' = [outstanding_send_wr EXCEPT ![c] = 0]
          /\ conn \in [Clients -> {"start", "built", "resolving", "connecting", "established", "exited"}]
          /\ outstanding_send_wr \in [Clients -> Int]
      BY <1>1, <1>2, ZenonT(40) DEF SharedType
    <3>2. ASSUME NEW T, NEW f \in [Clients -> T], NEW v \in T
          PROVE  [f EXCEPT ![c] = v] \in [Clients -> T]
      BY Zenon
    <3>3. 0 \in Int
      OBVIOUS
    <3> QED BY <3>1, <3>2, <3>3, ZenonT(40)
  <2>2. abandoned' \subseteq Addrs
    <3>1. Located(c) \subseteq Addrs
      BY <1>2, ZenonT(40) DEF ClientType, Located
    <3> QED
      BY <1>1, <1>2, <3>1, ZenonT(40) DEF SharedType
  <2> QED
    BY <1>1, <1>2, <2>1, <2>2, ZenonT(40) DEF SharedType
<1>9. ClientType(c)'
  <2>1. Len(poller'[c]) <= 1
    BY <1>5, <1>7
  <2> QED
    BY <1>5, <1>6, <1>7, <2>1, ZenonT(40) DEF ClientType
<1>10. Others(c)
  <2>1. ASSUME NEW d \in Clients, d # c
        PROVE  Same(d)
    <3>1. SameWire(d)
      BY <1>1, <1>2, <2>1, ZenonT(40) DEF SameWire, InScq, OnceInScq, SharedType
    <3> QED
      BY <1>1, <1>2, <2>1, <3>1, ZenonT(40) DEF Same, SharedType
  <2> QED
    BY <2>1, Zenon DEF Others
<1>11. CallShape(c)'
  BY <1>5, <1>6, ZenonT(40) DEF CallShape
<1>12. Stage(c, "none")'
  <2>1. spoller' = spoller /\ scq' = scq /\ recv_sem' = recv_sem /\ replies' = replies
    BY <1>1, ZenonT(40)
  <2>2. InScq(c)' = InScq(c) /\ OnceInScq(c)' = OnceInScq(c)
    BY <2>1, ZenonT(40) DEF InScq, OnceInScq
  <2>3. ~InCq(c)' /\ ~AtPoller(c)'
    BY <1>5, <1>7, ZenonT(40) DEF InCq, AtPoller
  <2>4. ~InScq(c) /\ OnceInScq(c) /\ spoller # <<c>> /\ Len(replies[c]) = 0 /\ ~recv_sem[c]
    BY <1>2, <1>4, ZenonT(40) DEF Stage
  <2> QED
    BY <1>5, <1>6, <1>7, <2>1, <2>2, <2>3, <2>4, ZenonT(40) DEF Stage
<1>13. Messages(c, "none")'
  BY <1>1, <1>4, <1>5, <1>6, ZenonT(40) DEF Messages, Answered
<1>14. Room(c, "none")'
  <2>1. Pending(c)' = 0
    <3>1. Pending(c)' = Len(<<>>) + Len(<<>>) + Len(<<>>) + Len(<<>>)
      BY <1>5, ZenonT(40) DEF Pending
    <3>2. 0 + 0 + 0 + 0 = 0
      OBVIOUS
    <3> QED
      BY <1>7, <3>1, <3>2, ZenonT(40)
  <2>2. 0 <= MAX_SEND_WR
    BY Numbers
  <2> QED
    BY <1>5, <1>6, <2>1, <2>2, ZenonT(40) DEF Room
<1>15. Located(c)' = {} /\ Moving(c, "none")' = {}
  BY <1>5, <1>6, ZenonT(40) DEF Located, Moving
<1>16. Own(c, "none")' = {} /\ Own(c, s) = Located(c)
  BY <1>4, <1>15, ZenonT(40) DEF Own
<1>17. Neat(c, "none")'
  BY <1>5, <1>7, <1>15, ZenonT(40) DEF Neat
<1>18. Futures(c)'
  <2>1. \A f : ~Carries(<<>>, f)
    BY <1>7, Zenon DEF Carries
  <2>2. Once(<<>>)
    BY <1>7, ZenonT(40) DEF Once
  <2>3. \A f \in 1 .. Depth : f # Sync
    BY Numbers
  <2> QED
    BY <1>5, <1>6, <2>1, <2>2, <2>3, ZenonT(40) DEF Futures
<1>19. Fresh(c)'
  <2>1. Holds(c)'
    BY <1>5, ZenonT(40) DEF Holds
  <2>2. \A F : Kinds(<<>>, F) /\ Got(<<>>, F) /\ \A m : WillGet(<<>>, m, F)
    BY <1>7, ZenonT(40) DEF Kinds, Got, WillGet
  <2> QED
    BY <1>5, <1>6, <2>1, <2>2, ZenonT(40) DEF Fresh
<1>20. ClientInv(c, "none")'
  BY <1>11, <1>12, <1>13, <1>14, <1>17, <1>18, <1>19, SMTT(30) DEF ClientInv
<1>21. allocated' = allocated /\ memory' = memory /\ abandoned' = abandoned \cup Own(c, s)
  BY <1>1, <1>16, ZenonT(40)
<1> QED
  BY <1>8, <1>9, <1>10, <1>16, <1>20, <1>21, SMTT(30) DEF Changed

\* Nothing the invariant is about changes.
LEMMA StillStep ==
    ASSUME IInv,
           UNCHANGED <<clientVars, wireVars, srecv_msg, scq, spoller, replies, allocated, memory, abandoned>>
    PROVE  IInv'
<1> USE DEF clientVars, wireVars
<1>1. PICK st \in [Clients -> Stages] : Owners(st) /\ \A c \in Clients : ClientInv(c, st[c])
  BY Zenon DEF IInv
<1>2. ASSUME NEW d \in Clients
      PROVE  ClientType(d)' /\ ClientInv(d, st[d])' /\ Own(d, st[d])' = Own(d, st[d])
  <2>1. SameWire(d)
    BY Zenon DEF SameWire, InScq, OnceInScq
  <2>2. Same(d)
    BY <2>1, Zenon DEF Same
  <2>3. st[d] \in Stages /\ ClientType(d) /\ ClientInv(d, st[d])
    BY <1>1, Zenon DEF IInv, TypeInv
  <2>4. memory' = memory
    BY Zenon
  <2> QED
    BY <2>2, <2>3, <2>4, Frame, ZenonT(40)
<1>3. SharedType'
  BY ZenonT(40) DEF IInv, TypeInv, SharedType
<1>4. Owners(st)'
  <2>1. allocated' = allocated /\ abandoned' = abandoned
    BY Zenon
  <2> QED
    BY <1>1, <1>2, <2>1, SMTT(40) DEF Owners
<1> QED
  BY <1>2, <1>3, <1>4, ZenonT(40) DEF IInv, TypeInv

\* Connecting, and the server's side of it: the client makes no call.
Connects(c) ==
    /\ conn[c] # "established" /\ conn' \in [Clients -> {"start", "built", "resolving", "connecting", "established", "exited"}]
    /\ srecv_msg' \in [Clients -> Msgs] /\ replies' \in [Clients -> Seq(Msgs)]
    /\ replies'[c] = replies[c] \/ replies'[c] = <<>>
    /\ \A d \in Clients : d # c => conn'[d] = conn[d] /\ srecv_msg'[d] = srecv_msg[d] /\ replies'[d] = replies[d]
    /\ scq' = scq \/ InScq(c)
    /\ UNCHANGED <<restVars, spoller, allocated>>

\* Such a step finds the client without an exchange, and leaves it so.
LEMMA ConnectStep ==
    ASSUME Dependable, TypeInv, NEW c \in Clients, NEW s \in Stages, ClientInv(c, s), Connects(c)
    PROVE  Kept(c, s, s)
<1>1. /\ conn[c] # "established" /\ conn' \in [Clients -> {"start", "built", "resolving", "connecting", "established", "exited"}]
      /\ srecv_msg' \in [Clients -> Msgs] /\ replies' \in [Clients -> Seq(Msgs)]
      /\ replies'[c] = replies[c] \/ replies'[c] = <<>>
      /\ \A d \in Clients : d # c => conn'[d] = conn[d] /\ srecv_msg'[d] = srecv_msg[d] /\ replies'[d] = replies[d]
      /\ scq' = scq \/ InScq(c)
      /\ UNCHANGED <<restVars, spoller, allocated>>
  BY Zenon DEF Connects
<1> USE DEF restVars, wireVars
<1>2. /\ CallShape(c) /\ Stage(c, s) /\ Messages(c, s) /\ Room(c, s) /\ Neat(c, s) /\ Futures(c)
      /\ Fresh(c) /\ ClientType(c) /\ SharedType
  BY Zenon DEF ClientInv, TypeInv
<1>3. Call(c).pc = "idle"
  BY <1>1, <1>2, ZenonT(40) DEF CallShape
<1>4. s = "none" /\ ~Sending(c) /\ Call(c) = AtRest
  BY <1>2, <1>3, AtRestStage, ZenonT(40)
<1>5. scq' = scq /\ Len(replies'[c]) = 0
  <2>1. ~InScq(c) /\ Len(replies[c]) = 0
    BY <1>2, <1>4, ZenonT(40) DEF Stage
  <2>2. Len(<<>>) = 0
    BY Zenon
  <2> QED
    BY <1>1, <2>1, <2>2, ZenonT(40)
<1>6. Call(c)' = Call(c) /\ Wanted(c)' = Wanted(c) /\ (Sending(c)' <=> Sending(c))
  BY <1>1, Zenon DEF Call, Wanted, Sending
<1>7. SharedType'
  BY <1>1, <1>2, <1>5, ZenonT(40) DEF SharedType
<1>8. ClientType(c)'
  BY <1>1, <1>2, <1>6, ZenonT(40) DEF ClientType
<1>9. Others(c)
  <2>1. ASSUME NEW d \in Clients, d # c
        PROVE  Same(d)
    <3>1. SameWire(d)
      BY <1>1, <1>5, <2>1, ZenonT(40) DEF SameWire, InScq, OnceInScq
    <3> QED
      BY <1>1, <3>1, ZenonT(40) DEF Same
  <2> QED
    BY <2>1, Zenon DEF Others
<1>10. CallShape(c)'
  BY <1>3, <1>4, <1>6, ZenonT(40) DEF CallShape
<1>11. Stage(c, s)'
  <2>1. sq' = sq /\ cq' = cq /\ poller' = poller /\ recv_sem' = recv_sem /\ spoller' = spoller
    BY <1>1, ZenonT(40)
  <2>2. /\ InCq(c)' = InCq(c) /\ AtPoller(c)' = AtPoller(c) /\ InScq(c)' = InScq(c) /\ OnceInScq(c)' = OnceInScq(c)
    BY <1>5, <2>1, ZenonT(40) DEF InCq, AtPoller, InScq, OnceInScq
  <2> QED
    BY <1>2, <1>4, <1>5, <1>6, <2>1, <2>2, SMTT(30) DEF Stage
<1>12. Messages(c, s)'
  BY <1>1, <1>2, <1>3, <1>4, <1>6, ZenonT(40) DEF Messages, Answered
<1>13. Room(c, s)'
  BY <1>1, <1>2, <1>6, ZenonT(40) DEF Room, Pending
<1>14. Located(c)' = Located(c) /\ Moving(c, s)' = Moving(c, s)
  BY <1>1, <1>3, <1>6, ZenonT(40) DEF Located, Moving
<1>15. Own(c, s)' = Own(c, s)
  BY <1>14, ZenonT(40) DEF Own
<1>16. Neat(c, s)'
  BY <1>1, <1>2, <1>14, <1>15, ZenonT(40) DEF Neat
<1>17. Futures(c)'
  BY <1>1, <1>2, <1>6, ZenonT(40) DEF Futures
<1>18. Holds(c)'
  BY <1>1, <1>2, <1>6, ZenonT(40) DEF Fresh, Holds
<1>19. Fresh(c)'
  BY <1>1, <1>2, <1>6, <1>18, ZenonT(40) DEF Fresh
<1> QED
  BY <1>1, <1>7, <1>8, <1>9, <1>10, <1>11, <1>12, <1>13, <1>15, <1>16, <1>17, <1>19, ZenonT(40) DEF Kept, ClientInv

\* The steps that connect or disconnect a client.
LEMMA ConnectionSteps ==
    ASSUME TypeInv, NEW c \in Clients,
           connect_rdma_cm(c) \/ ConnectRequest(c) \/ handle_disconnected(c)
    PROVE  Connects(c)
<1> USE DEF serverVars, clientVars, restVars, wireVars
<1>1. /\ conn \in [Clients -> {"start", "built", "resolving", "connecting", "established", "exited"}]
      /\ srecv_msg \in [Clients -> Msgs] /\ replies \in [Clients -> Seq(Msgs)]
  BY Zenon DEF TypeInv, SharedType
<1>2. CASE build_connection(c)
  BY <1>1, <1>2, ZenonT(40) DEF build_connection, Connects
<1>3. CASE setup_memory(c)
  BY <1>1, <1>3, ZenonT(40) DEF setup_memory, Connects
<1>4. CASE RouteResolved(c)
  BY <1>1, <1>4, ZenonT(40) DEF RouteResolved, Connects
<1>5. CASE Established(c)
  BY <1>1, <1>5, ZenonT(40) DEF Established, Connects
<1>6. CASE ConnectRequest(c)
  <2>1. NoMsg \in Msgs
    BY Zenon DEF NoMsg, Msgs, Cells
  <2> QED
    BY <1>1, <1>6, <2>1, ZenonT(40) DEF ConnectRequest, create_connection_context, Connects
<1>7. CASE handle_disconnected(c)
  <2>1. scq' = scq \/ InScq(c)
    BY <1>7, ZenonT(40) DEF handle_disconnected, InScq
  <2>2. <<>> \in Seq(Msgs)
    OBVIOUS
  <2> QED
    BY <1>1, <1>7, <2>1, <2>2, ZenonT(40) DEF handle_disconnected, Connects
<1> QED
  BY <1>2, <1>3, <1>4, <1>5, <1>6, <1>7, SMTT(30) DEF connect_rdma_cm

-----------------------------------------------------------------------------
(* The invariant is inductive.                                             *)

\* Every step of a client's thread.
LEMMA ThreadSteps ==
    ASSUME Dependable, TypeInv, NEW c \in Clients, NEW s \in Stages, ClientInv(c, s),
           UserCall(User(c)) \/ ThreadStep(User(c))
    PROVE  \E z \in Stages : Kept(c, s, z)
<1> USE DEF Stages
<1>1. CASE CopyMessage(User(c))
  BY <1>1, CopyStep, ZenonT(40)
<1>2. CASE post_receive(User(c))
  BY <1>2, PostReceiveStep, SMTT(30)
<1>3. CASE CheckLimit(User(c))
  BY <1>3, CheckStep, Zenon
<1>4. CASE Refused(User(c))
  BY <1>4, RefusedStep, Zenon
<1>5. CASE post_send(User(c))
  <2>1. Wanted(c).op \in {"send", "write", "read"}
    <3>1. Call(c).pc = "queue"
      BY <1>5, ZenonT(40) DEF post_send, At, Call
    <3>2. Len(Call(c).wr) = 1 /\ Call(c).wr \in Seq(Posts(c))
      BY <3>1, ZenonT(40) DEF ClientInv, CallShape, TypeInv, ClientType, CallType
    <3>3. Wanted(c) \in Posts(c)
      BY <3>2, OneElement, ZenonT(40) DEF Wanted
    <3> QED
      BY <3>3, Zenon DEF Posts
  <2>2. CASE Wanted(c).op = "send"
    BY <1>5, <2>2, PostSendStep, ZenonT(40)
  <2>3. CASE Wanted(c).op = "write"
    BY <1>5, <2>3, PostWriteStep, ZenonT(40)
  <2>4. CASE Wanted(c).op = "read"
    BY <1>5, <2>4, PostReadStep, SMTT(30)
  <2> QED
    BY <2>1, <2>2, <2>3, <2>4, ZenonT(40)
<1>6. CASE WaitSent(User(c))
  BY <1>6, WaitSentStep, Zenon
<1>7. CASE WaitReply(User(c))
  BY <1>7, WaitReplyStep, SMTT(30)
<1>8. CASE Allocated(User(c))
  BY <1>8, AllocatedStep, Zenon
<1>9. CASE Deallocated(User(c))
  BY <1>9, DeallocatedStep, Zenon
<1>10. User(c)[1] = c
  BY OneUser, Zenon
<1>11. CASE \E oid \in ObjectID, v \in ValuesOf[User(c)[1]] : write_sync(User(c), oid, v)
  <2>1. PICK oid \in ObjectID, v \in ValuesOf[c] : write_sync(User(c), oid, v)
    BY <1>10, <1>11, ZenonT(40)
  <2>2. Write(User(c), oid, v, Sync) /\ UNCHANGED fut /\ Sync \in 0 .. Depth
    BY <2>1, Numbers, ZenonT(40) DEF write_sync
  <2> QED
    BY <2>2, WriteStep, ZenonT(40)
<1>12. CASE \E oid \in ObjectID, v \in ValuesOf[User(c)[1]], f \in 1 .. Depth : write_async(User(c), oid, v, f)
  <2>1. PICK oid \in ObjectID, v \in ValuesOf[c], f \in 1 .. Depth : write_async(User(c), oid, v, f)
    BY <1>10, <1>12, ZenonT(40)
  <2>2. Write(User(c), oid, v, f) /\ f \in FreeFutures(User(c)) /\ Claim(User(c), f, FALSE)
    BY <2>1, ZenonT(40) DEF write_async
  <2>3. f \in 0 .. Depth
    BY Numbers
  <2> QED
    BY <2>2, <2>3, WriteStep, ZenonT(40)
<1>13. CASE \E oid \in ObjectID, f \in 1 .. Depth : read_async(User(c), oid, f)
  BY <1>13, ReadStep, ZenonT(40)
<1>14. CASE \E oid \in ObjectID : remove(User(c), oid)
  BY <1>14, RemoveStep, ZenonT(40)
<1>15. CASE \E f \in 1 .. Depth : wait(User(c), f)
  BY <1>15, WaitStep, ZenonT(40)
<1> QED
  BY <1>1, <1>2, <1>3, <1>4, <1>5, <1>6, <1>7, <1>8, <1>9, <1>11, <1>12, <1>13, <1>14, <1>15, ZenonT(40)
     DEF UserCall, ThreadStep

\* Every other step about one client that leaves it its cells.
LEMMA WireSteps ==
    ASSUME Dependable, TypeInv, NEW c \in Clients, NEW s \in Stages, ClientInv(c, s),
           \/ connect_rdma_cm(c) \/ ConnectRequest(c) \/ handle_disconnected(c)
           \/ Card(c) \/ poll_cq(c) \/ on_completion(c)
    PROVE  \E z \in Stages : Kept(c, s, z)
<1> USE DEF Stages
<1>1. CASE connect_rdma_cm(c) \/ ConnectRequest(c) \/ handle_disconnected(c)
  BY <1>1, ConnectionSteps, ConnectStep, ZenonT(40)
<1>2. CASE Execute(c)
  <2>1. CASE Head(sq[c]).op = "send"
    BY <1>2, <2>1, ExecuteSendStep, ZenonT(40)
  <2>2. CASE Head(sq[c]).op # "send"
    BY <1>2, <2>2, ExecuteOtherStep, ZenonT(40)
  <2> QED
    BY <2>1, <2>2, ZenonT(40)
<1>3. CASE Acknowledge(c)
  BY <1>3, AcknowledgeStep, ZenonT(40)
<1>4. CASE DeliverReply(c)
  BY <1>4, DeliverReplyStep, ZenonT(40)
<1>5. CASE poll_cq(c)
  BY <1>5, PollStep, ZenonT(40)
<1>6. CASE on_completion(c)
  BY <1>6, CompletionStep, ZenonT(40)
<1> QED
  BY <1>1, <1>2, <1>3, <1>4, <1>5, <1>6, ZenonT(40) DEF Card

\* A step that leaves a client its cells keeps the invariant.
LEMMA KeptKeeps ==
    ASSUME TypeInv, NEW st \in [Clients -> Stages], Staged(st), Owners(st), NEW c \in Clients,
           \E z \in Stages : Kept(c, st[c], z)
    PROVE  IInv'
<1>1. PICK z \in Stages : Kept(c, st[c], z)
  BY Zenon
<1> QED
  BY <1>1, Together, ZenonT(40) DEF Kept

\* Every step keeps it.
LEMMA NextInv ==
    ASSUME Dependable, IInv, [Next]_vars
    PROVE  IInv'
<1>1. PICK st \in [Clients -> Stages] : Owners(st) /\ \A c \in Clients : ClientInv(c, st[c])
  BY Zenon DEF IInv
<1>2. TypeInv /\ Staged(st) /\ \A c \in Clients : st[c] \in Stages /\ ClientInv(c, st[c])
  BY <1>1, ZenonT(40) DEF IInv, Staged
<1>3. ASSUME NEW t \in Threads, UserCall(t) \/ ThreadStep(t)
      PROVE  IInv'
  <2>1. PICK c \in Clients : t = User(c)
    BY OneUser, Zenon
  <2>2. UserCall(User(c)) \/ ThreadStep(User(c))
    BY <1>3, <2>1, ZenonT(40)
  <2>3. \E z \in Stages : Kept(c, st[c], z)
    BY <1>2, <2>2, ThreadSteps, ZenonT(40)
  <2> QED
    BY <1>1, <1>2, <2>3, KeptKeeps, ZenonT(40)
<1>4. ASSUME NEW c \in Clients,
             \/ connect_rdma_cm(c) \/ ConnectRequest(c) \/ handle_disconnected(c)
             \/ Card(c) \/ poll_cq(c) \/ on_completion(c)
      PROVE  IInv'
  <2>1. \E z \in Stages : Kept(c, st[c], z)
    BY <1>2, <1>4, WireSteps, ZenonT(40)
  <2> QED
    BY <1>1, <1>2, <2>1, KeptKeeps, ZenonT(40)
<1>5. ASSUME NEW c \in Clients, handle_established(c)
      PROVE  IInv'
  BY <1>5, StillStep, ZenonT(40) DEF handle_established
<1>6. ASSUME NEW c \in Clients, Exit(c)
      PROVE  IInv'
  <2>1. "none" \in Stages
    BY Zenon DEF Stages
  <2>2. Changed(c, st[c], "none")
    <3>1. Own(c, st[c]) \subseteq allocated \ abandoned /\ abandoned \subseteq allocated
      BY <1>1, Zenon DEF Owners
    <3> QED
      BY <1>2, <1>6, <3>1, ExitStep, ZenonT(40)
  <2> QED
    BY <1>1, <1>2, <2>1, <2>2, Regroup, ZenonT(40)
<1>7. ASSUME ServerPoll
      PROVE  IInv'
  <2>1. PICK c : c = Head(scq)
    BY Zenon
  <2>2. c \in Clients
    BY <1>2, <1>7, <2>1, ScqLess, ZenonT(40) DEF ServerPoll, TypeInv, SharedType
  <2>3. Kept(c, st[c], "spoller") /\ "spoller" \in Stages
    BY <1>2, <1>7, <2>1, <2>2, ServerPollStep, ZenonT(40) DEF Stages
  <2> QED
    BY <1>1, <1>2, <2>2, <2>3, KeptKeeps, ZenonT(40)
<1>8. ASSUME ServerCompletion
      PROVE  IInv'
  <2>1. PICK c : c = spoller[1]
    BY Zenon
  <2>2. c \in Clients
    <3>1. spoller \in Seq(Clients) /\ spoller # <<>>
      BY <1>2, <1>8, ZenonT(40) DEF ServerCompletion, TypeInv, SharedType
    <3>2. spoller[1] \in Clients
      BY <3>1
    <3> QED
      BY <2>1, <3>2, ZenonT(40)
  <2>3. "replies" \in Stages
    BY Zenon DEF Stages
  <2>4. Own(c, st[c]) \subseteq allocated \ abandoned /\ abandoned \subseteq allocated
    BY <1>1, <2>2, ZenonT(40) DEF Owners
  <2>5. Changed(c, st[c], "replies")
    BY <1>2, <1>8, <2>1, <2>2, <2>4, AnswerStep, ZenonT(40)
  <2> QED
    BY <1>1, <1>2, <2>2, <2>3, <2>5, Regroup, ZenonT(40)
<1>9. CASE UNCHANGED vars
  BY <1>9, StillStep, ZenonT(40) DEF vars, serverVars
<1> QED
  BY <1>3, <1>4, <1>5, <1>6, <1>7, <1>8, <1>9, SMTT(30) DEF Next, ServerLoop

\* It holds before any client connects.
LEMMA InitInv ==
    ASSUME Dependable, Init
    PROVE  IInv
<1> USE DEF Init
<1>1. /\ <<>> \in Seq(Clients) /\ <<>> \in Seq(Msgs) /\ Len(<<>>) = 0 /\ \A i \in 1 .. Len(<<>>) : FALSE
      /\ \A c : <<>> \in Seq(Posts(c)) /\ <<>> \in Seq(Completions(c))
  OBVIOUS
<1>2. outstanding_send_wr \in [Clients -> Int] /\ \A c \in Clients : outstanding_send_wr[c] = 0
  <2>1. outstanding_send_wr \in [Clients -> {0}]
    BY Zenon DEF Dependable, InitialCounts
  <2>2. \A c \in Clients : outstanding_send_wr[c] = 0
    BY <2>1, ZenonT(40)
  <2>3. 0 \in Int
    OBVIOUS
  <2> QED
    BY <2>1, <2>2, <2>3, ZenonT(40)
<1>3. SharedType
  <2>1. NoMsg \in Msgs
    BY Zenon DEF NoMsg, Msgs, Cells
  <2>2. memory \in [Addrs -> Vals]
    BY Numbers, Zenon
  <2> QED
    BY <1>1, <1>2, <2>1, <2>2, SMTT(30) DEF SharedType
<1>4. ASSUME NEW c \in Clients
      PROVE  /\ User(c) \in Threads /\ Call(c) = AtRest /\ DOMAIN objects_[c] = {} /\ DOMAIN written[c] = {}
             /\ sq[c] = <<>> /\ unacked[c] = <<>> /\ cq[c] = <<>> /\ poller[c] = <<>>
             /\ replies[c] = <<>> /\ recvs[c] = 0 /\ conn[c] = "start" /\ ~recv_sem[c]
             /\ fut[User(c)] \in [1 .. Depth -> FutureType] /\ \A f \in 1 .. Depth : ~fut[User(c)][f].busy
             /\ AtRest \in CallType(c) /\ AtRest.pc = "idle" /\ AtRest.fut = Sync /\ ~Sending(c)
  <2>1. User(c) \in Threads
    BY OneUser, Zenon
  <2>2. Call(c) = AtRest /\ fut[User(c)] = [i \in 1 .. Depth |-> NoFuture]
    BY <2>1, ZenonT(40) DEF Call
  <2>3. AtRest \in CallType(c) /\ AtRest.pc = "idle" /\ AtRest.fut = Sync /\ AtRest.wr = <<>>
    BY <1>1, Numbers, ZenonT(40) DEF AtRest, CallType
  <2>4. NoFuture \in FutureType /\ ~NoFuture.busy
    BY Numbers, Zenon DEF NoFuture, FutureType
  <2>5. ~Sending(c)
    BY <2>2, <2>3, ZenonT(40) DEF Sending
  <2>6. fut[User(c)] \in [1 .. Depth -> FutureType] /\ \A f \in 1 .. Depth : ~fut[User(c)][f].busy
    BY <2>2, <2>4, ZenonT(40)
  <2> QED
    BY <2>1, <2>2, <2>3, <2>5, <2>6, ZenonT(40)
<1>5. ASSUME NEW c \in Clients
      PROVE  ClientType(c) /\ ClientInv(c, "none") /\ Own(c, "none") = {}
  <2>1. ClientType(c)
    <3>1. Len(poller[c]) <= 1
      BY <1>1, <1>4
    <3> QED
      BY <1>1, <1>4, <3>1, ZenonT(40) DEF ClientType
  <2>2. CallShape(c)
    BY <1>4, ZenonT(40) DEF CallShape
  <2>3. Stage(c, "none")
    <3>1. ~InScq(c) /\ OnceInScq(c)
      BY <1>1, ZenonT(40) DEF InScq, OnceInScq
    <3>2. ~InCq(c) /\ ~AtPoller(c)
      BY <1>1, <1>4, ZenonT(40) DEF InCq, AtPoller
    <3>3. spoller # <<c>>
      BY Zenon
    <3> QED
      BY <1>1, <1>4, <3>1, <3>2, <3>3, ZenonT(40) DEF Stage
  <2>4. Messages(c, "none")
    BY <1>4, ZenonT(40) DEF Messages, Answered
  <2>5. Room(c, "none")
    <3>1. Pending(c) = Len(<<>>) + Len(<<>>) + Len(<<>>) + Len(<<>>)
      BY <1>4, ZenonT(40) DEF Pending
    <3>2. 0 + 0 + 0 + 0 = 0 /\ 0 <= MAX_SEND_WR
      BY Numbers
    <3> QED
      BY <1>1, <1>2, <1>4, <3>1, <3>2, ZenonT(40) DEF Room
  <2>6. Located(c) = {} /\ Moving(c, "none") = {}
    BY <1>4, ZenonT(40) DEF Located, Moving
  <2>7. Neat(c, "none") /\ Own(c, "none") = {}
    BY <1>1, <1>4, <2>6, ZenonT(40) DEF Neat, Own
  <2>8. Futures(c)
    <3>1. (\A f : ~Carries(<<>>, f)) /\ Once(<<>>)
      BY <1>1, ZenonT(40) DEF Carries, Once
    <3>2. \A f \in 1 .. Depth : f # Sync
      BY Numbers
    <3> QED
      BY <1>4, <3>1, <3>2, SMTT(40) DEF Futures
  <2>9. Fresh(c)
    <3>1. Holds(c)
      BY <1>4, ZenonT(40) DEF Holds
    <3>2. \A F : Kinds(<<>>, F) /\ Got(<<>>, F) /\ \A m : WillGet(<<>>, m, F)
      BY <1>1, ZenonT(40) DEF Kinds, Got, WillGet
    <3> QED
      BY <1>4, <3>1, <3>2, ZenonT(40) DEF Fresh
  <2> QED
    BY <2>1, <2>2, <2>3, <2>4, <2>5, <2>7, <2>8, <2>9, SMTT(30) DEF ClientInv
<1>6. PICK st \in [Clients -> Stages] : \A c \in Clients : st[c] = "none"
  <2>1. [c \in Clients |-> "none"] \in [Clients -> Stages]
    BY Zenon DEF Stages
  <2> QED
    BY <2>1, ZenonT(40)
<1>7. Owners(st)
  BY <1>5, <1>6, ZenonT(40) DEF Owners
<1> QED
  BY <1>3, <1>5, <1>6, <1>7, ZenonT(40) DEF IInv, TypeInv

-----------------------------------------------------------------------------
(* What follows from it.                                                   *)

\* The send requests in a queue that holds no answer.
LEMMA AllSends ==
    ASSUME NEW S, NEW q \in Seq(S), ~HasRecv(q)
    PROVE  Sends(q) = Len(q)
<1> DEFINE n == Len(q)
<1>1. {i \in 1 .. n : q[i].op # "recv"} = 1 .. n
  BY Zenon DEF HasRecv
<1>2. n \in Nat
  OBVIOUS
<1>3. Sends(q) = Cardinality(1 .. n)
  BY <1>1, ZenonT(40) DEF Sends
<1> HIDE DEF n
<1>4. Cardinality(1 .. n) = IF 1 > n THEN 0 ELSE n - 1 + 1
  BY <1>2, FS_Interval, SMTT(40)
<1>5. Cardinality(1 .. n) = n
  BY <1>2, <1>4
<1> QED
  BY <1>3, <1>5, ZenonT(40) DEF n

\* And in one that holds the answer.
LEMMA AllButOne ==
    ASSUME NEW S, NEW q \in Seq(S), HasRecv(q), OneRecv(q)
    PROVE  Sends(q) + 1 = Len(q) /\ Sends(q) \in Nat
<1> DEFINE n == Len(q)
<1>1. PICK j \in 1 .. n : q[j].op = "recv"
  BY Zenon DEF HasRecv
<1>2. {i \in 1 .. n : q[i].op # "recv"} = (1 .. n) \ {j}
  BY <1>1, Zenon DEF OneRecv
<1>3. n \in Nat
  OBVIOUS
<1>4. Sends(q) = Cardinality((1 .. n) \ {j})
  BY <1>2, ZenonT(40) DEF Sends
<1> HIDE DEF n
<1>5. IsFiniteSet(1 .. n) /\ Cardinality(1 .. n) = IF 1 > n THEN 0 ELSE n - 1 + 1
  BY <1>3, FS_Interval, SMTT(40)
<1>6. Cardinality(1 .. n) = n
  BY <1>3, <1>5
<1>7. Cardinality((1 .. n) \ {j}) = Cardinality(1 .. n) - 1
  BY <1>1, <1>5, FS_RemoveElement, ZenonT(40)
<1>8. Sends(q) = n - 1
  BY <1>4, <1>6, <1>7, ZenonT(40)
<1>9. Sends(q) + 1 = n /\ Sends(q) \in Nat
  BY <1>1, <1>3, <1>8, SMTT(40)
<1> QED
  BY <1>9, Zenon DEF n

\* outstanding_send_wr is exact for a client at any stage of an exchange.
LEMMA CountOne ==
    ASSUME NEW c \in Clients, NEW s \in Stages, SharedType, ClientType(c), ClientInv(c, s)
    PROVE  outstanding_send_wr[c] = Sends(sq[c]) + Sends(unacked[c]) + Sends(cq[c]) + Sends(poller[c])
<1>1. /\ sq[c] \in Seq(Posts(c)) /\ unacked[c] \in Seq(Posts(c))
      /\ cq[c] \in Seq(Completions(c)) /\ poller[c] \in Seq(Completions(c)) /\ Len(poller[c]) <= 1
      /\ outstanding_send_wr[c] \in Int /\ Stage(c, s) /\ Room(c, s)
  BY ZenonT(40) DEF ClientType, SharedType, ClientInv
<1>2. ~HasRecv(sq[c]) /\ ~HasRecv(unacked[c])
  <2>1. \A p \in Posts(c) : p.op # "recv"
    BY Zenon DEF Posts
  <2> QED
    BY <1>1, <2>1 DEF HasRecv
<1>3. (HasRecv(cq[c]) <=> s = "cq") /\ OneRecv(cq[c])
  BY <1>1, ZenonT(40) DEF HasRecv, OneRecv, Stage, InCq
<1>4. (HasRecv(poller[c]) <=> s = "poller") /\ OneRecv(poller[c])
  <2> DEFINE p == poller[c]
             n == Len(p)
  <2>1. p \in Seq(Completions(c)) /\ n \in Nat /\ n <= 1
    BY <1>1
  <2> HIDE DEF n
  <2>2. \A i \in 1 .. n : i = 1 /\ n = 1
    BY <2>1
  <2>3. n = 1 <=> p # <<>>
    <3>1. p = <<>> => n = 0
      BY DEF n
    <3>2. n = 0 => p = <<>>
      BY <2>1, NoElement, ZenonT(40) DEF n
    <3> QED
      BY <2>1, <3>1, <3>2, SMTT(40)
  <2>4. n = 1 => 1 \in 1 .. n
    OBVIOUS
  <2>5. HasRecv(p) <=> AtPoller(c)
    BY <2>2, <2>3, <2>4, ZenonT(40) DEF HasRecv, AtPoller, n
  <2>6. OneRecv(p)
    BY <2>2, ZenonT(40) DEF OneRecv, n
  <2> QED
    BY <1>1, <2>5, <2>6, ZenonT(40) DEF Stage
<1> DEFINE a == Sends(sq[c])
           b == Sends(unacked[c])
           d == Sends(cq[c])
           e == Sends(poller[c])
           k == Len(cq[c])
           l == Len(poller[c])
           o == outstanding_send_wr[c]
<1>5. a = Len(sq[c]) /\ b = Len(unacked[c])
  BY <1>1, <1>2, AllSends, ZenonT(40)
<1>6. IF s = "cq" THEN d + 1 = k ELSE d = k
  BY <1>1, <1>3, AllSends, AllButOne, ZenonT(40)
<1>7. IF s = "poller" THEN e + 1 = l ELSE e = l
  BY <1>1, <1>4, AllSends, AllButOne, ZenonT(40)
<1>8. a + b + k + l = IF s \in {"cq", "poller"} THEN o + 1 ELSE o
  BY <1>1, <1>5, ZenonT(40) DEF Room, Pending
<1>9. a \in Nat /\ b \in Nat /\ k \in Nat /\ l \in Nat /\ o \in Int
  BY <1>1, <1>5, SMTT(40)
<1>10. d \in Int /\ e \in Int
  <2>1. d \in Nat
    BY <1>1, <1>3, <1>6, <1>9, AllButOne, ZenonT(40)
  <2>2. e \in Nat
    BY <1>1, <1>4, <1>7, <1>9, AllButOne, ZenonT(40)
  <2> QED
    BY <2>1, <2>2
<1> HIDE DEF a, b, d, e, k, l, o
<1>11. o = a + b + d + e
  <2>1. CASE s = "cq"
    BY <1>6, <1>7, <1>8, <1>9, <1>10, <2>1, SMTT(30)
  <2>2. CASE s = "poller"
    BY <1>6, <1>7, <1>8, <1>9, <1>10, <2>2, SMTT(30)
  <2>3. CASE s \notin {"cq", "poller"}
    BY <1>6, <1>7, <1>8, <1>9, <1>10, <2>3, SMTT(30)
  <2> QED
    BY <2>1, <2>2, <2>3, ZenonT(40)
<1> QED
  BY <1>11, ZenonT(40) DEF a, b, d, e, o

\* The invariant gives the four properties.
LEMMA InvGives ==
    ASSUME Dependable, IInv
    PROVE  DisjointObjects /\ MemoryAccounted /\ ReadsFresh /\ CountExact
<1>1. PICK st \in [Clients -> Stages] : Owners(st) /\ \A c \in Clients : ClientInv(c, st[c])
  BY Zenon DEF IInv
<1>2. SharedType /\ \A c \in Clients : ClientType(c)
  BY Zenon DEF IInv, TypeInv
<1>3. DisjointObjects
  <2>1. ASSUME NEW p \in Clients \X ObjectID, NEW q \in Clients \X ObjectID,
               p[2] \in DOMAIN objects_[p[1]], q[2] \in DOMAIN objects_[q[1]], p # q
        PROVE  objects_[p[1]][p[2]] # objects_[q[1]][q[2]]
    <3>1. CASE p[1] = q[1]
      <4>1. p[2] # q[2]
        BY <2>1, <3>1, SMTT(40)
      <4>2. Neat(p[1], st[p[1]])
        BY <1>1, ZenonT(40) DEF ClientInv
      <4> QED
        BY <2>1, <3>1, <4>1, <4>2, ZenonT(40) DEF Neat
    <3>2. CASE p[1] # q[1]
      <4>1. objects_[p[1]][p[2]] \in Own(p[1], st[p[1]]) /\ objects_[q[1]][q[2]] \in Own(q[1], st[q[1]])
        BY <2>1, ZenonT(40) DEF Own, Located
      <4>2. Own(p[1], st[p[1]]) \cap Own(q[1], st[q[1]]) = {}
        BY <1>1, <3>2, ZenonT(40) DEF Owners
      <4> QED
        BY <4>1, <4>2, ZenonT(40)
    <3> QED
      BY <3>1, <3>2, ZenonT(40)
  <2>2. ASSUME NEW p \in Clients \X ObjectID, p[2] \in DOMAIN objects_[p[1]]
        PROVE  objects_[p[1]][p[2]] \in allocated
    <3>1. objects_[p[1]][p[2]] \in Own(p[1], st[p[1]])
      BY <2>2, ZenonT(40) DEF Own, Located
    <3> QED
      BY <1>1, <3>1, ZenonT(40) DEF Owners
  <2> QED
    BY <2>1, <2>2, ZenonT(40) DEF DisjointObjects
<1>4. MemoryAccounted
  <2> SUFFICES ASSUME \A c \in Clients : ~Busy(c)
               PROVE  allocated = abandoned \cup UNION {Located(c) : c \in Clients}
    BY Zenon DEF MemoryAccounted
  <2>1. ASSUME NEW c \in Clients
        PROVE  Own(c, st[c]) = Located(c)
    <3>1. Call(c).pc = "idle"
      BY OneUser, ZenonT(40) DEF Busy, Call
    <3>2. Moving(c, st[c]) = {}
      BY <1>1, <3>1, AtRestStage, ZenonT(40) DEF ClientInv
    <3> QED
      BY <3>2, ZenonT(40) DEF Own
  <2> QED
    BY <1>1, <2>1, SMTT(40) DEF Owners
<1>5. ReadsFresh
  <2>1. ASSUME NEW t \in Threads
        PROVE  \A f \in 1 .. Depth : fut[t][f].busy /\ fut[t][f].done /\ fut[t][f].read =>
                 fut[t][f].val = fut[t][f].expect /\ fut[t][f].val # Junk
    <3>1. PICK c \in Clients : t = User(c)
      BY OneUser, ZenonT(40)
    <3>2. Fresh(c)
      BY <1>1, ZenonT(40) DEF ClientInv
    <3> QED
      BY <3>1, <3>2, ZenonT(40) DEF Fresh
  <2> QED
    BY <2>1, ZenonT(40) DEF ReadsFresh
<1>6. CountExact
  <2>1. ASSUME NEW c \in Clients
        PROVE  /\ outstanding_send_wr[c] =
                     Sends(sq[c]) + Sends(unacked[c]) + Sends(cq[c]) + Sends(poller[c])
               /\ outstanding_send_wr[c] <= MAX_SEND_WR
               /\ Len(replies[c]) <= recvs[c]
               /\ recvs[c] <= NThreads
    <3>1. st[c] \in Stages /\ ClientInv(c, st[c]) /\ ClientType(c)
      BY <1>1, <1>2, ZenonT(40)
    <3>2. outstanding_send_wr[c] = Sends(sq[c]) + Sends(unacked[c]) + Sends(cq[c]) + Sends(poller[c])
      BY <1>2, <3>1, CountOne, ZenonT(40)
    <3>3. outstanding_send_wr[c] <= MAX_SEND_WR
      BY <3>1, ZenonT(40) DEF ClientInv, Room
    <3>4. recvs[c] \in {0, 1} /\ (st[c] = "replies" => recvs[c] = 1)
      BY <3>1, ZenonT(40) DEF ClientInv, Messages
    <3>5. Len(replies[c]) = IF st[c] = "replies" THEN 1 ELSE 0
      BY <3>1, ZenonT(40) DEF ClientInv, Stage
    <3>6. NThreads = 1
      BY Zenon DEF Dependable
    <3> QED
      BY <3>2, <3>3, <3>4, <3>5, <3>6, SMTT(30)
  <2> QED
    BY <2>1, ZenonT(40) DEF CountExact
<1> QED
  BY <1>3, <1>4, <1>5, <1>6, ZenonT(40)

\* Every reachable state satisfies the invariant.
LEMMA Invariant ==
    ASSUME Dependable
    PROVE  Spec => []IInv
<1>1. Init => IInv
  BY InitInv, Zenon
<1>2. IInv /\ [Next]_vars => IInv'
  BY NextInv, Zenon
<1> QED
  BY <1>1, <1>2, PTL DEF Spec

\* No two objects share memory, and the server regards all of it as handed out:
\* allocate, remove and process_message agree on who owns a cell.
THEOREM ObjectsAreDisjoint ==
    ASSUME Dependable
    PROVE  Spec => []DisjointObjects
<1>1. IInv => DisjointObjects
  BY InvGives, ZenonT(40)
<1> QED
  BY <1>1, Invariant, PTL

\* Between calls the pool holds exactly the objects the clients know and those of
\* clients that exited: no allocation or deallocation is lost or done twice.
THEOREM MemoryIsAccounted ==
    ASSUME Dependable
    PROVE  Spec => []MemoryAccounted
<1>1. IInv => MemoryAccounted
  BY InvGives, ZenonT(40)
<1> QED
  BY <1>1, Invariant, PTL

\* A read returns the value of the last write posted before it, although
\* write_sync does not wait and cells are reused.
THEOREM ReadsAreFresh ==
    ASSUME Dependable
    PROVE  Spec => []ReadsFresh
<1>1. IInv => ReadsFresh
  BY InvGives, ZenonT(40)
<1> QED
  BY <1>1, Invariant, PTL

\* outstanding_send_wr counts the send requests posted and not completed and
\* stays within MAX_SEND_WR; every reply finds a receive.
THEOREM CountIsExact ==
    ASSUME Dependable
    PROVE  Spec => []CountExact
<1>1. IInv => CountExact
  BY InvGives, Zenon
<1> QED
  BY <1>1, Invariant, PTL
=============================================================================
