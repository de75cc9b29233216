------------------------------ MODULE TCPServer ------------------------------
(***************************************************************************)
(* TCPServer: the single-threaded storage server.  loop() polls a table of *)
(* descriptors, accepts connections, and hands each readable one to        *)
(* process(), which reads one request, applies it to the storage backend,  *)
(* accounts for the bytes used and sends the reply.                        *)
(*                                                                         *)
(* The clients and the sockets are the environment: they connect, send     *)
(* requests, read replies and leave while the server is anywhere in its    *)
(* loop.  A connection is named by its client.                             *)
(***************************************************************************)
EXTENDS Integers, Sequences, FiniteSets

CONSTANTS
    Clients,     \* connections (model values)
    ObjectIDs,    \* ids of objects
    Objects,     \* serialized objects
    Size,        \* their sizes in bytes
    pool_size,   \* "Maximum number of bytes that can be stored in the pool"
    WordSize,    \* number of values of the unsigned type of curr_size
    max_fds,     \* slots of the descriptor table, the listening socket's included
    Requests,    \* requests the clients send
    Backend,     \* "Memory" or "Storage"
    MaxQueued,   \* bound: requests and replies under way on one connection
    Faults,      \* how clients fail: subset of {"abandon", "reset", "torn"}
    Restarts     \* TRUE: the server process may be killed and started again

AllRequests ==
    [op : {"Write"}, oid : ObjectIDs, data : Objects]
    \cup [op : {"WriteBulk"}, units : Seq(ObjectIDs \X Objects)]
    \cup [op : {"Read", "Remove"}, oid : ObjectIDs]
    \cup [op : {"ReadBulk"}, oids : Seq(ObjectIDs)]

ASSUME ServerAssumption ==
    /\ Clients \cap {"listen", "-1", "0"} = {}
    /\ Size \in [Objects -> Nat]
    /\ pool_size \in Nat
    /\ WordSize \in Nat \ {0}
    /\ \A o \in Objects : pool_size + Size[o] < WordSize
    /\ max_fds \in Nat \ {0, 1}
    /\ Requests \subseteq AllRequests
    /\ Backend \in {"Memory", "Storage"}
    /\ MaxQueued \in Nat
    /\ Faults \subseteq {"abandon", "reset", "torn"}
    /\ Restarts \in BOOLEAN

VARIABLES
    mem,          \* the backend: oid -> object
    curr_size,    \* "Number of bytes currently in the pool"
    lost,         \* bytes of the pool that were taken off curr_size (history)
    fds,          \* the table: a client, "listen", "-1" or (never used) "0"
    revents,      \* what poll reported for every slot
    curr_index,   \* slots in use
    pc,           \* "poll", "scan", "bulk", or where the server has stopped
    at,           \* the slot the scan is at
    job,          \* the rest of a WriteBulk, and whether it went well so far
    backlog,      \* connections waiting for accept, oldest first
    conn,         \* state of each connection at the server's end
    peer,         \* state of each connection at the client's end
    inbox,        \* requests sent to the server and not read yet
    outbox        \* replies sent to the client and not read yet

store == <<mem, curr_size, lost>>
table == <<fds, revents, curr_index>>
sockets == <<backlog, conn, peer, inbox, outbox>>
serverVars == <<mem, curr_size, lost, fds, revents, curr_index, pc, at, job, backlog, conn,
                peer, inbox, outbox>>

-----------------------------------------------------------------------------
(* The clients and their sockets.                                          *)

\* A message cut short by the death of its sender.
Torn == [op |-> "torn"]

Connect(c) ==
    /\ conn[c] = "none"
    /\ conn' = [conn EXCEPT ![c] = "backlog"]
    /\ peer' = [peer EXCEPT ![c] = "up"]
    /\ backlog' = Append(backlog, c)
    /\ UNCHANGED <<store, table, pc, at, job, inbox, outbox>>

\* A client sends as soon as it is connected, accepted or not.
Send(c, m) ==
    /\ conn[c] \in {"backlog", "open"}
    /\ peer[c] = "up"
    /\ Len(inbox[c]) + Len(outbox[c]) < MaxQueued
    /\ inbox' = [inbox EXCEPT ![c] = Append(@, m)]
    /\ UNCHANGED <<store, table, pc, at, job, backlog, conn, peer, outbox>>

Receive(c) ==
    /\ peer[c] = "up"
    /\ outbox[c] # <<>>
    /\ outbox' = [outbox EXCEPT ![c] = Tail(@)]
    /\ UNCHANGED <<store, table, pc, at, job, backlog, conn, peer, inbox>>

\* A reply to the client is under way or being made.
Expecting(c) == inbox[c] # <<>> \/ outbox[c] # <<>> \/ (pc = "bulk" /\ fds[at] = c)

\* A client leaves: after its last reply, or ("abandon") at any moment, with
\* data unread so that the socket is reset, or half way through a message.
Leave(c) ==
    /\ conn[c] \in {"backlog", "open"}
    /\ peer[c] = "up"
    /\ \/ /\ "abandon" \in Faults \/ ~Expecting(c)
          /\ peer' = [peer EXCEPT ![c] = "closed"]
          /\ UNCHANGED inbox
       \/ /\ "reset" \in Faults
          /\ peer' = [peer EXCEPT ![c] = "reset"]
          /\ UNCHANGED inbox
       \/ /\ "torn" \in Faults
          /\ peer' = [peer EXCEPT ![c] = "closed"]
          /\ inbox' = [inbox EXCEPT ![c] = Append(@, Torn)]
    /\ UNCHANGED <<store, table, pc, at, job, backlog, conn, outbox>>

\* A reply that finds the client's end closed comes back as a reset.
Bounce(c) ==
    /\ conn[c] = "open"
    /\ peer[c] = "closed"
    /\ outbox[c] # <<>>
    /\ peer' = [peer EXCEPT ![c] = "reset"]
    /\ UNCHANGED <<store, table, pc, at, job, backlog, conn, inbox, outbox>>

\* The client finds its connection closed by the server and gives it up.
GiveUp(c) ==
    /\ conn[c] \in {"closed", "leaked"}
    /\ conn' = [conn EXCEPT ![c] = "none"]
    /\ peer' = [peer EXCEPT ![c] = "closed"]
    /\ inbox' = [inbox EXCEPT ![c] = <<>>]
    /\ outbox' = [outbox EXCEPT ![c] = <<>>]
    /\ UNCHANGED <<store, table, pc, at, job, backlog>>

-----------------------------------------------------------------------------
(* The storage backend and the accounting.  Arithmetic on curr_size is     *)
(* unsigned.                                                               *)

exists(oid) == oid \in DOMAIN mem

\* The bytes that the objects of S take: a byte is an object and an offset.
Bytes(S) == Cardinality(UNION {{o} \X (1 .. Size[mem[o]]) : o \in S})

minus(a, b) == (a - b) % WordSize

\* curr_size once the object that is about to be overwritten is discounted.
Discounted(oid) == IF exists(oid) THEN minus(curr_size, Size[mem[oid]]) ELSE curr_size

Fits(oid, obj) == (Discounted(oid) + Size[obj]) % WordSize <= pool_size

mem_put(oid, obj) == mem' = [o \in DOMAIN mem \cup {oid} |-> IF o = oid THEN obj ELSE mem[o]]

mem_delet(oid) == mem' = [o \in DOMAIN mem \ {oid} |-> mem[o]]

\* Mutant: an overwritten object is not discounted.
StoreObject_CountsTwice(oid, obj) ==
    IF Fits(oid, obj)
    THEN /\ mem_put(oid, obj)
         /\ curr_size' = (curr_size + Size[obj]) % WordSize
         /\ UNCHANGED lost
    ELSE UNCHANGED store

\* Mutant: the bytes of a rejected object are counted.
StoreObject_CountsRejected(oid, obj) ==
    /\ curr_size' = (Discounted(oid) + Size[obj]) % WordSize
    /\ IF Fits(oid, obj)
       THEN mem_put(oid, obj) /\ UNCHANGED lost
       ELSE /\ lost' = (lost + IF exists(oid) THEN Size[mem[oid]] ELSE 0) % WordSize
            /\ UNCHANGED mem

\* One object of a Write or WriteBulk.  A rejected overwrite has already been
\* discounted: the bytes of the object that stays are lost to the counter.
StoreObject(oid, obj) ==
    IF Fits(oid, obj)
    THEN /\ mem_put(oid, obj)
         /\ curr_size' = (Discounted(oid) + Size[obj]) % WordSize
         /\ UNCHANGED lost
    ELSE /\ curr_size' = Discounted(oid)
         /\ lost' = (lost + IF exists(oid) THEN Size[mem[oid]] ELSE 0) % WordSize
         /\ UNCHANGED mem

Reply(m, error, data) == [op |-> m.op, error |-> error, data |-> data]

-----------------------------------------------------------------------------
(* One message.                                                            *)

here == fds[at]

readable == pc = "scan" /\ at <= curr_index /\ here \in Clients /\ revents[at] = "in"

\* process() is over: the scan goes on with the next slot.
NextSlot ==
    /\ pc' = "scan"
    /\ at' = at + 1
    /\ revents' = [revents EXCEPT ![at] = "none"]

\* The slot's fd is set to -1 because process() returned false.
Abandon ==
    /\ fds' = [fds EXCEPT ![at] = "-1"]
    /\ NextSlot

\* Mutant: after a failed send the slot is kept.
Answer_KeepsSlot(c, r) ==
    /\ NextSlot
    /\ IF peer[c] # "reset"
       THEN outbox' = [outbox EXCEPT ![c] = Append(@, r)] /\ UNCHANGED conn
       ELSE conn' = [conn EXCEPT ![c] = "leaked"] /\ UNCHANGED outbox
    /\ UNCHANGED fds

\* send_all twice, for the size and the message.  To a reset connection the
\* first fails, and the descriptor is given up without being closed.  To a
\* connection its peer has closed the first succeeds and is answered by a
\* reset; when that comes before the second, SIGPIPE, which the server does
\* not ignore, ends the process.
Answer(c, r) ==
    \/ /\ peer[c] # "reset"
       /\ outbox' = [outbox EXCEPT ![c] = Append(@, r)]
       /\ NextSlot
       /\ UNCHANGED <<fds, conn>>
    \/ /\ peer[c] = "reset"
       /\ Abandon
       /\ conn' = [conn EXCEPT ![c] = "leaked"]
       /\ UNCHANGED outbox
    \/ /\ peer[c] = "closed"
       /\ pc' = "down"
       /\ UNCHANGED <<fds, revents, at, conn, outbox>>

Request(op) ==
    /\ readable
    /\ inbox[here] # <<>>
    /\ Head(inbox[here]).op = op
    /\ inbox' = [inbox EXCEPT ![here] = Tail(@)]
    /\ UNCHANGED <<curr_index, backlog, peer>>

\* Mutant: room is asked for the object beside the one it replaces.
Write_AsksTwice ==
    LET m == Head(inbox[here])
    IN  /\ Request("Write")
        /\ IF curr_size + Size[m.data] <= pool_size
           THEN StoreObject(m.oid, m.data) /\ Answer(here, Reply(m, "kOk", <<>>))
           ELSE UNCHANGED store /\ Answer(here, Reply(m, "kServerMemoryError", <<>>))
        /\ UNCHANGED job

Write ==
    LET m == Head(inbox[here])
    IN  /\ Request("Write")
        /\ StoreObject(m.oid, m.data)
        /\ Answer(here, Reply(m, IF Fits(m.oid, m.data) THEN "kOk" ELSE "kServerMemoryError", <<>>))
        /\ UNCHANGED job

\* WriteBulk stores its objects one by one and stops at the first that does
\* not fit.
WriteBulk ==
    /\ Request("WriteBulk")
    /\ job' = [todo |-> Head(inbox[here]).units, error |-> "kOk"]
    /\ pc' = "bulk"
    /\ UNCHANGED <<store, fds, revents, at, conn, outbox>>

WriteBulkNext ==
    LET u == Head(job.todo)
    IN  /\ pc = "bulk"
        /\ job.todo # <<>>
        /\ StoreObject(u[1], u[2])
        /\ job' = IF Fits(u[1], u[2])
                  THEN [todo |-> Tail(job.todo), error |-> "kOk"]
                  ELSE [todo |-> <<>>, error |-> "kServerMemoryError"]
        /\ UNCHANGED <<table, pc, at, sockets>>

WriteBulkAck ==
    /\ pc = "bulk"
    /\ job.todo = <<>>
    /\ Answer(here, Reply([op |-> "WriteBulk"], job.error, <<>>))
    /\ UNCHANGED <<store, curr_index, job, backlog, peer, inbox>>

Read ==
    LET m == Head(inbox[here])
    IN  /\ Request("Read")
        /\ Answer(here, IF exists(m.oid) THEN Reply(m, "kOk", <<mem[m.oid]>>)
                                         ELSE Reply(m, "kNoSuchID", <<>>))
        /\ UNCHANGED <<store, job>>

ReadBulk ==
    LET m == Head(inbox[here])
    IN  /\ Request("ReadBulk")
        /\ Answer(here, IF \A i \in DOMAIN m.oids : exists(m.oids[i])
                        THEN Reply(m, "kOk", [i \in DOMAIN m.oids |-> mem[m.oids[i]]])
                        ELSE Reply(m, "kNoSuchID", <<>>))
        /\ UNCHANGED <<store, job>>

\* The reply to a remove has no error code, only its success flag.
Remove ==
    LET m == Head(inbox[here])
    IN  /\ Request("Remove")
        /\ IF exists(m.oid)
           THEN /\ curr_size' = Discounted(m.oid)
                /\ mem_delet(m.oid)
                /\ UNCHANGED lost
           ELSE UNCHANGED store
        /\ Answer(here, Reply(m, "kOk", <<exists(m.oid)>>))
        /\ UNCHANGED job

\* read_all: at the end of the stream read returns 0 for ever.
ReadTorn ==
    /\ Request("torn")
    /\ pc' = "spinning"
    /\ UNCHANGED <<store, fds, revents, at, job, conn, outbox>>

\* read_from_client: no data means that the client has left; an error of
\* read is an exception, which nobody catches.
Disconnected ==
    /\ readable
    /\ inbox[here] = <<>>
    /\ IF peer[here] = "reset"
       THEN pc' = "down" /\ UNCHANGED <<table, at, conn>>
       ELSE /\ conn' = [conn EXCEPT ![here] = "closed"]
            /\ Abandon
            /\ UNCHANGED curr_index
    /\ UNCHANGED <<store, job, backlog, peer, inbox, outbox>>

process == Write \/ WriteBulk \/ WriteBulkNext \/ WriteBulkAck \/ Read \/ ReadBulk
           \/ Remove \/ ReadTorn \/ Disconnected

-----------------------------------------------------------------------------
(* loop().                                                                 *)

\* What poll reports for a slot in use.
Event(fd) ==
    CASE fd = "-1" -> "none"
      [] fd = "listen" -> IF backlog # <<>> THEN "in" ELSE "none"
      [] OTHER -> IF peer[fd] = "reset" THEN "hup"
                  ELSE IF inbox[fd] # <<>> \/ peer[fd] = "closed" THEN "in"
                  ELSE "none"

Poll ==
    /\ pc = "poll"
    /\ \E i \in 1 .. curr_index : Event(fds[i]) # "none"
    /\ revents' = [i \in DOMAIN revents |->
                      IF i <= curr_index THEN Event(fds[i]) ELSE revents[i]]
    /\ pc' = "scan"
    /\ at' = 1
    /\ UNCHANGED <<store, fds, curr_index, job, sockets>>

\* Mutant: `continue' without moving to the next slot.
Skip_Stuck ==
    /\ pc = "scan"
    /\ at <= curr_index
    /\ here = "-1" \/ revents[at] = "none"
    /\ UNCHANGED serverVars

\* A slot without a descriptor or without an event.
Skip ==
    /\ pc = "scan"
    /\ at <= curr_index
    /\ here = "-1" \/ revents[at] = "none"
    /\ at' = at + 1
    /\ UNCHANGED <<store, table, pc, job, sockets>>

HangUp ==
    /\ pc = "scan"
    /\ at <= curr_index
    /\ here \in Clients
    /\ revents[at] = "hup"
    /\ conn' = [conn EXCEPT ![here] = "closed"]
    /\ Abandon
    /\ UNCHANGED <<store, curr_index, job, backlog, peer, inbox, outbox>>

\* At capacity the new connection is closed at once.
Accept ==
    LET c == Head(backlog)
    IN  /\ pc = "scan"
        /\ at <= curr_index
        /\ here = "listen"
        /\ revents[at] = "in"
        /\ backlog' = Tail(backlog)
        /\ IF curr_index = max_fds
           THEN conn' = [conn EXCEPT ![c] = "closed"] /\ UNCHANGED <<fds, curr_index>>
           ELSE /\ conn' = [conn EXCEPT ![c] = "open"]
                /\ fds' = [fds EXCEPT ![curr_index + 1] = c]
                /\ curr_index' = curr_index + 1
        /\ NextSlot
        /\ UNCHANGED <<store, job, peer, inbox, outbox>>

\* std::remove_if with testRemove: the slots kept move to the front in order,
\* what is behind them stays as it was, and curr_index drops by one for each
\* -1 seen.
Place(i) == Cardinality({j \in 1 .. i : fds[j] # "-1"})

Kept(k) == CHOOSE i \in 1 .. max_fds : fds[i] # "-1" /\ Place(i) = k

Compacted(s) == [k \in 1 .. max_fds |-> IF k <= Place(max_fds) THEN s[Kept(k)] ELSE s[k]]

\* Mutant: the slots given up are never purged.
EndOfRound_NoPurge ==
    /\ pc = "scan"
    /\ at > curr_index
    /\ pc' = "poll"
    /\ UNCHANGED <<store, table, at, job, sockets>>

EndOfRound ==
    /\ pc = "scan"
    /\ at > curr_index
    /\ IF curr_index = max_fds
       THEN /\ fds' = Compacted(fds)
            /\ revents' = Compacted(revents)
            /\ curr_index' = curr_index - Cardinality({i \in DOMAIN fds : fds[i] = "-1"})
       ELSE UNCHANGED table
    /\ pc' = "poll"
    /\ UNCHANGED <<store, at, job, sockets>>

loop == Poll \/ Skip \/ HangUp \/ Accept \/ EndOfRound

-----------------------------------------------------------------------------
(* The process.                                                            *)

\* The constructor and init: the listening socket has the first slot.
NewTable == [i \in 1 .. max_fds |-> IF i = 1 THEN "listen" ELSE "0"]

NoEvents == [i \in 1 .. max_fds |-> "none"]

NoJob == [todo |-> <<>>, error |-> "kOk"]

InitServer ==
    /\ mem = <<>>
    /\ curr_size = 0
    /\ lost = 0
    /\ fds = NewTable
    /\ revents = NoEvents
    /\ curr_index = 1
    /\ pc = "poll"
    /\ at = 1
    /\ job = NoJob
    /\ backlog = <<>>
    /\ conn = [c \in Clients |-> "none"]
    /\ peer = [c \in Clients |-> "closed"]
    /\ inbox = [c \in Clients |-> <<>>]
    /\ outbox = [c \in Clients |-> <<>>]

\* A new process: a RocksDB backend finds its data again; the connections and
\* the counter are gone.
Restart ==
    /\ Restarts
    /\ mem' = IF Backend = "Storage" THEN mem ELSE <<>>
    /\ curr_size' = 0
    /\ lost' = IF Backend = "Storage" THEN Bytes(DOMAIN mem) % WordSize ELSE 0
    /\ fds' = NewTable
    /\ revents' = NoEvents
    /\ curr_index' = 1
    /\ pc' = "poll"
    /\ at' = 1
    /\ job' = NoJob
    /\ backlog' = <<>>
    /\ conn' = [c \in Clients |-> IF conn[c] = "none" THEN "none" ELSE "closed"]
    /\ UNCHANGED <<peer, inbox, outbox>>

Server == process \/ loop

Environment ==
    \E c \in Clients :
        \/ Connect(c) \/ Receive(c) \/ Leave(c) \/ Bounce(c) \/ GiveUp(c)
        \/ \E m \in Requests : Send(c, m)

NextServer == Server \/ Environment \/ Restart

ServerSpec == InitServer /\ [][NextServer]_serverVars

\* The server's thread is scheduled; nothing is assumed of the clients.
FairServer == ServerSpec /\ WF_serverVars(Server)

-----------------------------------------------------------------------------
(* Properties.                                                             *)

\* Types of the server's variables and of the sockets.
TypeOK ==
    /\ DOMAIN mem \subseteq ObjectIDs /\ \A o \in DOMAIN mem : mem[o] \in Objects
    /\ curr_size \in 0 .. WordSize - 1
    /\ lost \in 0 .. WordSize - 1
    /\ fds \in [1 .. max_fds -> Clients \cup {"listen", "-1", "0"}]
    /\ revents \in [1 .. max_fds -> {"none", "in", "hup"}]
    /\ curr_index \in 1 .. max_fds
    /\ pc \in {"poll", "scan", "bulk", "spinning", "down"}
    /\ at \in 1 .. max_fds + 1
    /\ conn \in [Clients -> {"none", "backlog", "open", "closed", "leaked"}]
    /\ peer \in [Clients -> {"up", "closed", "reset"}]

\* The byte counter is what the backend holds less what rejected overwrites took
\* off it, in the arithmetic of its type: no other write, bulk write cut short,
\* removal, death of a client or restart in memory makes the counter drift.
AccountingExact == (curr_size + lost) % WordSize = Bytes(DOMAIN mem) % WordSize

\* curr_size is the "Number of bytes currently in the pool".
CountsThePool == curr_size = Bytes(DOMAIN mem)

\* pool_size is the "Maximum number of bytes that can be stored in the pool".
PoolBounded == Bytes(DOMAIN mem) <= pool_size

\* With objects of one size the counter is that size times the number of
\* objects, and stays within the pool.
UniformPool ==
    \A n \in Nat \cap {Size[o] : o \in Objects} :
        (\A o \in Objects : Size[o] = n) =>
            /\ curr_size = n * Cardinality(DOMAIN mem)
            /\ curr_size <= pool_size

\* "Throw error if put would exceed size of the store": until an overwrite has
\* been rejected, a Write is answered with kServerMemoryError only when the object
\* really does not fit beside the others.
RejectedOnlyIfFull ==
    [][\A oid \in ObjectIDs, obj \in Objects :
          /\ Write
          /\ lost = 0
          /\ Head(inbox[here]) = [op |-> "Write", oid |-> oid, data |-> obj]
          /\ Len(outbox'[here]) > Len(outbox[here])
          /\ outbox'[here][Len(outbox'[here])].error = "kServerMemoryError"
          => Bytes(DOMAIN mem \ {oid}) + Size[obj] > pool_size]_serverVars

\* Every connection the server has accepted and not closed is polled, in one
\* slot, and no other descriptor is: purging the table loses no client.
EveryClientPolled ==
    /\ fds[1] = "listen"
    /\ \A c \in Clients :
          Cardinality({i \in 1 .. curr_index : fds[i] = c}) = IF conn[c] = "open" THEN 1 ELSE 0
    /\ \A i \in 2 .. curr_index : fds[i] \in Clients \cup {"-1"}

\* A connection is turned away only while max_fds - 1 others are being served.
RefusedOnlyWhenFull ==
    [][\A c \in Clients :
          conn[c] = "backlog" /\ conn'[c] = "closed" /\ ~Restart
          => Cardinality({d \in Clients : conn[d] = "open"}) = max_fds - 1]_serverVars

\* Every request sent on a connection is answered, unless the connection ends.
RequestsAnswered ==
    \A c \in Clients :
        (inbox[c] # <<>> /\ outbox[c] = <<>>)
        ~> (inbox[c] = <<>> \/ outbox[c] # <<>> \/ conn[c] = "closed")

\* Nobody waits for ever to be accepted or turned away.
ConnectionsHandled == \A c \in Clients : conn[c] = "backlog" ~> conn[c] # "backlog"

\* The event loop gets to everybody: to the connections that wait to be accepted
\* and to the requests of those it has accepted, however the rounds of poll, the
\* departures of clients and the purging of the table fall.
ClientsServed == RequestsAnswered /\ ConnectionsHandled

\* loop()'s comment: "When called, server loops infinitely, accepting new
\* connections and acting on messages received."
LoopsInfinitely == []<>(pc = "poll")
=============================================================================
