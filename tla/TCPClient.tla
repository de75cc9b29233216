------------------------------ MODULE TCPClient ------------------------------
(***************************************************************************)
(* TCPClient and the ClientFuture of BladeClient: user threads build       *)
(* requests, enter them in txn_map, push them on the lock-free send_queue  *)
(* and post queue_semaphore; the sender thread (process_send) pops and     *)
(* sends them; the receiver thread (process_received) reads the replies,   *)
(* finds the future of the transaction and completes it; user threads wait *)
(* on futures.  The server is external and abstract here: it takes         *)
(* requests off the one connection in order and answers them in order.     *)
(*                                                                         *)
(* One step is one access to a variable that threads share.  The field fut *)
(* of a message and of its reply is not on the wire: it records which      *)
(* future the request was made for, for the properties alone.              *)
(***************************************************************************)
EXTENDS Integers, Sequences, FiniteSets, SequencesExt

CONSTANTS
    Users,        \* application threads that share the client
    Depth,        \* futures a thread may have outstanding
    Requests,     \* the requests they make
    Values,       \* objects
    TxnSpace,     \* number of transaction ids (2^32: they pass through an int)
    QueueSize,    \* SEND_QUEUE_SIZE
    ReuseMax,     \* reuse_max
    SharedWaits,  \* TRUE: a thread may wait on another thread's future
    Destroys,     \* TRUE: the client may be destroyed
    ConnectFails  \* TRUE: ::connect may fail

Futures == Users \X (1 .. Depth)

None == [op |-> "none"]

\* A FutureData before its reply.
Pending == [error |-> "none", data |-> <<>>]

AllRequests ==
    [op : {"Write"}, oid : Nat, val : Values] \cup [op : {"Read", "Remove"}, oid : Nat]
    \cup [op : {"WriteBulk"}, units : Seq(Nat \X Values)] \cup [op : {"ReadBulk"}, oids : Seq(Nat)]

ASSUME ClientAssumption ==
    /\ Depth \in Nat \ {0}
    /\ Requests \subseteq AllRequests
    /\ TxnSpace \in Nat \ {0}
    /\ QueueSize \in Nat \ {0}
    /\ ReuseMax \in Nat
    /\ SharedWaits \in BOOLEAN
    /\ Destroys \in BOOLEAN
    /\ ConnectFails \in BOOLEAN

VARIABLES
    has_connected, connecting,   \* the flag; a call of connect is past it
    usable,                      \* a call of connect has returned
    curr_txn_id, txn_map,        \* txn -> future
    send_queue, queue_semaphore,
    reuse_queue,                 \* number of builders kept for reuse
    fut,                         \* FutureData of each future in use
    user,                        \* where each user thread is
    sender, receiver, dtor,      \* where the other threads are
    terminate_threads,
    wire, replies,               \* the connection's two directions
    dict                         \* the server's objects

link == <<has_connected, connecting, usable>>
queue == <<send_queue, queue_semaphore>>
txns == <<curr_txn_id, txn_map>>
server == <<wire, replies, dict>>
threads == <<sender, receiver, dtor, terminate_threads>>
vars == <<has_connected, connecting, usable, curr_txn_id, txn_map, send_queue,
          queue_semaphore, reuse_queue, fut, user, sender, receiver, dtor, terminate_threads, wire, replies,
          dict>>

-----------------------------------------------------------------------------
(* connect: the flag is set first, and stays set if the connection fails;  *)
(* a call that finds it set returns at once.                               *)

connect ==
    /\ dtor = "none"
    /\ ~usable
    /\ has_connected' = TRUE
    /\ usable' = has_connected
    /\ connecting' = (connecting \/ ~has_connected)
    /\ UNCHANGED <<txns, queue, reuse_queue, fut, user, threads, server>>

FinishConnect ==
    /\ connecting
    /\ connecting' = FALSE
    /\ \/ /\ usable' = TRUE
          /\ receiver' = [pc |-> "read"]
          /\ sender' = [pc |-> "wait"]
       \/ /\ ConnectFails
          /\ UNCHANGED <<usable, sender, receiver>>
    /\ UNCHANGED <<has_connected, txns, queue, reuse_queue, fut, user, dtor, terminate_threads,
                   server>>

-----------------------------------------------------------------------------
(* User threads: a request.                                                *)

\* f can name a new FutureData: neither its user nor the receiver, which keeps
\* a reference until it has signalled, holds an earlier one of that name.
Free(f) == fut[f].req = None /\ (receiver.pc = "signal" => receiver.fut # f)

\* Bound: no request is outstanding while TxnSpace others are made.
IdsSuffice ==
    /\ curr_txn_id \notin DOMAIN txn_map
    /\ \A u \in Users : user[u].pc = "insert" => user[u].txn # curr_txn_id

\* write_async takes a used builder when there is one; the others make one.
\* The transaction id is taken after the builder, in the same step here: the
\* two touch nothing in common.
NewRequest(u, f, req) ==
    /\ user[u].pc = "idle"
    /\ f[1] = u
    /\ Free(f)
    /\ dtor = "none"
    /\ usable
    /\ IdsSuffice
    /\ user' = [user EXCEPT ![u] = [pc |-> "insert", fut |-> f, txn |-> curr_txn_id]]
    /\ reuse_queue' = IF req.op = "Write" /\ reuse_queue > 0 THEN reuse_queue - 1 ELSE reuse_queue
    /\ curr_txn_id' = (curr_txn_id + 1) % TxnSpace
    /\ fut' = [fut EXCEPT ![f] = [req |-> req, result_available |-> FALSE,
                                  lock |-> FALSE, result |-> Pending]]
    /\ UNCHANGED <<link, txn_map, queue, threads, server>>

\* enqueue_message: into the map, into the queue (spinning while it is full),
\* and one post for the sender.
InsertTxn(u) ==
    /\ user[u].pc = "insert"
    /\ txn_map' = [t \in DOMAIN txn_map \cup {user[u].txn} |->
                      IF t = user[u].txn THEN user[u].fut ELSE txn_map[t]]
    /\ user' = [user EXCEPT ![u].pc = "push"]
    /\ UNCHANGED <<link, curr_txn_id, queue, reuse_queue, fut, threads, server>>

Push(u) ==
    /\ user[u].pc = "push"
    /\ Len(send_queue) < QueueSize
    /\ send_queue' = Append(send_queue, [txn |-> user[u].txn, req |-> fut[user[u].fut].req,
                                         fut |-> user[u].fut])
    /\ user' = [user EXCEPT ![u] = [pc |-> "post"]]
    /\ UNCHANGED <<link, txns, queue_semaphore, reuse_queue, fut, threads, server>>

Post(u) ==
    /\ user[u].pc = "post"
    /\ queue_semaphore' = queue_semaphore + 1
    /\ user' = [user EXCEPT ![u] = [pc |-> "idle"]]
    /\ UNCHANGED <<link, txns, send_queue, reuse_queue, fut, threads, server>>

-----------------------------------------------------------------------------
(* User threads: a future.                                                 *)

\* The request of f has been made, and u may use the future.
Issued(u, f) ==
    /\ fut[f].req # None
    /\ f[1] = u \/ SharedWaits
    /\ user[f[1]].pc \in {"insert", "push"} => user[f[1]].fut # f

\* ClientFuture::get, through wait: the flag is read, and while it is not set
\* the SpinLock is taken.
StartGet(u, f) ==
    /\ user[u].pc = "idle"
    /\ dtor = "none"
    /\ Issued(u, f)
    /\ user' = [user EXCEPT ![u] = [pc |-> "check", fut |-> f]]
    /\ UNCHANGED <<link, txns, queue, reuse_queue, fut, threads, server>>

CheckResult(u) ==
    /\ user[u].pc = "check"
    /\ ~fut[user[u].fut].result_available
    /\ user' = [user EXCEPT ![u].pc = "spin"]
    /\ UNCHANGED <<link, txns, queue, reuse_queue, fut, threads, server>>

TakeLock(u) ==
    /\ user[u].pc = "spin"
    /\ ~fut[user[u].fut].lock
    /\ fut' = [fut EXCEPT ![user[u].fut].lock = TRUE]
    /\ user' = [user EXCEPT ![u].pc = "check"]
    /\ UNCHANGED <<link, txns, queue, reuse_queue, threads, server>>

\* Mutant: wait returns without looking at the flag.
FinishGet_NoCheck(u) ==
    /\ user[u].pc = "check"
    /\ user' = [user EXCEPT ![u] = [pc |-> "idle"]]
    /\ fut' = [fut EXCEPT ![user[u].fut].req = None]
    /\ UNCHANGED <<link, txns, queue, reuse_queue, threads, server>>

\* The future is dropped when nobody else is in a call on it.
FinishGet(u) ==
    LET f == user[u].fut
    IN  /\ user[u].pc = "check"
        /\ fut[f].result_available
        /\ user' = [user EXCEPT ![u] = [pc |-> "idle"]]
        /\ fut' = IF \E w \in Users \ {u} : user[w].pc \in {"check", "spin"} /\ user[w].fut = f
                  THEN fut
                  ELSE [fut EXCEPT ![f].req = None]
        /\ UNCHANGED <<link, txns, queue, reuse_queue, threads, server>>

\* ClientFuture::try_wait, as put_bulk and evict use it, and its answer.
TryWait(u, f, answer) ==
    /\ user[u].pc = "idle"
    /\ dtor = "none"
    /\ Issued(u, f)
    /\ answer = (fut[f].result_available \/ ~fut[f].lock)
    /\ fut' = [fut EXCEPT ![f].lock = @ \/ ~fut[f].result_available]
    /\ UNCHANGED <<link, txns, queue, reuse_queue, user, threads, server>>

-----------------------------------------------------------------------------
(* The sender thread.                                                      *)

WaitForWork ==
    /\ sender.pc = "wait"
    /\ queue_semaphore > 0
    /\ queue_semaphore' = queue_semaphore - 1
    /\ sender' = [pc |-> "pop"]
    /\ UNCHANGED <<link, txns, send_queue, reuse_queue, fut, user, receiver, dtor,
                   terminate_threads, server>>

PopMessage ==
    /\ sender.pc = "pop"
    /\ IF terminate_threads \/ send_queue = <<>>
       THEN /\ sender' = [pc |-> IF terminate_threads THEN "exited" ELSE "wait"]
            /\ UNCHANGED send_queue
       ELSE /\ sender' = [pc |-> "send", msg |-> Head(send_queue)]
            /\ send_queue' = Tail(send_queue)
    /\ UNCHANGED <<link, txns, queue_semaphore, reuse_queue, fut, user, receiver, dtor,
                   terminate_threads, server>>

\* Mutant: send_all does not count what it has sent.
SendMessage_Stuck ==
    /\ sender.pc = "send"
    /\ UNCHANGED vars

SendMessage ==
    /\ sender.pc = "send"
    /\ wire' = Append(wire, sender.msg)
    /\ sender' = [sender EXCEPT !.pc = "recycle"]
    /\ UNCHANGED <<link, txns, queue, reuse_queue, fut, user, receiver, dtor,
                   terminate_threads, replies, dict>>

\* Under reuse_lock: the builder of a write is kept unless enough are.
Recycle ==
    /\ sender.pc = "recycle"
    /\ reuse_queue' = IF reuse_queue < ReuseMax /\ sender.msg.req.op = "Write"
                      THEN reuse_queue + 1
                      ELSE reuse_queue
    /\ sender' = [pc |-> "wait"]
    /\ UNCHANGED <<link, txns, queue, fut, user, receiver, dtor, terminate_threads,
                   server>>

process_send == WaitForWork \/ PopMessage \/ SendMessage \/ Recycle

-----------------------------------------------------------------------------
(* The receiver thread.                                                    *)

\* An unknown transaction is an exception in a thread: the process ends.  The
\* find and the erase in txn_map are one step: no other thread uses an id that
\* is taken (IdsSuffice).
ReadReply ==
    LET r == Head(replies)
    IN  /\ receiver.pc = "read"
        /\ replies # <<>>
        /\ dtor = "none"
        /\ replies' = Tail(replies)
        /\ IF r.txn \in DOMAIN txn_map
           THEN /\ receiver' = [pc |-> "complete", fut |-> txn_map[r.txn]]
                /\ txn_map' = [t \in DOMAIN txn_map \ {r.txn} |-> txn_map[t]]
                /\ fut' = [fut EXCEPT ![txn_map[r.txn]].result = r.result]
           ELSE /\ receiver' = [pc |-> "threw"]
                /\ UNCHANGED <<txn_map, fut>>
        /\ UNCHANGED <<link, curr_txn_id, queue, reuse_queue, user, sender, dtor,
                       terminate_threads, wire, dict>>

Complete ==
    /\ receiver.pc = "complete"
    /\ fut' = [fut EXCEPT ![receiver.fut].result_available = TRUE]
    /\ receiver' = [receiver EXCEPT !.pc = "signal"]
    /\ UNCHANGED <<link, txns, queue, reuse_queue, user, sender, dtor, terminate_threads,
                   server>>

Signal ==
    /\ receiver.pc = "signal"
    /\ fut' = [fut EXCEPT ![receiver.fut].lock = FALSE]
    /\ receiver' = [pc |-> "read"]
    /\ UNCHANGED <<link, txns, queue, reuse_queue, user, sender, dtor, terminate_threads,
                   server>>

process_received == ReadReply \/ Complete \/ Signal

-----------------------------------------------------------------------------
(* The server, and the destructor.                                         *)

\* The objects a request writes; the server's pool may be full at any of them,
\* and those before it have been stored then.
Units(req) ==
    CASE req.op = "Write" -> <<<<req.oid, req.val>>>>
      [] req.op = "WriteBulk" -> req.units
      [] OTHER -> <<>>

Answer(error, data) == [error |-> error, data |-> data]

\* A bulk read finds every object or fails.
Found(oids) ==
    IF ToSet(oids) \subseteq DOMAIN dict
    THEN Answer("kOk", [i \in DOMAIN oids |-> dict[oids[i]]])
    ELSE Answer("kNoSuchID", <<>>)

Outcome(req, n) ==
    CASE req.op \in {"Write", "WriteBulk"} ->
             Answer(IF n = Len(Units(req)) THEN "kOk" ELSE "kServerMemoryError", <<>>)
      [] req.op = "Read" -> Found(<<req.oid>>)
      [] req.op = "ReadBulk" -> Found(req.oids)
      [] req.op = "Remove" -> Answer("kOk", <<req.oid \in DOMAIN dict>>)

put(d, u) == [o \in DOMAIN d \cup {u[1]} |-> IF o = u[1] THEN u[2] ELSE d[o]]

Updated(req, n) ==
    IF req.op = "Remove" THEN [o \in DOMAIN dict \ {req.oid} |-> dict[o]]
    ELSE FoldLeft(put, dict, SubSeq(Units(req), 1, n))

Serve ==
    LET m == Head(wire)
    IN  /\ wire # <<>>
        /\ wire' = Tail(wire)
        /\ \E n \in 0 .. Len(Units(m.req)) :
              /\ dict' = Updated(m.req, n)
              /\ replies' = Append(replies, [txn |-> m.txn, fut |-> m.fut,
                                            result |-> Outcome(m.req, n)])
        /\ UNCHANGED <<link, txns, queue, reuse_queue, fut, user, threads>>

\* ~TCPClient, once no thread is in a call: the flag, and the cancellation of
\* the receiver if there is one.
StartDestroy ==
    /\ dtor = "none"
    /\ usable /\ ~connecting
    /\ \A u \in Users : user[u].pc = "idle"
    /\ terminate_threads' = TRUE
    /\ dtor' = IF receiver.pc = "off" THEN "gone" ELSE "cancel"
    /\ UNCHANGED <<queue_semaphore, sender, receiver>>

\* Mutant: the sender is not woken.
JoinReceiver_NoPost ==
    /\ dtor = "cancel"
    /\ receiver.pc = "read"
    /\ receiver' = [pc |-> "exited"]
    /\ dtor' = "join"
    /\ UNCHANGED <<queue_semaphore, sender, terminate_threads>>

\* The receiver acts on the cancellation when it reads; one post wakes the
\* sender.
JoinReceiver ==
    /\ dtor = "cancel"
    /\ receiver.pc = "read"
    /\ receiver' = [pc |-> "exited"]
    /\ queue_semaphore' = queue_semaphore + 1
    /\ dtor' = "join"
    /\ UNCHANGED <<sender, terminate_threads>>

JoinSender ==
    /\ dtor = "join"
    /\ sender.pc = "exited"
    /\ dtor' = "gone"
    /\ UNCHANGED <<queue_semaphore, sender, receiver, terminate_threads>>

Destroy ==
    /\ Destroys
    /\ StartDestroy \/ JoinReceiver \/ JoinSender
    /\ UNCHANGED <<link, txns, send_queue, reuse_queue, fut, user, server>>

-----------------------------------------------------------------------------

Init ==
    /\ has_connected = FALSE
    /\ connecting = FALSE
    /\ usable = FALSE
    /\ curr_txn_id = 0
    /\ txn_map = <<>>
    /\ send_queue = <<>>
    /\ queue_semaphore = 0
    /\ reuse_queue = 0
    /\ fut = [f \in Futures |-> [req |-> None, result_available |-> FALSE, lock |-> FALSE,
                                 result |-> Pending]]
    /\ user = [u \in Users |-> [pc |-> "idle"]]
    /\ sender = [pc |-> "off"]
    /\ receiver = [pc |-> "off"]
    /\ dtor = "none"
    /\ terminate_threads = FALSE
    /\ wire = <<>>
    /\ replies = <<>>
    /\ dict = <<>>

Call(u) ==
    \E f \in Futures :
        \/ \E req \in Requests : NewRequest(u, f, req)
        \/ StartGet(u, f)
        \/ \E answer \in BOOLEAN : TryWait(u, f, answer)

Continue(u) == InsertTxn(u) \/ Push(u) \/ Post(u) \/ CheckResult(u) \/ TakeLock(u) \/ FinishGet(u)

Next ==
    \/ connect \/ FinishConnect
    \/ \E u \in Users : Call(u) \/ Continue(u)
    \/ process_send
    \/ process_received
    \/ Serve
    \/ Destroy

Spec == Init /\ [][Next]_vars

\* Every thread is scheduled, and the server answers; no call is ever made
\* unless the application chooses to.
FairSpec ==
    /\ Spec
    /\ \A u \in Users : WF_vars(Continue(u))
    /\ WF_vars(FinishConnect)
    /\ WF_vars(process_send)
    /\ WF_vars(process_received)
    /\ WF_vars(Serve)
    /\ WF_vars(Destroy /\ dtor # "none")

-----------------------------------------------------------------------------
(* Properties.                                                             *)

\* Types of what the threads share.
TypeOK ==
    /\ {has_connected, connecting, usable, terminate_threads} \subseteq BOOLEAN
    /\ curr_txn_id \in 0 .. TxnSpace - 1
    /\ DOMAIN txn_map \subseteq 0 .. TxnSpace - 1
    /\ \A t \in DOMAIN txn_map : txn_map[t] \in Futures
    /\ Len(send_queue) <= QueueSize
    /\ queue_semaphore \in Nat
    /\ reuse_queue \in 0 .. ReuseMax
    /\ \A f \in Futures : fut[f].req \in Requests \cup {None}

\* Messages not yet carried out, in the order in which they will be.
Underway == wire \o (IF sender.pc = "send" THEN <<sender.msg>> ELSE <<>>) \o send_queue

InHand(u) == IF user[u].pc \in {"insert", "push"} THEN <<user[u].fut>> ELSE <<>>

Todo(u) ==
    LET m == SelectSeq(Underway, LAMBDA x : x.fut[1] = u)
    IN  [i \in DOMAIN m |-> m[i].fut] \o InHand(u)

InUse == {f \in Futures : fut[f].req # None}

Requested == [f \in InUse |-> fut[f].req]

RepliesTo(f) == {i \in DOMAIN replies : replies[i].fut = f}

Done ==
    [f \in {g \in InUse : \A u \in Users : g \notin ToSet(Todo(u))} |->
        IF ~fut[f].result_available /\ RepliesTo(f) # {}
        THEN replies[CHOOSE i \in RepliesTo(f) : TRUE].result
        ELSE fut[f].result]

Promise == INSTANCE AsyncStore WITH
    todo <- [u \in Users |-> Todo(u)], done <- Done, request <- Requested

\* However the threads interleave, every request takes effect once, those of
\* one thread in order, and every future delivers the outcome of its request:
\* transaction ids that wrap around, the reuse of futures and the hand-over
\* between the three kinds of thread confuse nothing.  (The order within a thread
\* is at stake only with two requests outstanding, as in ClientPipelined.cfg.)
ImplementsAsyncStore == Promise!Spec

\* process_received never meets a transaction it does not know: the entry is
\* in the map before the request can be answered.
NoUnknownTxn == receiver.pc # "threw"

\* No lost wake-up: the queued messages are those with a post to come, those
\* the semaphore counts and the one the sender has been woken for.
PostsMatchQueue ==
    dtor = "none" =>
        Len(send_queue) = queue_semaphore + Cardinality({u \in Users : user[u].pc = "post"})
                          + (IF sender.pc = "pop" THEN 1 ELSE 0)

\* connect has succeeded: the client's two threads have been started.
Up == sender.pc # "off" /\ receiver.pc # "off"

\* "Waits until the result the future is monitoring is available": a thread
\* that waits on a future of a connected client comes back.
WaitsReturn ==
    \A u \in Users : Up /\ user[u].pc \in {"check", "spin"} ~> user[u].pc = "idle"

\* A request that a thread has begun on a connected client is carried out: it is
\* not left in the queue with the sender asleep, nor behind a full queue.  The
\* destructor may drop what is still queued.
RequestsServed ==
    \A f \in Futures :
        (Up /\ f \in ToSet(Todo(f[1]))) ~> (f \notin ToSet(Todo(f[1])) \/ dtor # "none")

\* write_async "Asynchronously writes an object to remote storage": the same,
\* also when the client is destroyed meanwhile.
QueuedRequestsServed ==
    \A f \in Futures : (f \in ToSet(Todo(f[1]))) ~> (f \notin ToSet(Todo(f[1])))

\* The destructor's joins return.
DestructorReturns == (dtor # "none") ~> (dtor = "gone")

\* Nobody is stuck in the client: a thread that waits on a future comes back, and
\* so does the thread that destroys the client and joins the other two.
ThreadsReturn == WaitsReturn /\ DestructorReturns

\* try_wait's comment: "Returns true if the result is available, false
\* otherwise."
TryWaitHonest ==
    [][\A u \in Users, f \in Futures : TryWait(u, f, TRUE) => fut[f].result_available]_vars

\* "Connects the client to the remote server": once connect has returned,
\* unless another thread is still in it, both threads run.
ConnectedMeansRunning == usable /\ ~connecting => receiver.pc # "off" /\ sender.pc # "off"
=============================================================================
