------------------------ MODULE FullBladeObjectStore ------------------------
(***************************************************************************)
(* FullBladeObjectStoreTempl: the object store as the application's        *)
(* threads use it, over a client that keeps the promises of AsyncStore.    *)
(* get, put and remove make one request and wait for its future.  get_bulk *)
(* and put_bulk make one request for each object before they wait for any, *)
(* removeBulk one after the other; the fast methods name all the objects   *)
(* in one request.  A method that throws leaves the futures it has not     *)
(* come to behind.                                                         *)
(***************************************************************************)
EXTENDS Integers, Sequences, FiniteSetsExt

CONSTANTS
    Users,      \* the threads that share the store
    Depth,      \* Bound: futures a thread has outstanding, those left behind included
    ObjectID,   \* the ids of the objects
    Values,     \* the objects
    Calls,      \* for each thread, the calls it makes
    IdSpace     \* number of object ids (2^64)

Futures == Users \X (1 .. Depth)

RangeCalls ==
    [op : {"get_bulk", "removeBulk"}, first : ObjectID, last : ObjectID]
    \cup [op : {"put_bulk"}, first : ObjectID, last : ObjectID, data : Seq(Values)]

OtherCalls ==
    [op : {"get", "remove"}, oid : ObjectID] \cup [op : {"put"}, oid : ObjectID, obj : Values]
    \cup [op : {"get_bulk_fast"}, oids : Seq(ObjectID)]
    \cup [op : {"put_bulk_fast"}, oids : Seq(ObjectID), data : Seq(Values)]

ASSUME StoreAssumption ==
    /\ Depth \in Nat \ {0}
    /\ IdSpace \in Nat \ {0}
    /\ ObjectID \subseteq 0 .. IdSpace - 1
    /\ \A u \in Users : Calls[u] \subseteq RangeCalls \cup OtherCalls

VARIABLES
    dict, todo, done, request,   \* the client and the remote store: see AsyncStore
    call,     \* the method each thread is in
    left,     \* per thread, the futures that exceptions left behind
    held      \* per thread, the contents of the store since its call began

clientVars == <<dict, todo, done, request>>
vars == <<dict, todo, done, request, call, left, held>>

client == INSTANCE AsyncStore WITH
    Requests <- {}

-----------------------------------------------------------------------------
(* Calls and returns.                                                      *)

Idle == [args |-> [op |-> "none"], phase |-> "idle", i |-> 0, futures |-> <<>>,
         res |-> <<>>, error |-> "kOk"]

IsRange(c) == c.op \in {"get_bulk", "put_bulk", "removeBulk"}

\* const int numObjects = last - start + 1.
numObjects(c) == IF IsRange(c) THEN c.last - c.first + 1 ELSE 1

FreeFutures(u) == {k \in 1 .. Depth : <<u, k>> \notin DOMAIN request}

\* A range whose last id is before its first is an exception at once.
Invoke(u, c) ==
    /\ call[u].phase = "idle"
    /\ numObjects(c) <= Cardinality(FreeFutures(u))
    /\ call' = [call EXCEPT ![u] =
                  IF IsRange(c) /\ c.last < c.first
                  THEN [Idle EXCEPT !.args = c, !.phase = "over", !.error = "kException"]
                  ELSE [Idle EXCEPT !.args = c, !.phase = "issue"]]
    /\ held' = [held EXCEPT ![u] = {dict}]
    /\ UNCHANGED <<clientVars, left>>

Return(u) ==
    /\ call[u].phase = "over"
    /\ call' = [call EXCEPT ![u] = Idle]
    /\ held' = [held EXCEPT ![u] = {}]
    /\ UNCHANGED <<clientVars, left>>

-----------------------------------------------------------------------------
(* Requests: get_async, put_async and the client's other methods.          *)

\* One more request of the call; the next phase, and the loop's counter in it.
Issue(u, req, phase, i) ==
    LET k == CHOOSE k \in FreeFutures(u) : TRUE
    IN  /\ call[u].phase = "issue"
        /\ FreeFutures(u) # {}
        /\ client!Issue(u, <<u, k>>, req)
        /\ call' = [call EXCEPT ![u].futures = Append(@, <<u, k>>), ![u].phase = phase,
                                ![u].i = i]
        /\ UNCHANGED <<left, held>>

Method(u, ops) == call[u].args.op \in ops

\* A turn of the loop that starts the requests; the last is followed by the
\* loop that waits.
IssueNext(u, req) ==
    IF call[u].i + 1 = numObjects(call[u].args) THEN Issue(u, req, "wait", 0)
    ELSE Issue(u, req, "issue", call[u].i + 1)

\* Mutant: the loop counts from one.
get_async_FromOne(u) ==
    /\ Method(u, {"get_bulk"})
    /\ IssueNext(u, [op |-> "Read", oid |-> call[u].args.first + call[u].i + 1])

get_async(u) ==
    /\ Method(u, {"get_bulk"})
    /\ IssueNext(u, [op |-> "Read", oid |-> call[u].args.first + call[u].i])

put_async(u) ==
    /\ Method(u, {"put_bulk"})
    /\ IssueNext(u, [op |-> "Write", oid |-> call[u].args.first + call[u].i,
                     val |-> call[u].args.data[call[u].i + 1]])

\* The methods with one request.
read_sync(u) ==
    /\ Method(u, {"get"})
    /\ Issue(u, [op |-> "Read", oid |-> call[u].args.oid], "wait", 0)

write_sync(u) ==
    /\ Method(u, {"put"})
    /\ Issue(u, [op |-> "Write", oid |-> call[u].args.oid, val |-> call[u].args.obj], "wait", 0)

remove(u) ==
    /\ Method(u, {"remove"})
    /\ Issue(u, [op |-> "Remove", oid |-> call[u].args.oid], "wait", 0)

get_bulk_fast(u) ==
    /\ Method(u, {"get_bulk_fast"})
    /\ Issue(u, [op |-> "ReadBulk", oids |-> call[u].args.oids], "wait", 0)

\* WriteUnits: each object behind its size, in the order of the ids.
units(c) == [i \in DOMAIN c.oids |-> <<c.oids[i], c.data[i]>>]

put_bulk_fast(u) ==
    /\ Method(u, {"put_bulk_fast"})
    /\ Issue(u, [op |-> "WriteBulk", units |-> units(call[u].args)], "wait", 0)

\* removeBulk removes one object after the other.  An id is a uint64_t: after the
\* largest comes 0.
removeBulk(u) ==
    LET oid == (call[u].args.first + call[u].i) % IdSpace
    IN  /\ Method(u, {"removeBulk"})
        /\ oid <= call[u].args.last
        /\ Issue(u, [op |-> "Remove", oid |-> oid], "wait", call[u].i)

removeBulk_Done(u) ==
    /\ Method(u, {"removeBulk"})
    /\ call[u].phase = "issue"
    /\ (call[u].args.first + call[u].i) % IdSpace > call[u].args.last
    /\ call' = [call EXCEPT ![u].phase = "over"]
    /\ UNCHANGED <<clientVars, left, held>>

-----------------------------------------------------------------------------
(* Futures.                                                                *)

\* The future the call waits for has its result.
Ready(u, f) == call[u].phase = "wait" /\ f \in DOMAIN done

\* get_bulk fills the caller's array, the others return what they got.
Result(c, out) ==
    IF c.args.op = "get_bulk"
    THEN [j \in 1 .. c.i + 1 |-> IF j = c.i + 1 THEN out.data[1] ELSE c.res[j]]
    ELSE out.data

\* get of a future: an error of the server is an exception, and nobody waits for
\* the futures behind this one any more.
future_get(u) ==
    LET c == call[u]
        f == c.futures[c.i + 1]
        out == done[f]
        last == c.i + 1 = Len(c.futures)
    IN  /\ Ready(u, f)
        /\ client!Deliver(f)
        /\ IF out.error = "kOk"
           THEN /\ call' = [call EXCEPT ![u].res = Result(c, out), ![u].i = @ + 1,
                                        ![u].phase = IF last THEN "over" ELSE "wait"]
                /\ UNCHANGED left
           ELSE /\ call' = [call EXCEPT ![u].error = out.error, ![u].phase = "over"]
                /\ left' = [left EXCEPT ![u] = @ \cup {c.futures[j] : j \in c.i + 2 .. Len(c.futures)}]
        /\ UNCHANGED held

get_bulk(u) == Method(u, {"get_bulk"}) /\ future_get(u)

\* Mutant: an object is done when try_wait says so.
put_bulk_NoGet(u) ==
    /\ Method(u, {"put_bulk"})
    /\ call[u].phase = "wait"
    /\ call' = [call EXCEPT ![u].i = @ + 1,
                            ![u].phase = IF call[u].i + 1 = Len(call[u].futures) THEN "over" ELSE "wait"]
    /\ left' = [left EXCEPT ![u] = @ \cup {call[u].futures[call[u].i + 1]}]
    /\ UNCHANGED <<clientVars, held>>

\* The first try_wait of a future always answers TRUE, since nobody has taken the
\* SpinLock before, so that its get waits and the objects are done in order, in
\* one round of the loop.
put_bulk(u) == Method(u, {"put_bulk"}) /\ future_get(u)

SingleRequest(u) ==
    /\ Method(u, {"get", "put", "remove", "get_bulk_fast", "put_bulk_fast"})
    /\ future_get(u)

\* Mutant: an object that was not there is removed again.
removeBulk_Next_Retries(u) ==
    LET f == call[u].futures[1]
    IN  /\ Method(u, {"removeBulk"})
        /\ Ready(u, f)
        /\ client!Deliver(f)
        /\ call' = [call EXCEPT ![u].phase = "issue", ![u].futures = <<>>,
                                ![u].i = IF done[f].data[1] THEN (@ + 1) % IdSpace ELSE @]
        /\ UNCHANGED <<left, held>>

\* What remove returned is not looked at.
removeBulk_Next(u) ==
    LET f == call[u].futures[1]
    IN  /\ Method(u, {"removeBulk"})
        /\ Ready(u, f)
        /\ client!Deliver(f)
        /\ call' = [call EXCEPT ![u].phase = "issue", ![u].futures = <<>>,
                                ![u].i = (@ + 1) % IdSpace]
        /\ UNCHANGED <<left, held>>

\* The client completes a future that was left behind, and frees it.
Discard(u) ==
    \E f \in left[u] :
        /\ client!Deliver(f)
        /\ left' = [left EXCEPT ![u] = @ \ {f}]
        /\ UNCHANGED <<call, held>>

\* The server carries out a request.
Effect(u) ==
    /\ client!Effect(u)
    /\ held' = [w \in Users |-> IF call[w].phase = "idle" THEN held[w] ELSE held[w] \cup {dict'}]
    /\ UNCHANGED <<call, left>>

-----------------------------------------------------------------------------

Init ==
    /\ client!Init
    /\ call = [u \in Users |-> Idle]
    /\ left = [u \in Users |-> {}]
    /\ held = [u \in Users |-> {}]

Step(u) ==
    \/ get_async(u) \/ put_async(u) \/ read_sync(u) \/ write_sync(u) \/ remove(u)
    \/ get_bulk_fast(u) \/ put_bulk_fast(u) \/ removeBulk(u) \/ removeBulk_Done(u)
    \/ get_bulk(u) \/ put_bulk(u) \/ SingleRequest(u) \/ removeBulk_Next(u)
    \/ Return(u)

Next ==
    \E u \in Users :
        \/ \E c \in Calls[u] : Invoke(u, c)
        \/ Step(u)
        \/ Discard(u)
        \/ Effect(u)

Spec == Init /\ [][Next]_vars

\* The threads run and the client has their requests carried out, which TCPClient
\* does (RequestsServed); nobody has to make another call.
FairSpec == Spec /\ \A u \in Users : WF_vars(Step(u)) /\ WF_vars(Effect(u))

-----------------------------------------------------------------------------
(* Properties.                                                             *)

\* The ids of a call, in order.
Oids(c) ==
    IF IsRange(c) THEN [i \in 1 .. numObjects(c) |-> c.first + i - 1]
    ELSE IF c.op \in {"get_bulk_fast", "put_bulk_fast"} THEN c.oids
    ELSE <<c.oid>>

\* The object that a call leaves under its i-th id.
Object(c, i) ==
    IF c.op = "put" THEN c.obj
    ELSE c.data[Max({j \in DOMAIN c.data : Oids(c)[j] = Oids(c)[i]})]

Has(d, oid, obj) == oid \in DOMAIN d /\ d[oid] = obj

Succeeded(u) == call[u].phase = "over" /\ call[u].error = "kOk"

\* However the calls of the threads overlap, and whatever earlier calls left
\* behind: get and get_bulk_fast return what the store held at one moment of the
\* call ("No atomicity guarantees", says the server), get_bulk for each object
\* what the store held at some moment of the call, in the order of the ids; they
\* throw only if an object really was missing.
ReadsHeld ==
    \A u \in Users : LET c == call[u].args
                         oids == Oids(c)
                         res == call[u].res
    IN  call[u].phase = "over" /\ c.op \in {"get", "get_bulk", "get_bulk_fast"} =>
            /\ call[u].error = "kOk" => DOMAIN res = DOMAIN oids
            /\ call[u].error = "kOk" /\ c.op = "get_bulk" =>
                  \A i \in DOMAIN oids : \E d \in held[u] : Has(d, oids[i], res[i])
            /\ call[u].error = "kOk" /\ c.op # "get_bulk" =>
                  \E d \in held[u] : \A i \in DOMAIN oids : Has(d, oids[i], res[i])
            /\ call[u].error = "kNoSuchID" =>
                  \E d \in held[u], i \in DOMAIN oids : oids[i] \notin DOMAIN d

\* A call that returns has done all its work: every object it puts has been in the
\* store, all of them at once after put_bulk_fast, every object it removes has been
\* out of it, and no write of an earlier call of the thread that threw half way is
\* still to come.
CallsTakeEffect ==
    \A u \in Users : LET c == call[u].args
                         oids == Oids(c)
    IN  Succeeded(u) =>
            /\ c.op \in {"put", "put_bulk"} =>
                  \A i \in DOMAIN oids : \E d \in held[u] : Has(d, oids[i], Object(c, i))
            /\ c.op = "put_bulk_fast" =>
                  \E d \in held[u] : \A i \in DOMAIN oids : Has(d, oids[i], Object(c, i))
            /\ c.op \in {"remove", "removeBulk"} =>
                  \A i \in DOMAIN oids : \E d \in held[u] : oids[i] \notin DOMAIN d
            /\ todo[u] = <<>>

\* Every method returns or throws, also when objects are missing or refused.
CallsEnd == \A u \in Users : (call[u].phase # "idle") ~> (call[u].phase = "idle")
=============================================================================
