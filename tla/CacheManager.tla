---------------------------- MODULE CacheManager ----------------------------
(***************************************************************************)
(* CacheManager<T>: a bounded client-side cache in front of a remote       *)
(* object store.  One user thread calls get, put, prefetch, remove and     *)
(* setMode; asynchronous reads (prefetches) and writes (deferred           *)
(* evictions) travel in order over the store's connection and are served   *)
(* concurrently.                                                           *)
(*                                                                         *)
(* A call is cut into steps only where the code blocks: waiting for the    *)
(* write of an evicted object, for the future of a prefetched one, or for  *)
(* the reply of a synchronous read, write or remove.  Between two such     *)
(* points the user thread owns the cache, so one step is exact.  A         *)
(* synchronous request is answered after everything queued before it, on   *)
(* the one connection; its step is therefore enabled when net is empty.    *)
(***************************************************************************)
EXTENDS EvictionPolicy

CONSTANTS
    ObjectID,        \* ids the application uses (naturals)
    Values,          \* objects
    Default,         \* the value-initialised T of a fresh cache_entry
    MaxSize,         \* max_size of the cache
    DeferWrites,     \* defer_writes
    HighPend,        \* HIGH_PEND
    StoreCapacity,   \* objects the remote pool can hold
    MaxInFlight,     \* bound: requests queued on the connection
    Modes,           \* arguments the application gives to setMode
    CustomLists,     \* what an application's own PrefetchPolicy may return
    Calls,           \* the methods the application uses
    CarefulPuts      \* TRUE: it never puts an id it has prefetched and not yet got

\* Exceptions a call may end with.
Exceptions == {"NoSuchID", "CacheCapacity", "EvictError", "OutOfRange",
               "ServerMemoryError"}

ASSUME CacheAssumption ==
    /\ ObjectID \subseteq Nat
    /\ MaxSize \in Nat \ {0}
    /\ DeferWrites \in BOOLEAN
    /\ CarefulPuts \in BOOLEAN
    /\ HighPend \in Nat
    /\ StoreCapacity \in Nat
    /\ MaxInFlight \in Nat
    /\ CustomLists \subseteq Seq(ObjectID)
    /\ Modes \subseteq [kind : {"kNone", "kCustom"}]
                       \cup [kind : {"kOrdered"}, first : Nat, last : Nat, read_ahead : Nat]
    \* "Ordered prefetching can only be used if all objectIDs are sequential"
    /\ \A m \in Modes : m.kind = "kOrdered" => m.first .. m.last \subseteq ObjectID
    /\ \A w \in {"none", "pending", "ok"} \cup Exceptions : w \notin Values \cup {Default}

VARIABLES
    cache,            \* oid -> cache_entry
    order, tracked,   \* the eviction policy's containers
    pending_writes,   \* oid -> future of the write of an evicted object
    mode,             \* prefetch_policy
    net,              \* requests queued on the connection, oldest first
    store,            \* contents of the remote store
    frame,            \* where the user thread is
    ret,              \* how its last call ended
    given             \* what the user has put and not removed (history)

policyVars == <<order, tracked>>
vars == <<cache, order, tracked, pending_writes, mode, net, store, frame, ret,
          given>>

-----------------------------------------------------------------------------
(* Vocabulary.  "none", "pending" and "NoSuchID" are states of a future.   *)

Futures == Values \cup {"none", "pending", "NoSuchID"}

cache_entry == [cached : BOOLEAN, dirty : BOOLEAN,
                obj : Values \cup {Default}, future : Futures]

\* FutureData: the result flag, and the SpinLock that wait and trywait take.
PutFuture == [avail : BOOLEAN, locked : BOOLEAN]

Requests == [op : {"write"}, oid : ObjectID, val : Values]
            \cup [op : {"read"}, oid : ObjectID]

Idle == [pc |-> "idle"]

Crashed == [pc |-> "crashed"]

Ended(op, oid, out) == [op |-> op, oid |-> oid, out |-> out]

Bind(f, k, v) == [x \in DOMAIN f \cup {k} |-> IF x = k THEN v ELSE f[x]]

Erase(f, k) == [x \in DOMAIN f \ {k} |-> f[x]]

\* enqueue_message spins while the send queue is full; an eviction followed
\* by a prefetch queues two requests.
HasRoom == Len(net) + 2 <= MaxInFlight

-----------------------------------------------------------------------------
(* Futures and the sweep of pending_writes.                                *)

NewFuture == [avail |-> FALSE, locked |-> FALSE]

\* ClientFuture::try_wait: the flag, or else whether the lock can be taken.
try_wait(f) == f.avail \/ ~f.locked

\* The cleaning loop of evict over one iteration order s of the map w:
\* `it = erase(it)' already moves to the next element and the loop's `it++'
\* moves again, past end() when the erased element was the last one.
Sweep(w, s) ==
    LET n == Len(s)
        from[i \in 1 .. n + 2] ==
            IF i = n + 1 THEN [gone |-> {}, past |-> FALSE]
            ELSE IF i = n + 2 THEN [gone |-> {}, past |-> TRUE]
            ELSE IF try_wait(w[s[i]])
                 THEN [from[i + 2] EXCEPT !.gone = @ \cup {s[i]}]
                 ELSE from[i + 1]
        r == from[1]
    IN  [left |-> [o \in DOMAIN w \ r.gone |-> w[o]], past |-> r.past]

\* Possible results of the cleaning (the iteration order is unspecified).
Cleanings(w) ==
    IF Cardinality(DOMAIN w) > HighPend
    THEN {Sweep(w, s) : s \in Bijection(1 .. Cardinality(DOMAIN w), DOMAIN w)}
    ELSE {[left |-> w, past |-> FALSE]}

-----------------------------------------------------------------------------
(* Eviction.                                                               *)

Evicted(status, c, w, n) == [status |-> status, cache |-> c, pending |-> w, net |-> n]

\* Mutant: a dirty entry is dropped without being written.
evict_NoWrite(oid) ==
    IF oid \notin DOMAIN cache
    THEN {Evicted("EvictError", cache, pending_writes, net)}
    ELSE {Evicted("ok", Erase(cache, oid), pending_writes, net)}

\* evict: a dirty entry of a write-deferring cache is written asynchronously.
evict(oid) ==
    LET writes == DeferWrites /\ cache[oid].dirty
        w == IF writes THEN Bind(pending_writes, oid, NewFuture)
                       ELSE pending_writes
        n == IF writes
             THEN Append(net, [op |-> "write", oid |-> oid, val |-> cache[oid].obj])
             ELSE net
    IN  IF oid \notin DOMAIN cache
        THEN {Evicted("EvictError", cache, pending_writes, net)}
        ELSE {Evicted(IF k.past THEN "crash" ELSE "ok", Erase(cache, oid), k.left, n) :
                 k \in Cleanings(w)}

evict_vector(to_remove) ==
    IF to_remove = {} THEN {Evicted("ok", cache, pending_writes, net)}
                      ELSE UNION {evict(oid) : oid \in to_remove}

\* The policy's answer p is recorded and its evictions r are carried out;
\* unless they succeed the call ends (or the process does).
Apply(p, r) == /\ order' = p.order
               /\ tracked' = p.ids
               /\ pending_writes' = r.pending

Fail(op, oid, why) == /\ frame' = Idle
                      /\ ret' = Ended(op, oid, why)

EvictionFails(op, oid, r) ==
    /\ r.status # "ok"
    /\ cache' = r.cache
    /\ net' = r.net
    /\ IF r.status = "crash" THEN frame' = Crashed /\ UNCHANGED ret
                             ELSE Fail(op, oid, r.status)

-----------------------------------------------------------------------------
(* prefetch, and the prefetching policies that get consults.               *)

\* OrderedPolicy::get: the next read_ahead ids, wrapping around the range, up
\* to but excluding the id itself, which comes up again after last - first + 1.
OrderedList(m, id) ==
    LET at(i) == ((id + i - m.first) % (m.last - m.first + 1)) + m.first
    IN  [i \in 1 .. IF m.read_ahead > m.last - m.first THEN m.last - m.first
                                                       ELSE m.read_ahead |-> at(i)]

PrefetchLists(id) ==
    CASE mode.kind = "kNone" -> {<<>>}
      [] mode.kind = "kOrdered" -> {OrderedList(mode, id)}
      [] mode.kind = "kCustom" -> CustomLists

\* The body of prefetch after its evictions r: an absent id gets an entry
\* that is not cached yet and a request.  No capacity check here.
FetchAhead(oid, r) ==
    IF oid \in DOMAIN r.cache
    THEN cache' = r.cache /\ net' = r.net
    ELSE /\ cache' = Bind(r.cache, oid, [cached |-> FALSE, dirty |-> FALSE,
                                         obj |-> Default, future |-> "pending"])
         /\ net' = Append(r.net, [op |-> "read", oid |-> oid])

Prefetch(oid) ==
    LET p == policy_prefetch(order, tracked, oid)
    IN  /\ frame.pc = "idle"
        /\ "prefetch" \in Calls
        /\ HasRoom
        /\ \E r \in evict_vector(p.evicted) :
              /\ Apply(p, r)
              /\ \/ /\ r.status = "ok"
                    /\ FetchAhead(oid, r)
                    /\ frame' = Idle
                    /\ ret' = Ended("prefetch", oid, "ok")
                 \/ EvictionFails("prefetch", oid, r)
        /\ UNCHANGED <<mode, store, given>>

-----------------------------------------------------------------------------
(* get.                                                                    *)

GetCall(oid) ==
    LET p == policy_get(order, tracked, oid)
    IN  /\ frame.pc = "idle"
        /\ "get" \in Calls
        /\ HasRoom
        /\ \E r \in evict_vector(p.evicted) :
              /\ Apply(p, r)
              /\ \/ /\ r.status = "ok"
                    /\ cache' = r.cache
                    /\ net' = r.net
                    /\ frame' = [pc |-> "get", oid |-> oid]
                    /\ UNCHANGED ret
                 \/ EvictionFails("get", oid, r)
        /\ UNCHANGED <<mode, store, given>>

\* The write of the evicted object, if one is pending, has completed; its
\* outcome is not looked at (wait, not get).
PendingWriteDone ==
    /\ frame.oid \in DOMAIN pending_writes => pending_writes[frame.oid].avail
    /\ pending_writes' = Erase(pending_writes, frame.oid)

\* prefetch_policy->get, and the loop over the ids it returns.
StartPrefetching ==
    IF mode.kind = "kOrdered" /\ frame.oid \notin mode.first .. mode.last
    THEN Fail("get", frame.oid, "OutOfRange")
    ELSE /\ \E todo \in PrefetchLists(frame.oid) :
               frame' = [pc |-> "prefetch", oid |-> frame.oid, todo |-> todo, live |-> TRUE]
         /\ UNCHANGED ret

GetHit ==
    /\ frame.pc = "get"
    /\ frame.oid \in DOMAIN cache
    /\ cache[frame.oid].cached
    /\ PendingWriteDone
    /\ StartPrefetching
    /\ UNCHANGED <<cache, policyVars, mode, net, store, given>>

\* Mutant: the object is not copied out of the future.
GetPrefetched_NoCopy ==
    /\ frame.pc = "get"
    /\ frame.oid \in DOMAIN cache
    /\ ~cache[frame.oid].cached
    /\ cache[frame.oid].future # "pending"
    /\ PendingWriteDone
    /\ IF cache[frame.oid].future = "NoSuchID"
       THEN Fail("get", frame.oid, "NoSuchID") /\ UNCHANGED cache
       ELSE cache' = [cache EXCEPT ![frame.oid].cached = TRUE] /\ StartPrefetching
    /\ UNCHANGED <<policyVars, mode, net, store, given>>

\* The entry was prefetched: its future is awaited.
GetPrefetched ==
    /\ frame.pc = "get"
    /\ frame.oid \in DOMAIN cache
    /\ ~cache[frame.oid].cached
    /\ cache[frame.oid].future # "pending"
    /\ PendingWriteDone
    /\ IF cache[frame.oid].future = "NoSuchID"
       THEN Fail("get", frame.oid, "NoSuchID") /\ UNCHANGED cache
       ELSE /\ cache' = Bind(cache, frame.oid,
                             [cached |-> TRUE, dirty |-> cache[frame.oid].dirty,
                              obj |-> cache[frame.oid].future, future |-> "none"])
            /\ StartPrefetching
    /\ UNCHANGED <<policyVars, mode, net, store, given>>

GetFull ==
    /\ frame.pc = "get"
    /\ frame.oid \notin DOMAIN cache
    /\ Cardinality(DOMAIN cache) = MaxSize
    /\ PendingWriteDone
    /\ Fail("get", frame.oid, "CacheCapacity")
    /\ UNCHANGED <<cache, policyVars, mode, net, store, given>>

\* Mutant: a read that finds nothing is tried again, for ever.
GetMiss_Retries ==
    /\ frame.pc = "get"
    /\ frame.oid \notin DOMAIN cache
    /\ Cardinality(DOMAIN cache) # MaxSize
    /\ net = <<>>
    /\ PendingWriteDone
    /\ IF frame.oid \in DOMAIN store
       THEN /\ cache' = Bind(cache, frame.oid, [cached |-> TRUE, dirty |-> FALSE,
                                                obj |-> store[frame.oid], future |-> "none"])
            /\ StartPrefetching
       ELSE UNCHANGED <<cache, frame, ret>>
    /\ UNCHANGED <<policyVars, mode, net, store, given>>

\* cache[oid] creates the entry before store->get, which may throw.
GetMiss ==
    LET entry(v) == [cached |-> TRUE, dirty |-> FALSE, obj |-> v, future |-> "none"]
    IN  /\ frame.pc = "get"
        /\ frame.oid \notin DOMAIN cache
        /\ Cardinality(DOMAIN cache) # MaxSize
        /\ net = <<>>
        /\ PendingWriteDone
        /\ IF frame.oid \in DOMAIN store
           THEN /\ cache' = Bind(cache, frame.oid, entry(store[frame.oid]))
                /\ StartPrefetching
           ELSE /\ cache' = Bind(cache, frame.oid, entry(Default))
                /\ Fail("get", frame.oid, "NoSuchID")
        /\ UNCHANGED <<policyVars, mode, net, store, given>>

\* One turn of get's loop.  live: the entry get points to still exists.
PrefetchNext ==
    LET oid == Head(frame.todo)
        p == policy_prefetch(order, tracked, oid)
    IN  /\ frame.pc = "prefetch"
        /\ frame.todo # <<>>
        /\ HasRoom
        /\ \E r \in evict_vector(p.evicted) :
              /\ Apply(p, r)
              /\ \/ /\ r.status = "ok"
                    /\ FetchAhead(oid, r)
                    /\ frame' = [pc |-> "prefetch", oid |-> frame.oid, todo |-> Tail(frame.todo),
                                 live |-> frame.live /\ frame.oid \in DOMAIN r.cache]
                    /\ UNCHANGED ret
                 \/ EvictionFails("get", frame.oid, r)
        /\ UNCHANGED <<mode, store, given>>

\* `return entry->obj': once the entry is gone, the memory may hold anything.
GetReturn ==
    /\ frame.pc = "prefetch"
    /\ frame.todo = <<>>
    /\ frame' = Idle
    /\ \E v \in IF frame.live THEN {cache[frame.oid].obj} ELSE Values \cup {Default} :
          ret' = Ended("get", frame.oid, v)
    /\ UNCHANGED <<cache, policyVars, pending_writes, mode, net, store, given>>

-----------------------------------------------------------------------------
(* put, remove, setMode.                                                   *)

\* put up to store->put.  An existing entry keeps its `cached' flag and its
\* future.  With deferred writes the call is over.
PutCall(oid, v) ==
    LET p == policy_put(order, tracked, oid)
        fresh == [cached |-> TRUE, dirty |-> TRUE, obj |-> v, future |-> "none"]
    IN  /\ frame.pc = "idle"
        /\ "put" \in Calls
        /\ HasRoom
        /\ CarefulPuts /\ oid \in DOMAIN cache => cache[oid].cached
        /\ \E r \in evict_vector(p.evicted) :
              /\ Apply(p, r)
              /\ \/ EvictionFails("put", oid, r) /\ UNCHANGED given
                 \/ /\ r.status = "ok"
                    /\ net' = r.net
                    /\ oid \notin DOMAIN r.cache
                    /\ Cardinality(DOMAIN r.cache) = MaxSize
                    /\ cache' = r.cache
                    /\ Fail("put", oid, "CacheCapacity")
                    /\ UNCHANGED given
                 \/ /\ r.status = "ok"
                    /\ net' = r.net
                    /\ oid \in DOMAIN r.cache \/ Cardinality(DOMAIN r.cache) # MaxSize
                    /\ cache' = Bind(r.cache, oid,
                                     IF oid \in DOMAIN r.cache
                                     THEN [r.cache[oid] EXCEPT !.obj = v, !.dirty = TRUE]
                                     ELSE fresh)
                    /\ given' = Bind(given, oid, v)
                    /\ IF DeferWrites
                       THEN frame' = Idle /\ ret' = Ended("put", oid, "ok")
                       ELSE frame' = [pc |-> "put", oid |-> oid, val |-> v] /\ UNCHANGED ret
        /\ UNCHANGED <<mode, store>>

\* The server accepts a write when the pool has room for it.
Accepts(oid) == oid \in DOMAIN store \/ Cardinality(DOMAIN store) < StoreCapacity

\* store->put: the synchronous write, whose future's get throws the error.
PutReturn ==
    /\ frame.pc = "put"
    /\ net = <<>>
    /\ IF Accepts(frame.oid)
       THEN /\ store' = Bind(store, frame.oid, frame.val)
            /\ ret' = Ended("put", frame.oid, "ok")
       ELSE /\ ret' = Ended("put", frame.oid, "ServerMemoryError")
            /\ UNCHANGED store
    /\ frame' = Idle
    /\ UNCHANGED <<cache, policyVars, pending_writes, mode, net, given>>

\* store->remove returns false for an unknown id; the result is not used.
RemoveCall(oid) ==
    LET p == policy_remove(order, tracked, oid)
    IN  /\ frame.pc = "idle"
        /\ "remove" \in Calls
        /\ net = <<>>
        /\ store' = Erase(store, oid)
        /\ cache' = Erase(cache, oid)
        /\ given' = Erase(given, oid)
        /\ order' = p.order
        /\ tracked' = p.ids
        /\ ret' = Ended("remove", oid, "ok")
        /\ UNCHANGED <<pending_writes, mode, net, frame>>

\* Both forms of setMode; one that throws changes nothing.
SetMode(m) ==
    /\ frame.pc = "idle"
    /\ "setMode" \in Calls
    /\ m.kind = "kOrdered" => m.first <= m.last
    /\ mode' = m
    /\ UNCHANGED <<cache, policyVars, pending_writes, net, store, frame, ret, given>>

-----------------------------------------------------------------------------
(* The connection and the server: the oldest request is carried out and    *)
(* its reply completes the future that waits for it.  A future that an     *)
(* entry no longer refers to is dropped: the last request queued for an id *)
(* is the one its entry refers to.                                         *)

ServeWrite ==
    LET req == Head(net)
    IN  /\ net # <<>>
        /\ req.op = "write"
        /\ store' = IF Accepts(req.oid) THEN Bind(store, req.oid, req.val) ELSE store
        /\ pending_writes' =
              IF /\ req.oid \in DOMAIN pending_writes
                 /\ \A q \in Range(Tail(net)) : q.op = "write" => q.oid # req.oid
              THEN [pending_writes EXCEPT ![req.oid].avail = TRUE]
              ELSE pending_writes
        /\ net' = Tail(net)
        /\ UNCHANGED <<cache, policyVars, mode, frame, ret, given>>

ServeRead ==
    LET req == Head(net)
    IN  /\ net # <<>>
        /\ req.op = "read"
        /\ cache' =
              IF /\ req.oid \in DOMAIN cache
                 /\ cache[req.oid].future = "pending"
                 /\ \A q \in Range(Tail(net)) : q.op = "read" => q.oid # req.oid
              THEN [cache EXCEPT ![req.oid].future =
                       IF req.oid \in DOMAIN store THEN store[req.oid] ELSE "NoSuchID"]
              ELSE cache
        /\ net' = Tail(net)
        /\ UNCHANGED <<policyVars, pending_writes, mode, store, frame, ret, given>>

Init ==
    /\ cache = <<>>
    /\ order = <<>>
    /\ tracked = {}
    /\ pending_writes = <<>>
    /\ mode = [kind |-> "kNone"]
    /\ net = <<>>
    /\ store \in UNION {[S -> Values] : S \in {T \in SUBSET ObjectID : Cardinality(T) <= StoreCapacity}}
    /\ frame = Idle
    /\ ret = Ended("none", 0, "ok")
    /\ given = store

Serve == ServeWrite \/ ServeRead

Continue == GetHit \/ GetPrefetched \/ GetFull \/ GetMiss \/ PrefetchNext
            \/ GetReturn \/ PutReturn

Call ==
    \/ \E oid \in ObjectID : GetCall(oid) \/ Prefetch(oid) \/ RemoveCall(oid)
    \/ \E oid \in ObjectID, v \in Values : PutCall(oid, v)
    \/ \E m \in Modes : SetMode(m)

Next == Call \/ Continue \/ Serve

Spec == Init /\ [][Next]_vars

\* The connection's threads and the server run, and a thread inside a call
\* is scheduled: nothing in the code holds them up for ever.
FairSpec == Spec /\ WF_vars(Serve) /\ WF_vars(Continue)

-----------------------------------------------------------------------------
(* Properties.                                                             *)

Frames ==
    {Idle, Crashed}
    \cup [pc : {"get"}, oid : ObjectID]
    \cup [pc : {"prefetch"}, oid : ObjectID, todo : Seq(ObjectID), live : BOOLEAN]
    \cup [pc : {"put"}, oid : ObjectID, val : Values]

Outcomes == Values \cup {Default, "ok"} \cup Exceptions

IsPartialMap(f, S, T) == DOMAIN f \subseteq S /\ f \in [DOMAIN f -> T]

\* Every variable of the cache, its policy and the connection has the type
\* the class declares for it.
TypeOK ==
    /\ IsPartialMap(cache, ObjectID, cache_entry)
    /\ order \in Seq(ObjectID)
    /\ tracked \subseteq ObjectID
    /\ IsPartialMap(pending_writes, ObjectID, PutFuture)
    /\ mode \in Modes \cup {[kind |-> "kNone"]}
    /\ net \in Seq(Requests)
    /\ IsPartialMap(store, ObjectID, Values)
    /\ frame \in Frames
    /\ ret.out \in Outcomes
    /\ IsPartialMap(given, ObjectID, Values)

\* The id a get has announced to the policy and not yet put in the cache.
Announced == IF frame.pc = "get" THEN {frame.oid} ELSE {}

\* The eviction policy's two containers hold the same ids, each once, and no
\* more than the policy's max_size, however its methods were interleaved.
PolicyWellFormed ==
    /\ Range(order) = tracked
    /\ Len(order) = Cardinality(tracked)
    /\ Len(order) <= PolicySize

\* The policy knows exactly the cached ids: what it evicts is there to be
\* evicted, and nothing is cached that it cannot evict.
PolicyTracksCache ==
    frame.pc # "crashed" => tracked = DOMAIN cache \cup Announced

\* max_size "Will never be exceeded": although prefetch inserts without
\* checking, the policy has always made room first.
CapacityRespected == Cardinality(DOMAIN cache) <= MaxSize

\* No call ends with CacheCapacityException or with evict's "Attempted to
\* remove item not in cache", whatever was cached, prefetched or removed before.
NoSpuriousFailure == ret.out \notin {"CacheCapacity", "EvictError"}

\* When get leaves its prefetching loop, the entry it is about to copy from
\* has not been evicted by that loop (`return entry->obj').
ReturnsLiveEntry ==
    frame.pc = "prefetch" /\ frame.todo = <<>> => frame.live

\* A put object that the cache has dropped is on its way to the store or in
\* it: the value an id has for the user.
WritesOf(oid) == {i \in DOMAIN net : net[i].op = "write" /\ net[i].oid = oid}

InCache(oid) == oid \in DOMAIN cache /\ cache[oid].dirty

Holds(oid) == InCache(oid) \/ WritesOf(oid) # {} \/ oid \in DOMAIN store

Contents ==
    [oid \in {o \in ObjectID : Holds(o)} |->
        IF InCache(oid) THEN cache[oid].obj
        ELSE IF WritesOf(oid) # {} THEN net[Max(WritesOf(oid))].val
        ELSE store[oid]]

User == INSTANCE ObjectMap WITH
            dict <- given,
            putting <- IF frame.pc = "put" THEN {frame.oid} ELSE {}

\* The cache implements a map: through evictions, prefetches, deferred writes
\* in flight and removals, get returns what the user last put under the id, be it
\* taken from the cache, from a future or from the store, and no call fails.
ImplementsMap == User!Spec

\* Every call returns: no get waits for a future nobody will complete, no
\* synchronous request is stuck behind the queue.
CallsReturn == (frame.pc # "idle") ~> (frame.pc = "idle")

\* A get that ends in this step, for oid.
GetEnds(oid) == frame.pc \in {"get", "prefetch"} /\ frame.oid = oid /\ frame' = Idle

\* What a get of oid may end with: the object the user last put under the id
\* or, when there is none, the exception or the object a failed get left behind.
Owed(oid) == IF oid \in DOMAIN given THEN {given[oid]} ELSE {"NoSuchID", Default}

\* get returns the object the user last put, also after calls that failed half
\* way: unless it fails for want of room or range, it serves no older object, no
\* removed one and no failed read, from the cache, a future or the store.
GetsAreFresh ==
    [][\A oid \in ObjectID :
          GetEnds(oid) => ret'.out \in Owed(oid) \cup {"CacheCapacity", "EvictError", "OutOfRange"}]_vars

\* get's comment: "If no object is stored under that ObjectID, throws a
\* cirrus::Exception."
GetOfAbsentThrows ==
    [][\A oid \in ObjectID \ DOMAIN given : GetEnds(oid) => ret'.out \in Exceptions]_vars

\* get's comment: "@return a copy of the object stored on the server."
GetReturnsStored ==
    [][\A oid \in ObjectID :
          GetEnds(oid) /\ ret'.out \in Values => oid \in DOMAIN store /\ ret'.out = store[oid]]_vars

\* LRUEvictionPolicy::put's comment: "a put will never require additional
\* cache space".
PutNeedsNoSpace == ret.op = "put" => ret.out # "CacheCapacity"

\* remove's comment: "Exception will be thrown if oid nonexistent."
RemoveOfAbsentThrows ==
    [][\A oid \in ObjectID \ DOMAIN given :
          RemoveCall(oid) => ret'.out \in Exceptions]_vars

\* evict's comment: the pending writes map is cleaned "by removing all
\* operations that have completed".
CleaningRemovesCompleted ==
    [][\A oid \in DOMAIN pending_writes \ DOMAIN pending_writes' :
          pending_writes[oid].avail]_vars

\* put's comment: it "stores an object obj in the remote store under ObjectID
\* oid" and keeps a "cached copy of object locally".  Until the next put or
\* remove of the id nothing changes or drops what the user would be given.
PutSticks ==
    [][\A oid \in DOMAIN Contents :
          \/ oid \in DOMAIN Contents' /\ Contents'[oid] = Contents[oid]
          \/ RemoveCall(oid)
          \/ \E v \in Values : PutCall(oid, v)]_vars
=============================================================================
