---------------------------- MODULE CirrusIterable ----------------------------
(***************************************************************************)
(* What an application runs on top of a CacheManager: range-based loops    *)
(* over a CirrusIterable (src/src/iterator/CirrusIterable.h), whose        *)
(* iterator prefetches ahead of the element it is at, and the bulk methods *)
(* of CacheManager, each a loop of single calls.  Every call below is the  *)
(* CacheManager's own action; an exception it ends with leaves the loop.   *)
(*                                                                         *)
(* Ids are 64-bit words (ObjectID) and some loops count them in 32 bits    *)
(* (unsigned int, int): IDSpace and UIntSpace are the sizes of the two     *)
(* types, small here so that a range can reach the end of either.          *)
(***************************************************************************)
EXTENDS CacheManager

CONSTANTS
    IDSpace,     \* values of an ObjectID, 2^64 in the code
    UIntSpace,   \* values of an unsigned int, 2^32 in the code
    Loops,       \* [kind, first, last, read_ahead]: the iterables looped over
    Ranges,      \* [first, last]: the ranges given to the bulk methods
    BulkCalls    \* the bulk methods used

ASSUME IterableAssumption ==
    /\ IDSpace \in Nat \ {0} /\ UIntSpace \in Nat \ {0}
    /\ UIntSpace <= IDSpace
    /\ Loops \subseteq [kind : {"kOrdered", "kUnordered"}, first : 0 .. IDSpace - 1,
                        last : 0 .. IDSpace - 1, read_ahead : Nat]
    /\ Ranges \subseteq [first : 0 .. IDSpace - 1, last : 0 .. IDSpace - 1]
    /\ BulkCalls \subseteq {"get_bulk", "put_bulk", "prefetchBulk", "removeBulk"}

VARIABLE app    \* the loop or the bulk method in progress

allVars == <<vars, app>>

Resting == [op |-> "none"]

InitApp == Init /\ app = Resting

-----------------------------------------------------------------------------
(* OrderedPolicy: the state is an id.                                      *)

IDSum(a, b) == (a + b) % IDSpace
IDDiff(a, b) == (a - b) % IDSpace

\* ((current_id + i) - first) % (last - first + 1) + first, in words.
OrderedFetch(l, i) ==
    IDSum(IDDiff(IDSum(l.pos, i), l.first) % IDSum(IDDiff(l.last, l.first), 1), l.first)

\* Mutant: the modulus is one too small.
Ordered_getPrefetchList_OffByOne(l) ==
    [i \in 1 .. l.read_ahead |->
        IF l.last = l.first THEN l.first
        ELSE IDSum(IDDiff(IDSum(l.pos, i), l.first) % IDDiff(l.last, l.first), l.first)]

\* The list ends when the current id comes up again.
Ordered_getPrefetchList(l) ==
    LET back == {i \in 1 .. l.read_ahead : OrderedFetch(l, i) = l.pos}
        n == IF back = {} THEN l.read_ahead ELSE Min(back) - 1
    IN  [i \in 1 .. n |-> OrderedFetch(l, i)]

-----------------------------------------------------------------------------
(* UnorderedPolicy: the state is an index into a shuffled vector of ids.   *)

\* The vector is filled by `for (i = first_; i <= last_; i++)', which does not
\* end when last_ is the largest id.
FillEnds(l) == IDSum(l.last, 1) # 0

Shuffles(l) ==
    Bijection(1 .. Cardinality(l.first .. l.last), l.first .. l.last)

Unordered_getPrefetchList(l) ==
    LET left == Len(l.ids) - 1 - l.pos
    IN  SubSeq(l.ids, l.pos + 2, l.pos + 1 + (IF l.read_ahead < left THEN l.read_ahead ELSE left))

-----------------------------------------------------------------------------
(* The policy of the loop: ordered or unordered, chosen by setMode.        *)

getPrefetchList(l) == IF l.kind = "kOrdered" THEN Ordered_getPrefetchList(l)
                                             ELSE Unordered_getPrefetchList(l)

dereference(l) == IF l.kind = "kOrdered" THEN l.pos ELSE l.ids[l.pos + 1]

\* increment, and the position setState gives to begin() and to end().
increment(l) == IF l.kind = "kOrdered" THEN IDSum(l.pos, 1) ELSE l.pos + 1
BeginState(l) == IF l.kind = "kOrdered" THEN l.first ELSE 0
EndState(l) == IF l.kind = "kOrdered" THEN IDSum(l.last, 1) ELSE l.last - l.first + 1

\* Mutant: end() is the last element, not the one after it.
AtEnd_Last(l) == l.pos = IF l.kind = "kOrdered" THEN l.last ELSE l.last - l.first

\* operator!= compares the states of the two policies.
AtEnd(l) == l.pos = EndState(l)

-----------------------------------------------------------------------------
(* The loop: begin, then *it and ++it until it equals end.                 *)

At(op, phase) == app.op = op /\ app.phase = phase /\ frame.pc = "idle"

begin(l) ==
    /\ app = Resting /\ frame.pc = "idle"
    /\ \E ids \in IF l.kind = "kUnordered" /\ FillEnds(l) THEN Shuffles(l) ELSE {<<>>} :
          app' = [op |-> "loop", kind |-> l.kind, first |-> l.first, last |-> l.last,
                  read_ahead |-> l.read_ahead, pos |-> BeginState(l), ids |-> ids,
                  phase |-> IF l.kind = "kOrdered" \/ FillEnds(l) THEN "at" ELSE "filling",
                  todo |-> <<>>, seen |-> <<>>]
    /\ UNCHANGED vars

\* operator*: the read-ahead...
Dereference ==
    /\ At("loop", "at")
    /\ ~AtEnd(app)
    /\ app' = [app EXCEPT !.phase = "prefetch", !.todo = getPrefetchList(app)]
    /\ UNCHANGED vars

\* A call that ended with an exception leaves the loop.
OrLeave(next) == app' = IF ret'.out \in Exceptions THEN Resting ELSE next

\* ... prefetched one by one...
PrefetchAhead ==
    /\ At("loop", "prefetch")
    /\ app.todo # <<>>
    /\ Prefetch(Head(app.todo))
    /\ OrLeave([app EXCEPT !.todo = Tail(@)])

\* ... then the element itself.
GetElement ==
    /\ At("loop", "prefetch")
    /\ app.todo = <<>>
    /\ GetCall(dereference(app))
    /\ app' = [app EXCEPT !.phase = "get"]

\* The body of the loop has the element, and the iterator is incremented.
GotElement ==
    /\ At("loop", "get")
    /\ app' = IF ret.out \in Exceptions THEN Resting
              ELSE [app EXCEPT !.phase = "at", !.pos = increment(app),
                               !.seen = Append(@, <<dereference(app), ret.out>>)]
    /\ UNCHANGED vars

EndLoop ==
    /\ At("loop", "at")
    /\ AtEnd(app)
    /\ app' = Resting
    /\ UNCHANGED vars

-----------------------------------------------------------------------------
(* The bulk methods.  get_bulk and put_bulk count with an int from the     *)
(* first id; prefetchBulk and removeBulk keep the id in an unsigned int.   *)

\* The conversion of last - first + 1 to int.
numObjects(r) ==
    LET n == IDSum(IDDiff(r.last, r.first), 1) % UIntSpace
    IN  IF 2 * n < UIntSpace THEN n ELSE n - UIntSpace

\* A careful application puts no id it has prefetched and not yet got.
MayPut(ids) == CarefulPuts => \A oid \in ids \cap DOMAIN cache : cache[oid].cached

\* A reversed range throws and changes nothing.
StartBulk(op, r, data) ==
    /\ app = Resting /\ frame.pc = "idle"
    /\ op \in BulkCalls
    /\ r.first <= r.last
    /\ op = "put_bulk" => MayPut(r.first .. r.last)
    /\ app' = [op |-> op, first |-> r.first, last |-> r.last, phase |-> "at",
               n |-> IF op \in {"get_bulk", "put_bulk"} THEN 0 ELSE r.first % UIntSpace,
               data |-> data, seen |-> <<>>]
    /\ UNCHANGED vars

Bulk(op) == app.op = op /\ app.phase = "at" /\ frame.pc = "idle"
Called == app' = [app EXCEPT !.phase = "called"]

get_bulk ==
    /\ Bulk("get_bulk")
    /\ app.n < numObjects(app)
    /\ GetCall(IDSum(app.first, app.n))
    /\ Called

put_bulk ==
    /\ Bulk("put_bulk")
    /\ app.n < numObjects(app)
    /\ PutCall(IDSum(app.first, app.n), app.data[app.n + 1])
    /\ Called

prefetchBulk ==
    /\ Bulk("prefetchBulk")
    /\ app.n <= app.last
    /\ Prefetch(app.n)
    /\ Called

\* Mutant: the last id of the range is left out.
removeBulk_Short ==
    /\ Bulk("removeBulk")
    /\ app.n <= app.last
    /\ IF app.n < app.last THEN RemoveCall(app.n) ELSE UNCHANGED vars
    /\ Called

removeBulk ==
    /\ Bulk("removeBulk")
    /\ app.n <= app.last
    /\ RemoveCall(app.n)
    /\ Called

\* Mutant: the loop does not count.
NextObject_Stuck(a) == a.n

\* i++ and oid++.
NextObject(a) == (a.n + 1) % UIntSpace

BulkReturned ==
    /\ app.op \in BulkCalls /\ app.phase = "called" /\ frame.pc = "idle"
    /\ app' = IF ret.out \in Exceptions THEN Resting
              ELSE [app EXCEPT !.phase = "at", !.n = NextObject(app),
                               !.seen = IF app.op = "get_bulk" THEN Append(@, ret.out) ELSE @]
    /\ UNCHANGED vars

\* The loop's condition no longer holds.
BulkOver(a) == IF a.op \in {"get_bulk", "put_bulk"} THEN a.n >= numObjects(a)
                                                    ELSE a.n > a.last

EndBulk ==
    /\ app.op \in BulkCalls /\ app.phase = "at" /\ frame.pc = "idle"
    /\ BulkOver(app)
    /\ app' = Resting
    /\ UNCHANGED vars

-----------------------------------------------------------------------------
AppStep ==
    \/ Dereference \/ PrefetchAhead \/ GetElement \/ GotElement \/ EndLoop
    \/ get_bulk \/ put_bulk \/ prefetchBulk \/ removeBulk \/ BulkReturned \/ EndBulk

AppCall ==
    \/ \E l \in Loops : begin(l)
    \/ \E op \in BulkCalls \ {"put_bulk"}, r \in Ranges : StartBulk(op, r, <<>>)
    \/ \E r \in Ranges : \E data \in [1 .. r.last - r.first + 1 -> Values] :
          StartBulk("put_bulk", r, data)

NextApp ==
    \/ AppCall
    \/ AppStep
    \/ (Continue \/ Serve) /\ UNCHANGED app

AppSpec == InitApp /\ [][NextApp]_allVars

\* The connection, the server and the user thread inside a call are scheduled.
FairApp ==
    /\ AppSpec
    /\ WF_allVars(AppStep)
    /\ WF_allVars(Continue /\ UNCHANGED app)
    /\ WF_allVars(Serve /\ UNCHANGED app)

-----------------------------------------------------------------------------
(* Properties.                                                             *)

\* A get of an id nothing is stored under may return the value-initialised
\* object a failed get left in the cache (see GetOfAbsentThrows).
ValueOf(oid) == IF oid \in DOMAIN Contents THEN Contents[oid] ELSE Default

LoopEnded == app.op = "loop" /\ app.phase = "at" /\ AtEnd(app)

\* A loop that ends has seen every id of the range once, in order when the
\* iterator is ordered, each with the object stored under it, although elements
\* were prefetched, evicted and fetched again on the way and end() may have
\* wrapped around to a smaller state than begin().
VisitsEachOnce ==
    LoopEnded =>
        LET n == app.last - app.first + 1 IN
        /\ Len(app.seen) = n
        /\ {app.seen[i][1] : i \in 1 .. n} = app.first .. app.last
        /\ app.kind = "kOrdered" => \A i \in 1 .. n : app.seen[i][1] = app.first + i - 1
        /\ \A i \in 1 .. n : app.seen[i][2] = ValueOf(app.seen[i][1])

\* What an iterator asks for ahead of its element: ids of the range, none twice
\* and never the element itself, and for an ordered one the ids that follow,
\* continuing at first after last.
AsksForNext ==
    app.op = "loop" /\ app.phase = "at" /\ ~AtEnd(app) =>
        LET list == getPrefetchList(app)
            size == app.last - app.first + 1
            after(id) == IF id = app.last THEN app.first ELSE id + 1
        IN  /\ Range(list) \subseteq (app.first .. app.last) \ {dereference(app)}
            /\ IsInjective(list)
            /\ app.kind = "kOrdered" =>
                  /\ Len(list) = IF app.read_ahead < size THEN app.read_ahead ELSE size - 1
                  /\ \A i \in DOMAIN list :
                        list[i] = after(IF i = 1 THEN dereference(app) ELSE list[i - 1])

\* operator*'s comment: "Attempts to get the next readAhead items".  With room
\* for the element and its read-ahead, an ordered loop finds every element but
\* the first already requested.
ReadAheadUsed ==
    app.op = "loop" /\ app.kind = "kOrdered" /\ app.phase = "at" /\ ~AtEnd(app)
    /\ app.seen # <<>> /\ 0 < app.read_ahead /\ app.read_ahead < MaxSize
        => app.pos \in DOMAIN cache

\* A bulk method that ends has done its work for every id of its range, although
\* the cache is smaller than the range and evicts while it runs: get_bulk has
\* read the objects, put_bulk stored them, removeBulk left none.
BulkComplete ==
    app.op \in BulkCalls /\ app.phase = "at" /\ BulkOver(app) =>
        LET n == app.last - app.first + 1
            id(i) == app.first + i - 1
        IN  /\ app.op = "get_bulk" => Len(app.seen) = n
            /\ app.op = "get_bulk" => \A i \in 1 .. n : app.seen[i] = ValueOf(id(i))
            /\ app.op = "put_bulk" => \A i \in 1 .. n :
                  id(i) \in DOMAIN Contents /\ Contents[id(i)] = app.data[i]
            /\ app.op = "removeBulk" => \A i \in 1 .. n : id(i) \notin DOMAIN Contents

\* Every loop over a range and every bulk call ends.
OperationsEnd == (app.op # "none") ~> (app.op = "none")
=============================================================================
