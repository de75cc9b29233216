--------------------------- MODULE EvictionPolicy ---------------------------
(***************************************************************************)
(* The eviction policies of the client-side cache, as operators on the     *)
(* policy's own bookkeeping:                                               *)
(*                                                                         *)
(*   order  object_deque (LRAdded, front = oldest) or                      *)
(*          object_list  (LRU, front = most recently used)                 *)
(*   ids    object_set (LRAdded) or the keys of object_map (LRU)           *)
(*                                                                         *)
(* The two containers are kept apart, as in the code: that they always     *)
(* hold the same ids is a claim about the code, not part of the model.     *)
(* Each operation returns the new bookkeeping and the set `evicted' of ids *)
(* that the cache must drop (the returned vector, of length 0 or 1).       *)
(***************************************************************************)
EXTENDS Integers, Sequences, FiniteSetsExt

CONSTANTS
    Policy,        \* "LRAdded" or "LRU"
    PolicySize     \* max_size of the policy object

ASSUME PolicyAssumption ==
    /\ Policy \in {"LRAdded", "LRU"}
    /\ PolicySize \in Nat \ {0}

Bookkeeping(q, s, v) == [order |-> q, ids |-> s, evicted |-> v]

Unchanged(q, s) == Bookkeeping(q, s, {})

\* The methods of std::list and std::deque that the policies call: insert at
\* begin(), pop_back, and erase of the first element equal to oid.
insert_front(oid, q) == <<oid>> \o q

pop_back(q) == SubSeq(q, 1, Len(q) - 1)

erase(q, oid) ==
    LET at == {i \in 1 .. Len(q) : q[i] = oid}
    IN  IF at = {} THEN q
        ELSE SubSeq(q, 1, Min(at) - 1) \o SubSeq(q, Min(at) + 1, Len(q))

\* Mutant: off by one, the deque grows past max_size.
LRAdded_process_oid_OffByOne(order, ids, oid) ==
    LET q == Append(order, oid)
    IN  IF oid \in ids THEN Unchanged(order, ids)
        ELSE IF Len(q) > PolicySize + 1
             THEN Bookkeeping(Tail(q), (ids \cup {oid}) \ {Head(q)}, {Head(q)})
             ELSE Unchanged(q, ids \cup {oid})

\* LRAddedEvictionPolicy::process_oid: a new id goes to the back, and the
\* front leaves when the deque has grown past max_size.
LRAdded_process_oid(order, ids, oid) ==
    LET q == Append(order, oid)
        s == ids \cup {oid}
    IN  IF oid \in ids THEN Unchanged(order, ids)
        ELSE IF Len(q) > PolicySize
             THEN Bookkeeping(Tail(q), s \ {Head(q)}, {Head(q)})
             ELSE Unchanged(q, s)

\* Mutant: the most recently used object leaves, not the least.
LRU_process_oid_WrongEnd(order, ids, oid) ==
    LET s == ids \cup {oid}
    IN  IF oid \in ids THEN Unchanged(insert_front(oid, erase(order, oid)), ids)
        ELSE IF Cardinality(s) > PolicySize
             THEN Bookkeeping(insert_front(oid, Tail(order)), s \ {Head(order)}, {Head(order)})
             ELSE Unchanged(insert_front(oid, order), s)

\* LRUEvictionPolicy::process_oid: a new id goes to the front and the back
\* leaves when the map has grown past max_size; a known id moves to the front.
LRU_process_oid(order, ids, oid) ==
    LET q == insert_front(oid, order)
        s == ids \cup {oid}
    IN  IF oid \in ids THEN Unchanged(insert_front(oid, erase(order, oid)), ids)
        ELSE IF Cardinality(s) > PolicySize
             THEN Bookkeeping(pop_back(q), s \ {q[Len(q)]}, {q[Len(q)]})
             ELSE Unchanged(q, s)

policy_get(order, ids, oid) ==
    IF Policy = "LRAdded" THEN LRAdded_process_oid(order, ids, oid)
                          ELSE LRU_process_oid(order, ids, oid)

policy_prefetch(order, ids, oid) ==
    IF Policy = "LRAdded" THEN LRAdded_process_oid(order, ids, oid)
                          ELSE LRU_process_oid(order, ids, oid)

\* LRUEvictionPolicy::put neither tracks the id nor asks for an eviction.
policy_put(order, ids, oid) ==
    IF Policy = "LRAdded" THEN LRAdded_process_oid(order, ids, oid)
                          ELSE Unchanged(order, ids)

\* Mutants: the id stays in the deque or list; the policy is not told at all.
policy_remove_KeepsOrder(order, ids, oid) == Unchanged(order, ids \ {oid})

policy_remove_Ignored(order, ids, oid) == Unchanged(order, ids)

\* remove of both policies: an unknown id is ignored, a known one leaves both
\* containers (std::find erases its first occurrence in the deque).
policy_remove(order, ids, oid) ==
    IF oid \in ids THEN Unchanged(erase(order, oid), ids \ {oid})
                   ELSE Unchanged(order, ids)
=============================================================================
