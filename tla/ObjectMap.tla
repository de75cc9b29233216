------------------------------ MODULE ObjectMap ------------------------------
(***************************************************************************)
(* What a cache promises its only user: a map from ids to objects.  A get  *)
(* returns the object last put, a removed id is gone, and no call but a    *)
(* get of an absent id ever fails.  The map changes when the user calls    *)
(* put or remove, at no other time and at no other id.                     *)
(*                                                                         *)
(* A get of an absent id throws NoSuchID or returns a value-initialised    *)
(* object: CacheManager::get leaves such an object in the cache when the   *)
(* read fails (see GetOfAbsentThrows in CacheManager).                     *)
(***************************************************************************)
EXTENDS Integers

CONSTANTS ObjectID, Values, Default

VARIABLES
    dict,      \* the map
    putting,   \* the id of a put that has not returned yet, if there is one
    ret        \* how the last call ended

vars == <<dict, putting, ret>>

Maps == UNION {[S -> Values] : S \in SUBSET ObjectID}

Init == /\ dict \in Maps
        /\ putting = {}
        /\ ret = [op |-> "none", oid |-> 0, out |-> "ok"]

Done(op, oid) == [op |-> op, oid |-> oid, out |-> "ok"]

Get(oid) ==
    /\ putting = {}
    /\ ret' \in {[op |-> "get", oid |-> oid, out |-> v] :
                    v \in IF oid \in DOMAIN dict THEN {dict[oid]}
                          ELSE {"NoSuchID", Default}}
    /\ UNCHANGED <<dict, putting>>

\* The map changes when put has updated the cache.  The call returns at once, or
\* it has begun and returns later.
Put(oid, v) ==
    /\ putting = {}
    /\ dict' = [o \in DOMAIN dict \cup {oid} |-> IF o = oid THEN v ELSE dict[o]]
    /\ \/ ret' = Done("put", oid) /\ UNCHANGED putting
       \/ putting' = {oid} /\ UNCHANGED ret

PutReturns(oid) ==
    /\ putting = {oid}
    /\ putting' = {}
    /\ ret' = Done("put", oid)
    /\ UNCHANGED dict

Prefetch(oid) ==
    /\ putting = {}
    /\ ret' = Done("prefetch", oid)
    /\ UNCHANGED <<dict, putting>>

Remove(oid) ==
    /\ putting = {}
    /\ dict' = [o \in DOMAIN dict \ {oid} |-> dict[o]]
    /\ ret' = Done("remove", oid)
    /\ UNCHANGED putting

Next == \E oid \in ObjectID :
            \/ Get(oid)
            \/ \E v \in Values : Put(oid, v)
            \/ PutReturns(oid)
            \/ Prefetch(oid)
            \/ Remove(oid)

Spec == Init /\ [][Next]_vars
=============================================================================
