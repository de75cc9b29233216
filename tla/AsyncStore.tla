----------------------------- MODULE AsyncStore -----------------------------
(***************************************************************************)
(* What a BladeClient promises the threads that share it: every request    *)
(* takes effect on the remote store exactly once, atomically, between the  *)
(* call and the completion of its future; the requests of one thread take  *)
(* effect in the order in which it made them; and the future delivers the  *)
(* outcome of its own request.                                             *)
(***************************************************************************)
EXTENDS Integers, Sequences

CONSTANTS Users, Futures, Requests

VARIABLES
    dict,      \* the remote store
    todo,      \* per thread, the futures of requests not yet carried out
    done,      \* future -> outcome, for the requests carried out
    request    \* future -> request, for the futures in use

vars == <<dict, todo, done, request>>

Drop(g, k) == [x \in DOMAIN g \ {k} |-> g[x]]

Set(g, k, v) == [x \in DOMAIN g \cup {k} |-> IF x = k THEN v ELSE g[x]]

Answer(error, data) == [error |-> error, data |-> data]

\* The objects a request writes.  The pool may be full at any of them: those
\* before it have been stored then.
Units(req) ==
    CASE req.op = "Write" -> <<<<req.oid, req.val>>>>
      [] req.op = "WriteBulk" -> req.units
      [] OTHER -> <<>>

\* The store once some units are stored, in order: the last one of an id stays.
Stored(units) ==
    LET writes(x) == {i \in DOMAIN units : units[i][1] = x}
        last(x) == CHOOSE i \in writes(x) : \A j \in writes(x) : j <= i
    IN  [x \in DOMAIN dict \cup {units[i][1] : i \in DOMAIN units} |->
            IF writes(x) # {} THEN units[last(x)][2] ELSE dict[x]]

Found(oids) ==
    IF \A i \in DOMAIN oids : oids[i] \in DOMAIN dict
    THEN Answer("kOk", [i \in DOMAIN oids |-> dict[oids[i]]])
    ELSE Answer("kNoSuchID", <<>>)

\* The outcome of a request and the store it leaves, when n of its objects are
\* accepted.
Outcome(req, n) ==
    CASE req.op \in {"Write", "WriteBulk"} ->
             Answer(IF n = Len(Units(req)) THEN "kOk" ELSE "kServerMemoryError", <<>>)
      [] req.op = "Read" -> Found(<<req.oid>>)
      [] req.op = "ReadBulk" -> Found(req.oids)
      [] req.op = "Remove" -> Answer("kOk", <<req.oid \in DOMAIN dict>>)

Updated(req, n) ==
    IF req.op = "Remove" THEN Drop(dict, req.oid) ELSE Stored(SubSeq(Units(req), 1, n))

Issue(u, f, req) ==
    /\ f \notin DOMAIN request
    /\ request' = Set(request, f, req)
    /\ todo' = [todo EXCEPT ![u] = Append(@, f)]
    /\ UNCHANGED <<dict, done>>

Effect(u) ==
    LET f == Head(todo[u])
        req == request[f]
    IN  /\ todo[u] # <<>>
        /\ \E n \in 0 .. Len(Units(req)) :
              /\ done' = Set(done, f, Outcome(req, n))
              /\ dict' = Updated(req, n)
        /\ todo' = [todo EXCEPT ![u] = Tail(@)]
        /\ UNCHANGED <<request>>

Deliver(f) ==
    /\ f \in DOMAIN done
    /\ done' = Drop(done, f)
    /\ request' = Drop(request, f)
    /\ UNCHANGED <<dict, todo>>

Init ==
    /\ dict = <<>>
    /\ todo = [u \in Users |-> <<>>]
    /\ done = <<>>
    /\ request = <<>>

Next ==
    \/ \E u \in Users : Effect(u) \/ \E f \in Futures, req \in Requests : Issue(u, f, req)
    \/ \E f \in Futures : Deliver(f)

Spec == Init /\ [][Next]_vars
=============================================================================
