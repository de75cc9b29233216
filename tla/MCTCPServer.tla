---------------------------- MODULE MCTCPServer ----------------------------
(***************************************************************************)
(* Instances of TCPServer for TLC.                                         *)
(***************************************************************************)
EXTENDS TCPServer, TLC

CONSTANTS c1, c2, c3, small, big

ThreeClients == {c1, c2, c3}

UniformSize == (small :> 2) @@ (big :> 2)

MixedSize == (small :> 1) @@ (big :> 3)

\* Every kind of request, a bulk write that names an id twice included.
RequestsFor(units) ==
    {[op |-> "Write", oid |-> u[1], data |-> u[2]] : u \in units}
    \cup [op : {"Read", "Remove"}, oid : ObjectIDs]
    \cup {[op |-> "WriteBulk", units |-> <<u, w>>] : u, w \in units}
    \cup {[op |-> "ReadBulk", oids |-> <<1, 2>>]}

\* Id 2 changes the size of its object, and the larger does not fit beside id 1:
\* new objects and overwrites are rejected, in a bulk write too.
StoreRequests ==
    {[op |-> "Write", oid |-> 1, data |-> small], [op |-> "Write", oid |-> 2, data |-> small],
     [op |-> "Write", oid |-> 2, data |-> big], [op |-> "Remove", oid |-> 2],
     [op |-> "WriteBulk", units |-> <<<<1, small>>, <<2, big>>>>],
     [op |-> "ReadBulk", oids |-> <<1, 2>>]}

\* The two clients do the same things.
ClientSymmetry == Permutations({c1, c2})

AllRequestsOnce == RequestsFor(ObjectIDs \X Objects)

FewRequests ==
    [op : {"Write"}, oid : {1, 2}, data : {small}]
    \cup {[op |-> "WriteBulk", units |-> <<<<1, small>>, <<2, small>>>>]}

LoopRequests ==
    {[op |-> "Read", oid |-> 1], [op |-> "Write", oid |-> 1, data |-> small],
     [op |-> "Write", oid |-> 2, data |-> big]}

OneRequest == {[op |-> "Read", oid |-> 1]}

RestartRequests == [op : {"Write"}, oid : ObjectIDs, data : {small}]
                   \cup [op : {"Remove"}, oid : ObjectIDs]
=============================================================================
