---------------------------- MODULE MCTCPClient ----------------------------
(***************************************************************************)
(* Instances of TCPClient for TLC.                                         *)
(***************************************************************************)
EXTENDS TCPClient

CONSTANTS u1, u2, v1, v2

\* Writes and reads of one object.
WriteAndRead == [op : {"Write"}, oid : {1}, val : Values] \cup [op : {"Read"}, oid : {1}]

\* A write, and reads of several objects at once.
WriteAndReadBulk == [op : {"Write"}, oid : {1}, val : Values] \cup {[op |-> "ReadBulk", oids |-> <<1, 1>>]}

\* Every request for one object.
EveryRequest == WriteAndRead \cup [op : {"Remove"}, oid : {1}]

\* The requests for several objects, and a removal between them.
BulkRequests ==
    [op : {"Remove"}, oid : {1}]
    \cup {[op |-> "WriteBulk", units |-> <<<<1, v>>, <<2, v>>>>] : v \in Values}
    \cup {[op |-> "ReadBulk", oids |-> <<2, 1>>]}
=============================================================================
