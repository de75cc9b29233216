--------------------------- MODULE MCCirrusIterable ---------------------------
(* Small instances of CirrusIterable for TLC. *)
EXTENDS CirrusIterable

CONSTANTS v1, v2

\* Ids 5 to 7 of an eight-id space: the end of the ordered range wraps to 0.
MCLoops == {[kind |-> "kOrdered", first |-> 5, last |-> 7, read_ahead |-> r] : r \in {1, 3}}
           \cup {[kind |-> "kUnordered", first |-> 5, last |-> 6, read_ahead |-> 1]}

MCRanges == {[first |-> 4, last |-> 6], [first |-> 6, last |-> 6]}

\* Ranges that reach the largest ObjectID or unsigned int.
TopLoops == {[kind |-> "kUnordered", first |-> 6, last |-> 7, read_ahead |-> 1]}

TopRanges == {[first |-> 6, last |-> 7]}

NoLoops == {}
=============================================================================
