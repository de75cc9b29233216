------------------------------ MODULE MCRDMAStore ------------------------------
(* Small instances of RDMAStore. *)
EXTENDS RDMAStore, TLC

CONSTANTS c1, c2, x, y, v, w, a1, a2

\* The allocator returns any free cell, so the cells are interchangeable.
CellSymmetry == Permutations(Addrs)

\* Clients that write the same: the clients are interchangeable.
OneValue == [c \in Clients |-> {v}]

ClientSymmetry == Permutations({c1, c2})

\* Clients that overwrite their objects with another value.
TwoValues == [c \in Clients |-> {v, w}]
================================================================================
