----------------------- MODULE MCFullBladeObjectStore -----------------------
(***************************************************************************)
(* Instances of FullBladeObjectStore for TLC.                              *)
(***************************************************************************)
EXTENDS FullBladeObjectStore, TLC

CONSTANTS u1, u2, v1, v2

\* Every method, on one range of two ids; a range that is empty.  The objects one
\* thread puts are not those the other puts.
EveryMethod ==
    u1 :> [op : {"get_bulk", "removeBulk"}, first : {1}, last : {2}]
          \cup [op : {"put_bulk"}, first : {1}, last : {2}, data : {<<v1, v1>>}]
          \cup [op : {"get_bulk_fast"}, oids : {<<2, 1>>}]
    @@ u2 :> [op : {"put_bulk_fast"}, oids : {<<1, 2>>}, data : {<<v2, v2>>}]
             \cup [op : {"put"}, oid : {1}, obj : {v2}]
             \cup [op : {"get", "remove"}, oid : {1}]
             \cup [op : {"get_bulk"}, first : {2}, last : {1}]

\* A range that ends at the largest id.
TopRange == [u \in Users |-> [op : {"removeBulk"}, first : {2}, last : {3}]]
=============================================================================
