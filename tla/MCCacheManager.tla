--------------------------- MODULE MCCacheManager ---------------------------
(* Small instances of CacheManager for TLC. *)
EXTENDS CacheManager

CONSTANTS v1, v2

\* setMode arguments: off, the whole range of ids, and a part of it.
MCModes == {[kind |-> "kNone"],
            [kind |-> "kOrdered", first |-> 1, last |-> 3, read_ahead |-> 1],
            [kind |-> "kOrdered", first |-> 1, last |-> 2, read_ahead |-> 3],
            [kind |-> "kCustom"]}

\* A read-ahead as large as the cache.
MCWideModes == {[kind |-> "kOrdered", first |-> 1, last |-> 3, read_ahead |-> 2]}

NoModes == {}

MCLists == {<<>>, <<3>>}
=============================================================================
