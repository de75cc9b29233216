------------------------------ MODULE MCGraphJobs ------------------------------
(* Small instances of GraphJobs for TLC. *)
EXTENDS GraphJobs

Symmetric(g) == \A u, v \in DOMAIN g : v \in g[u] => u \in g[v]

GraphsOf(n) == [0 .. n - 1 -> SUBSET (0 .. n - 1)]

\* All graphs of up to three vertices, the empty one included, and the undirected ones of
\* four; self-loops included.
Graphs == UNION {GraphsOf(n) : n \in 0 .. 3} \cup {g \in GraphsOf(4) : Symmetric(g)}

\* A cycle of five vertices where the edges of one are anything.
Cycles == {[[v \in 0 .. 4 |-> {(v + 1) % 5}] EXCEPT ![u] = s] :
              u \in {0, 2, 4}, s \in SUBSET (0 .. 4)}

\* wcc fits in the cache, page_rank does not.
MCFiles(p) == IF p = "wcc" THEN Graphs ELSE Cycles \cup GraphsOf(2)

DirectedFiles(p) == GraphsOf(3)

\* One edge.
LargeFiles(p) == {[v \in 0 .. 1 |-> {1 - v}]}

EmptyFiles(p) == GraphsOf(0)
=============================================================================
