------------------------------- MODULE GraphJobs -------------------------------
(***************************************************************************)
(* The two graph programs of examples/graphs, run over a cache that may be *)
(* smaller than the graph: wcc labels the weakly connected components,     *)
(* page_rank spreads probabilities along the edges round by round.  Both   *)
(* read a graph from a file, put its vertices in a CacheManager            *)
(* (LRAddedEvictionPolicy, writes not deferred) and then work on the       *)
(* copies they get from it.                                                *)
(*                                                                         *)
(* A program is one thread, so one step is one turn of a loop with all its *)
(* cache calls.  The cache is CacheManager's (module CacheManager) without *)
(* what one such thread cannot observe: its writes are synchronous and     *)
(* share a connection with its prefetches, so a prefetch reads the object  *)
(* that is stored when it is issued.                                       *)
(*                                                                         *)
(* A probability is kept as what it was computed from: p_curr is the       *)
(* number of rounds behind it, p_next the list of what was added to 0.0,   *)
(* as pairs of the vertex it came from and that vertex's p_curr.           *)
(***************************************************************************)
EXTENDS EvictionPolicy

CONSTANTS
    Programs,         \* the programs run: "wcc", "page_rank"
    Files(_),         \* the graphs a program is given: [0 .. n - 1 -> SUBSET 0 .. n - 1]
    ReadAhead,        \* what pageRank gives to CirrusIterable (40)
    num_iterations,   \* rounds of pageRank at most (100)
    UIntSpace,        \* values of an unsigned int, 2^32 in the code
    TempSurvives      \* TRUE: the stack slot of a destroyed temporary is not reused

ASSUME GraphAssumption ==
    /\ Programs \subseteq {"wcc", "page_rank"}
    /\ ReadAhead \in Nat /\ num_iterations \in Nat /\ UIntSpace \in Nat \ {0}
    /\ TempSurvives \in BOOLEAN

VARIABLES
    program,
    vertices,   \* the vector main reads and loads
    cm,         \* the cache, its policy and the store behind it
    pc,
    i,          \* counter of the loop in progress
    todo,       \* neighbours the inner loop has yet to handle, the smallest next (std::set)
    fringe, cc, ccs,   \* locals of weakly_cc and bfs
    it, curr,   \* locals of pageRank
    ahead       \* ids the iterator has prefetched for its element

vars == <<program, vertices, cm, pc, i, todo, fringe, cc, ccs, it, curr, ahead>>

num_vertices == Cardinality(DOMAIN vertices)

-----------------------------------------------------------------------------
(* Vertices (the two Vertex classes as one) and how they are stored.       *)

Vertex(neighbors) ==
    [neighbors |-> neighbors, seen |-> FALSE, p_curr |-> 0, p_next |-> <<>>]

\* wcc's format has the id and the neighbours, not the flag; page_rank's has the
\* two probabilities as well.
wcc_serialize(v) == [neighbors |-> v.neighbors]
wcc_deserializer(data) == Vertex(data.neighbors)

page_rank_serialize(v) ==
    [neighbors |-> v.neighbors, p_curr |-> v.p_curr, p_next |-> v.p_next]
page_rank_deserializer(data) ==
    [Vertex(data.neighbors) EXCEPT !.p_curr = data.p_curr, !.p_next = data.p_next]

serialize(v) == IF program = "wcc" THEN wcc_serialize(v) ELSE page_rank_serialize(v)
deserializer(data) == IF program = "wcc" THEN wcc_deserializer(data)
                                         ELSE page_rank_deserializer(data)

wcc_readGraph(file) == [j \in DOMAIN file |-> Vertex(file[j])]
page_rank_readGraph(file) == [j \in DOMAIN file |-> Vertex(file[j])]

\* `Vertex n = vertices[v]' is a copy: the neighbour is added to the copy, and
\* the vector comes out as it went in.
make_undirected(vs) == vs

-----------------------------------------------------------------------------
(* The cache.  An entry is the object, or a prefetched one not yet got:    *)
(* then future is <<object>>, or <<>> when nothing was stored.             *)

Bind(f, k, v) == [x \in DOMAIN f \cup {k} |-> IF x = k THEN v ELSE f[x]]

Cached(v) == [cached |-> TRUE, obj |-> v, future |-> <<>>]

\* The policy is told, and what it gives up is dropped (it has been written).
Admit(c, oid) ==
    LET p == LRAdded_process_oid(c.order, c.ids, oid)
    IN  [c EXCEPT !.order = p.order, !.ids = p.ids,
                  !.cache = [o \in DOMAIN @ \ p.evicted |-> @[o]]]

Read(c, oid) == IF oid \in DOMAIN c.store THEN <<deserializer(c.store[oid])>> ELSE <<>>

\* What get finds once the policy has been told: <<object>>, or <<>> if it throws.
Found(c, oid) ==
    IF oid \notin DOMAIN c.cache THEN Read(c, oid)
    ELSE IF c.cache[oid].cached THEN <<c.cache[oid].obj>>
    ELSE c.cache[oid].future

\* get of an id that is there: the cache afterwards, and the object.
get(c, oid) ==
    LET a == Admit(c, oid)
        v == Found(a, oid)[1]
    IN  [cm |-> [a EXCEPT !.cache = Bind(@, oid, Cached(v))], obj |-> v]

Throws(c, oid) == Found(Admit(c, oid), oid) = <<>>

\* put: an entry not yet got keeps its flag and its future.
put(c, oid, v) ==
    LET a == Admit(c, oid)
        e == IF oid \in DOMAIN a.cache THEN [a.cache[oid] EXCEPT !.obj = v] ELSE Cached(v)
    IN  [a EXCEPT !.cache = Bind(@, oid, e), !.store = Bind(@, oid, serialize(v))]

prefetch(c, oid) ==
    LET a == Admit(c, oid)
    IN  IF oid \in DOMAIN a.cache THEN a
        ELSE [a EXCEPT !.cache = Bind(@, oid, [cached |-> FALSE, obj |-> Vertex({}),
                                               future |-> Read(a, oid)])]

-----------------------------------------------------------------------------
(* The two mains: the graph is read and its vertices are put one by one.   *)

Load ==
    /\ pc = "load"
    /\ i < num_vertices
    /\ cm' = put(cm, i, vertices[i])
    /\ i' = i + 1
    /\ UNCHANGED <<program, vertices, pc, todo, fringe, cc, ccs, it, curr, ahead>>

Loaded ==
    /\ pc = "load"
    /\ i = num_vertices
    /\ pc' = IF program = "wcc" THEN "wcc"
             ELSE IF num_iterations = 0 THEN "print" ELSE "spread"
    /\ i' = 0
    /\ UNCHANGED <<program, vertices, cm, todo, fringe, cc, ccs, it, curr, ahead>>

-----------------------------------------------------------------------------
(* wcc: weakly_cc, and bfs from every vertex not seen before.              *)

weakly_cc ==
    /\ pc = "wcc"
    /\ i < num_vertices
    /\ LET g == get(cm, i) IN
          /\ cm' = g.cm
          /\ IF g.obj.seen THEN i' = i + 1 /\ UNCHANGED <<fringe, pc>>
                           ELSE fringe' = <<i>> /\ pc' = "bfs" /\ UNCHANGED i
    /\ UNCHANGED <<program, vertices, todo, cc, ccs, it, curr, ahead>>

\* Mutant: the vertex stays at the front of the fringe.
bfs_KeepsFront ==
    /\ pc = "bfs"
    /\ todo = {} /\ fringe # <<>>
    /\ LET ID == Head(fringe)
           g == get(cm, ID)
       IN  /\ cm' = put(g.cm, ID, [g.obj EXCEPT !.seen = TRUE])
           /\ ccs' = [ccs EXCEPT ![ID] = cc]
           /\ todo' = g.obj.neighbors
    /\ UNCHANGED <<program, vertices, pc, i, fringe, cc, it, curr, ahead>>

\* A vertex leaves the fringe, marked in the cache and labelled.
bfs ==
    /\ pc = "bfs"
    /\ todo = {} /\ fringe # <<>>
    /\ LET ID == Head(fringe)
           g == get(cm, ID)
       IN  /\ cm' = put(g.cm, ID, [g.obj EXCEPT !.seen = TRUE])
           /\ ccs' = [ccs EXCEPT ![ID] = cc]
           /\ todo' = g.obj.neighbors
    /\ fringe' = Tail(fringe)
    /\ UNCHANGED <<program, vertices, pc, i, cc, it, curr, ahead>>

bfs_Neighbor ==
    /\ pc = "bfs"
    /\ todo # {}
    /\ LET v == Min(todo)
           g == get(cm, v)
       IN  /\ cm' = g.cm
           /\ fringe' = IF g.obj.seen THEN fringe ELSE Append(fringe, v)
    /\ todo' = todo \ {Min(todo)}
    /\ UNCHANGED <<program, vertices, pc, i, cc, ccs, it, curr, ahead>>

\* Mutant: the next component gets the number of the last.
bfs_Return_SameNumber ==
    /\ pc = "bfs"
    /\ todo = {} /\ fringe = <<>>
    /\ pc' = "wcc"
    /\ i' = i + 1
    /\ UNCHANGED <<program, vertices, cm, todo, fringe, cc, ccs, it, curr, ahead>>

bfs_Return ==
    /\ pc = "bfs"
    /\ todo = {} /\ fringe = <<>>
    /\ pc' = "wcc"
    /\ i' = i + 1
    /\ cc' = cc + 1
    /\ UNCHANGED <<program, vertices, cm, todo, fringe, ccs, it, curr, ahead>>

\* main prints the labels.
wcc_Done ==
    /\ pc = "wcc"
    /\ i = num_vertices
    /\ pc' = "done"
    /\ UNCHANGED <<program, vertices, cm, i, todo, fringe, cc, ccs, it, curr, ahead>>

-----------------------------------------------------------------------------
(* page_rank: pageRank's loops over a CirrusIterable of 0 .. last.         *)

\* `num_vertices - 1' in an unsigned int.
last == (num_vertices - 1) % UIntSpace

\* OrderedPolicy::getPrefetchList: the ids that follow, up to id itself.
getPrefetchList(id) ==
    [k \in 1 .. IF ReadAhead < last THEN ReadAhead ELSE last |-> (id + k) % (last + 1)]

\* operator*: the read-ahead is prefetched one by one...
PrefetchAhead ==
    /\ pc \in {"spread", "update"}
    /\ todo = {} /\ i <= last
    /\ ahead < Len(getPrefetchList(i))
    /\ cm' = prefetch(cm, getPrefetchList(i)[ahead + 1])
    /\ ahead' = ahead + 1
    /\ UNCHANGED <<program, vertices, pc, i, todo, fringe, cc, ccs, it, curr>>

\* ... then the element is got.
Dereference ==
    /\ todo = {} /\ i <= last
    /\ ahead = Len(getPrefetchList(i))
    /\ ahead' = 0

\* The first loop takes its next vertex.
spread_Element ==
    /\ pc = "spread"
    /\ Dereference
    /\ IF Throws(cm, i) THEN pc' = "threw" /\ UNCHANGED <<cm, curr, todo>>
       ELSE LET d == get(cm, i) IN
            /\ cm' = d.cm
            /\ curr' = d.obj
            /\ todo' = d.obj.neighbors
            /\ UNCHANGED pc
    /\ i' = i + 1
    /\ UNCHANGED <<program, vertices, fringe, cc, ccs, it>>

Plus(v, u, p) == [v EXCEPT !.p_next = Append(@, <<u, p>>)]

\* Its share is added to one neighbour, got and put.  (i is past the element.)
spread_Neighbor ==
    /\ pc = "spread"
    /\ todo # {}
    /\ LET n == get(cm, Min(todo))
       IN  cm' = put(n.cm, Min(todo), Plus(n.obj, i - 1, curr.p_curr))
    /\ todo' = todo \ {Min(todo)}
    /\ UNCHANGED <<program, vertices, pc, i, fringe, cc, ccs, it, curr, ahead>>

\* `iter = CirrusIterable(...)' copies a pointer to the temporary's own policy,
\* which begin() then clones.
spread_Done ==
    /\ pc = "spread"
    /\ todo = {} /\ i > last
    /\ pc' = IF TempSurvives THEN "update" ELSE "crashed"
    /\ i' = 0
    /\ UNCHANGED <<program, vertices, cm, todo, fringe, cc, ccs, it, curr, ahead>>

\* Mutant: p_next is not set back to 0.0.
NextRound_KeepsNext(v) == [v EXCEPT !.p_curr = @ + 1]

\* p_curr from p_next, and p_next set to 0.0.
NextRound(v) == [v EXCEPT !.p_curr = @ + 1, !.p_next = <<>>]

update_Element ==
    /\ pc = "update"
    /\ Dereference
    /\ LET d == get(cm, i) IN cm' = put(d.cm, i, NextRound(d.obj))
    /\ i' = i + 1
    /\ UNCHANGED <<program, vertices, pc, todo, fringe, cc, ccs, it, curr>>

\* EQUAL(error, prev_error) may end the rounds: the numbers are not modelled.
update_Done ==
    /\ pc = "update"
    /\ i > last
    /\ it' = it + 1
    /\ \E equal \in BOOLEAN :
          pc' = IF equal \/ it' = num_iterations THEN "print" ELSE "spread"
    /\ i' = 0
    /\ UNCHANGED <<program, vertices, cm, todo, fringe, cc, ccs, curr, ahead>>

\* main gets every vertex once more and prints it.
page_rank_Print ==
    /\ pc = "print"
    /\ i < num_vertices
    /\ cm' = get(cm, i).cm
    /\ i' = i + 1
    /\ UNCHANGED <<program, vertices, pc, todo, fringe, cc, ccs, it, curr, ahead>>

page_rank_Done ==
    /\ pc = "print"
    /\ i = num_vertices
    /\ pc' = "done"
    /\ UNCHANGED <<program, vertices, cm, i, todo, fringe, cc, ccs, it, curr, ahead>>

-----------------------------------------------------------------------------
Init ==
    /\ program \in Programs
    /\ \E file \in Files(program) :
          /\ vertices = IF program = "wcc" THEN make_undirected(wcc_readGraph(file))
                                           ELSE page_rank_readGraph(file)
          /\ ccs = [j \in DOMAIN file |-> -1]
    /\ cm = [cache |-> <<>>, order |-> <<>>, ids |-> {}, store |-> <<>>]
    /\ pc = "load"
    /\ i = 0 /\ cc = 1 /\ it = 0 /\ ahead = 0
    /\ todo = {} /\ fringe = <<>>
    /\ curr = Vertex({})

wcc_main == weakly_cc \/ bfs \/ bfs_Neighbor \/ bfs_Return \/ wcc_Done

pageRank ==
    \/ PrefetchAhead \/ spread_Element \/ spread_Neighbor \/ spread_Done
    \/ update_Element \/ update_Done \/ page_rank_Print \/ page_rank_Done

Next == Load \/ Loaded \/ wcc_main \/ pageRank

Spec == Init /\ [][Next]_vars

\* A program is scheduled until it ends.
FairSpec == Spec /\ WF_vars(Next)

-----------------------------------------------------------------------------
(* Properties.                                                             *)

\* What is reached from u: the smallest set with u in it that no edge leaves.
Reached(u) ==
    LET closed == {S \in SUBSET DOMAIN vertices : \A v \in S : vertices[v].neighbors \subseteq S}
    IN  {v \in DOMAIN vertices : \A S \in closed : u \in S => v \in S}

\* The first vertex, in the order weakly_cc tries them, from which v is reached.
Root(v) == Min({u \in DOMAIN vertices : v \in Reached(u)})

Linked(u, v) == v \in vertices[u].neighbors \/ u \in vertices[v].neighbors

\* The smallest set with u in it that no edge leaves or enters.
Component(u) ==
    LET closed == {S \in SUBSET DOMAIN vertices :
                      \A v \in S, w \in DOMAIN vertices : Linked(v, w) => w \in S}
    IN  {v \in DOMAIN vertices : \A S \in closed : u \in S => v \in S}

\* weakly_cc's comment: "there is a path ignoring the edges direction".
WeaklyConnected ==
    program = "wcc" /\ pc = "done" =>
        \A u, v \in DOMAIN vertices : ccs[u] = ccs[v] <=> v \in Component(u)

\* Every edge is in the file in both directions.
BothWays == \A u, v \in DOMAIN vertices : v \in vertices[u].neighbors => u \in vertices[v].neighbors

\* weakly_cc groups the vertices by the first vertex whose bfs, along the edges as
\* they are in the file, reaches them, and numbers the groups from 1, although bfs
\* decides what is left to visit from flags that travel through the cache.  The
\* groups are the weakly connected components if the file has every edge both ways.
ComponentsExact ==
    program = "wcc" /\ pc = "done" =>
        /\ \A u, v \in DOMAIN vertices : ccs[u] = ccs[v] <=> Root(u) = Root(v)
        /\ {ccs[u] : u \in DOMAIN vertices} = 1 .. Cardinality({Root(u) : u \in DOMAIN vertices})
        /\ BothWays => WeaklyConnected

\* What the program would be given for v.
ValueOf(v) == Found(Admit(cm, v), v)[1]

\* The vertices that have added their share to v in this round.
AddedTo(v) ==
    {u \in DOMAIN vertices :
        /\ v \in vertices[u].neighbors
        /\ \/ pc = "update" /\ v >= i
           \/ pc = "spread" /\ u < i - 1
           \/ pc = "spread" /\ u = i - 1 /\ v \notin todo}

\* PageRank over copies that are evicted, prefetched ahead and fetched again
\* loses no update and takes none twice: at every moment p_next of a vertex holds
\* one share of each neighbour handled so far, all computed in the same round, and
\* p_curr is that of the round.
RanksExact ==
    program = "page_rank" /\ pc \in {"spread", "update", "print", "done"} =>
        \A v \in DOMAIN vertices :
            /\ ValueOf(v).p_curr = IF pc = "update" /\ v < i THEN it + 1 ELSE it
            /\ Range(ValueOf(v).p_next) = AddedTo(v) \X {it}
            /\ Len(ValueOf(v).p_next) = Cardinality(AddedTo(v))

\* Both programs end, having printed their result.
JobsFinish == <>(pc = "done")
=============================================================================
