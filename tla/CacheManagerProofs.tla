------------------------- MODULE CacheManagerProofs -------------------------
(***************************************************************************)
(* Proofs about CacheManager for every set of ids and objects, every cache *)
(* and policy size and every workload.                                     *)
(*                                                                         *)
(* TypeInv is inductive without further assumptions.  AgreeInv adds that   *)
(* the policy and the cache know the same ids; it needs a policy that is   *)
(* told of every insertion (LRAdded, or LRU when nothing is put) and whose *)
(* max_size is at most the cache's.                                        *)
(***************************************************************************)
EXTENDS CacheManager, FiniteSetTheorems, TLAPS

-----------------------------------------------------------------------------
(* What the eviction policies guarantee for every max_size and every set   *)
(* of ids, as lemmas about their operators.                                *)

\* The sequence q lists the finite set s, each element once.
Lists(S, q, s) ==
    /\ q \in Seq(S)
    /\ \A i, j \in 1 .. Len(q) : q[i] = q[j] => i = j
    /\ \A i \in 1 .. Len(q) : q[i] \in s
    /\ \A x \in s : \E i \in 1 .. Len(q) : q[i] = x
    /\ IsFiniteSet(s)
    /\ Cardinality(s) = Len(q)

\* The containers hold the same ids, each once, at most max_size of them.
WellFormed(S, q, s) == Lists(S, q, s) /\ Len(q) <= PolicySize

\* The answer p of a policy that has been told of oid.
Tracks(S, s, oid, p) ==
    /\ WellFormed(S, p.order, p.ids)
    /\ p.ids = (s \cup {oid}) \ p.evicted
    /\ \/ p.evicted = {}
       \/ /\ oid \notin s
          /\ \E v \in s : v # oid /\ p.evicted = {v}

\* An insertion in front of q makes r of it.
MovedBack(q, r) == \A i \in 1 .. Len(q) : r[i + 1] = q[i]

\* Erasing e makes d of r: what is left is no further from the front.
MovedUp(r, e, d) ==
    \A i \in 1 .. Len(r) : r[i] # e => \E j \in 1 .. Len(r) - 1 : j <= i /\ d[j] = r[i]

-----------------------------------------------------------------------------
(* The standard containers as sequences.                                   *)

\* A container of n elements is indexed from 1 to n.
LEMMA Indexed ==
    ASSUME NEW S, NEW q \in Seq(S)
    PROVE  /\ Len(q) \in Nat
           /\ DOMAIN q = 1 .. Len(q)
           /\ q \in [1 .. Len(q) -> S]
  OBVIOUS

\* What operator[] and the iterators give is an element.
LEMMA IsElement ==
    ASSUME NEW S, NEW q \in Seq(S), NEW k \in 1 .. Len(q)
    PROVE  q[k] \in S
  OBVIOUS

\* Only the empty container has size 0.
LEMMA NotEmpty ==
    ASSUME NEW S, NEW q \in Seq(S), q # <<>>
    PROVE  Len(q) \in Nat \ {0}
  OBVIOUS

\* push_back.
LEMMA PushBack ==
    ASSUME NEW S, NEW q \in Seq(S), NEW x \in S
    PROVE  /\ Len(Append(q, x)) = Len(q) + 1
           /\ Append(q, x)[Len(q) + 1] = x
           /\ \A k \in 1 .. Len(q) : Append(q, x)[k] = q[k]
           /\ Append(q, x) \in Seq(S)
  OBVIOUS

\* One range of elements after another.
LEMMA Concatenated ==
    ASSUME NEW S, NEW q \in Seq(S), NEW r \in Seq(S)
    PROVE  /\ q \o r \in Seq(S)
           /\ Len(q \o r) = Len(q) + Len(r)
           /\ \A k \in 1 .. Len(q) + Len(r) :
                 (q \o r)[k] = IF k <= Len(q) THEN q[k] ELSE r[k - Len(q)]
  OBVIOUS

\* The elements from the m-th to the n-th.
LEMMA Subrange ==
    ASSUME NEW S, NEW q, NEW m \in Int, NEW n \in Int, \A k \in m .. n : q[k] \in S
    PROVE  /\ SubSeq(q, m, n) \in Seq(S)
           /\ Len(SubSeq(q, m, n)) = IF m <= n THEN n - m + 1 ELSE 0
           /\ \A k \in 1 .. n - m + 1 : SubSeq(q, m, n)[k] = q[m + k - 1]
  OBVIOUS

\* pop_front.
LEMMA PopFront ==
    ASSUME NEW S, NEW q \in Seq(S), q # <<>>
    PROVE  /\ Head(q) \in S
           /\ Tail(q) \in Seq(S)
           /\ Len(Tail(q)) = Len(q) - 1
           /\ \A k \in 1 .. Len(Tail(q)) : Tail(q)[k] = q[k + 1]
  OBVIOUS

-----------------------------------------------------------------------------
(* Adding a new element at either end, and dropping one anywhere.          *)

\* Inserting a new id makes a container one larger.
LEMMA OneMore ==
    ASSUME NEW s, NEW x, IsFiniteSet(s), x \notin s
    PROVE  /\ IsFiniteSet(s \cup {x})
           /\ Cardinality(s \cup {x}) = Cardinality(s) + 1
  BY FS_AddElement, Zenon

\* Erasing an id that is there makes a container one smaller.
LEMMA OneLess ==
    ASSUME NEW s, NEW x \in s, IsFiniteSet(s)
    PROVE  /\ IsFiniteSet(s \ {x})
           /\ Cardinality(s \ {x}) = Cardinality(s) - 1
  BY FS_RemoveElement, Zenon

\* push_back of an id that is not in the set.
LEMMA AppendFresh ==
    ASSUME NEW S, NEW q, NEW s, NEW oid \in S, Lists(S, q, s), oid \notin s
    PROVE  /\ Lists(S, Append(q, oid), s \cup {oid})
           /\ Len(Append(q, oid)) = Len(q) + 1
  <1> DEFINE r == Append(q, oid)
  <1>1. q \in Seq(S) /\ Len(q) \in Nat
    BY Indexed, Zenon DEF Lists
  <1>2. /\ r \in Seq(S)
        /\ Len(r) = Len(q) + 1
        /\ \A i \in 1 .. Len(q) : r[i] = q[i]
        /\ r[Len(q) + 1] = oid
    BY <1>1, PushBack
  <1> HIDE DEF r
  <1>3. \A i \in 1 .. Len(r) : i \in 1 .. Len(q) \/ i = Len(q) + 1
    BY <1>1, <1>2
  <1>4. \A i, j \in 1 .. Len(r) : r[i] = r[j] => i = j
    BY <1>2, <1>3, Zenon DEF Lists
  <1>5. \A i \in 1 .. Len(r) : r[i] \in s \cup {oid}
    BY <1>2, <1>3, Zenon DEF Lists
  <1>6. \A x \in s \cup {oid} : \E i \in 1 .. Len(r) : r[i] = x
    BY <1>1, <1>2 DEF Lists
  <1>7. IsFiniteSet(s \cup {oid}) /\ Cardinality(s \cup {oid}) = Len(r)
    <2>1. IsFiniteSet(s) /\ Cardinality(s) = Len(q)
      BY Zenon DEF Lists
    <2>2. IsFiniteSet(s \cup {oid}) /\ Cardinality(s \cup {oid}) = Cardinality(s) + 1
      BY <2>1, OneMore, Zenon
    <2> QED BY <2>1, <2>2, <1>2, Zenon
  <1> QED BY <1>2, <1>4, <1>5, <1>6, <1>7, Zenon DEF Lists, r

\* insert at begin() of an id that is not in the set.
LEMMA ConsFresh ==
    ASSUME NEW S, NEW q, NEW s, NEW oid \in S, Lists(S, q, s), oid \notin s
    PROVE  /\ Lists(S, insert_front(oid, q), s \cup {oid})
           /\ Len(insert_front(oid, q)) = Len(q) + 1
           /\ insert_front(oid, q)[1] = oid
           /\ MovedBack(q, insert_front(oid, q))
  <1> DEFINE r == insert_front(oid, q)
  <1>1. q \in Seq(S) /\ Len(q) \in Nat
    BY Indexed, Zenon DEF Lists
  <1>2. <<oid>> \in Seq(S) /\ Len(<<oid>>) = 1 /\ <<oid>>[1] = oid
    OBVIOUS
  <1>3. /\ r \in Seq(S)
        /\ Len(r) = 1 + Len(q)
        /\ \A i \in 1 .. 1 + Len(q) : r[i] = IF i <= 1 THEN <<oid>>[i] ELSE q[i - 1]
    BY <1>1, <1>2, Concatenated, Zenon DEF insert_front
  <1> HIDE DEF r
  <1>4. r[1] = oid /\ \A i \in 1 .. Len(q) : r[i + 1] = q[i]
    BY <1>1, <1>2, <1>3
  <1>5. \A i \in 1 .. Len(r) : i = 1 \/ (i - 1 \in 1 .. Len(q) /\ r[i] = q[i - 1])
    BY <1>1, <1>3
  <1>6. \A i, j \in 1 .. Len(r) : r[i] = r[j] => i = j
    <2> SUFFICES ASSUME NEW i \in 1 .. Len(r), NEW j \in 1 .. Len(r), r[i] = r[j]
                 PROVE  i = j
      BY Zenon
    <2> QED BY <1>1, <1>3, <1>4, <1>5, SMTT(30) DEF Lists
  <1>7. \A i \in 1 .. Len(r) : r[i] \in s \cup {oid}
    BY <1>4, <1>5, Zenon DEF Lists
  <1>8. \A x \in s \cup {oid} : \E i \in 1 .. Len(r) : r[i] = x
    <2> SUFFICES ASSUME NEW x \in s \cup {oid}
                 PROVE  \E i \in 1 .. Len(r) : r[i] = x
      BY Zenon
    <2>1. CASE x = oid
      BY <2>1, <1>1, <1>3, <1>4
    <2>2. CASE x \in s
      <3>1. PICK i \in 1 .. Len(q) : q[i] = x
        BY <2>2, Zenon DEF Lists
      <3>2. i + 1 \in 1 .. Len(r) /\ r[i + 1] = x
        BY <3>1, <1>1, <1>3, <1>4
      <3> QED BY <3>2, Zenon
    <2> QED BY <2>1, <2>2, Zenon
  <1>9. IsFiniteSet(s \cup {oid}) /\ Cardinality(s \cup {oid}) = Len(r)
    <2>1. IsFiniteSet(s) /\ Cardinality(s) = Len(q)
      BY Zenon DEF Lists
    <2>2. IsFiniteSet(s \cup {oid}) /\ Cardinality(s \cup {oid}) = Cardinality(s) + 1
      BY <2>1, OneMore, Zenon
    <2> QED BY <2>1, <2>2, <1>1, <1>3
  <1>10. MovedBack(q, r)
    BY <1>4, Zenon DEF MovedBack
  <1> QED BY <1>1, <1>3, <1>4, <1>6, <1>7, <1>8, <1>9, <1>10 DEF Lists, r

\* Dropping position k: what is left lists the set without that element.
LEMMA DropAt ==
    ASSUME NEW S, NEW r, NEW t, Lists(S, r, t),
           NEW k \in 1 .. Len(r), NEW d \in Seq(S),
           Len(d) = Len(r) - 1,
           \A i \in 1 .. k - 1 : d[i] = r[i],
           \A i \in k .. Len(d) : d[i] = r[i + 1]
    PROVE  Lists(S, d, t \ {r[k]})
  <1>1. Len(r) \in Nat /\ Len(d) \in Nat
    BY Indexed, Zenon DEF Lists
  <1> DEFINE at(i) == IF i < k THEN i ELSE i + 1
  <1>2. \A i \in 1 .. Len(d) : at(i) \in 1 .. Len(r) /\ at(i) # k /\ d[i] = r[at(i)]
    BY <1>1
  <1>3. \A i, j \in 1 .. Len(d) : at(i) = at(j) => i = j
    BY <1>1
  <1>4. \A i \in 1 .. Len(r) : i # k => \E j \in 1 .. Len(d) : at(j) = i
    <2> SUFFICES ASSUME NEW i \in 1 .. Len(r), i # k
                 PROVE  \E j \in 1 .. Len(d) : at(j) = i
      BY Zenon
    <2>1. CASE i < k
      <3> i \in 1 .. Len(d) /\ at(i) = i
        BY <2>1, <1>1
      <3> QED BY Zenon
    <2>2. CASE i > k
      <3> i - 1 \in 1 .. Len(d) /\ at(i - 1) = i
        BY <2>2, <1>1
      <3> QED BY Zenon
    <2> QED BY <2>1, <2>2, <1>1
  <1> HIDE DEF at
  <1>5. \A i, j \in 1 .. Len(d) : d[i] = d[j] => i = j
    BY <1>2, <1>3 DEF Lists
  <1>6. \A i \in 1 .. Len(d) : d[i] \in t \ {r[k]}
    BY <1>2 DEF Lists
  <1>7. \A x \in t \ {r[k]} : \E i \in 1 .. Len(d) : d[i] = x
    <2> SUFFICES ASSUME NEW x \in t \ {r[k]}
                 PROVE  \E i \in 1 .. Len(d) : d[i] = x
      BY Zenon
    <2>1. PICK i \in 1 .. Len(r) : r[i] = x
      BY Zenon DEF Lists
    <2>2. i # k
      BY <2>1, Zenon
    <2> QED BY <2>1, <2>2, <1>2, <1>4, Zenon
  <1>8. r[k] \in t /\ IsFiniteSet(t) /\ Cardinality(t) = Len(r)
    BY Zenon DEF Lists
  <1>9. IsFiniteSet(t \ {r[k]}) /\ Cardinality(t \ {r[k]}) = Len(d)
    BY <1>8, OneLess, Zenon
  <1> QED BY <1>5, <1>6, <1>7, <1>9, Zenon DEF Lists

\* pop_front.
LEMMA DropFirst ==
    ASSUME NEW S, NEW r, NEW t, Lists(S, r, t), Len(r) > 0
    PROVE  /\ Lists(S, Tail(r), t \ {Head(r)})
           /\ Len(Tail(r)) = Len(r) - 1
           /\ Head(r) \in t
  <1> DEFINE d == Tail(r)
  <1>1. r \in Seq(S) /\ r # <<>> /\ Len(r) \in Nat
    BY Indexed, NotEmpty DEF Lists
  <1>2. /\ d \in Seq(S)
        /\ Len(d) = Len(r) - 1
        /\ \A i \in 1 .. Len(d) : d[i] = r[i + 1]
    BY <1>1, PopFront
  <1>3. Head(r) = r[1] /\ 1 \in 1 .. Len(r)
    BY <1>1
  <1>4. \A i \in 1 .. 1 - 1 : d[i] = r[i]
    OBVIOUS
  <1> HIDE DEF d
  <1>5. Lists(S, d, t \ {r[1]})
    BY <1>2, <1>3, <1>4, DropAt
  <1> QED BY <1>2, <1>3, <1>5 DEF Lists, d

\* pop_back.
LEMMA DropLast ==
    ASSUME NEW S, NEW r, NEW t, Lists(S, r, t), Len(r) > 0
    PROVE  /\ Lists(S, pop_back(r), t \ {r[Len(r)]})
           /\ Len(pop_back(r)) = Len(r) - 1
           /\ r[Len(r)] \in t
           /\ \A i \in 1 .. Len(r) - 1 : pop_back(r)[i] = r[i]
  <1> DEFINE n == Len(r) - 1
             d == SubSeq(r, 1, n)
  <1>1. r \in Seq(S) /\ Len(r) \in Nat
    BY Indexed DEF Lists
  <1>2. n \in Nat /\ \A i \in 1 .. n : r[i] \in S
    BY <1>1, IsElement
  <1> HIDE DEF n
  <1>3. /\ d \in Seq(S)
        /\ Len(d) = IF 1 <= n THEN n - 1 + 1 ELSE 0
        /\ \A i \in 1 .. n - 1 + 1 : d[i] = r[1 + i - 1]
    BY <1>2, Subrange
  <1> HIDE DEF d
  <1>4. Len(d) = n /\ \A i \in 1 .. n : d[i] = r[i]
    BY <1>2, <1>3
  <1>5. n + 1 \in 1 .. Len(r) /\ Len(r) = n + 1
    BY <1>1 DEF n
  <1>6. \A i \in (n + 1) .. Len(d) : d[i] = r[i + 1]
    BY <1>2, <1>4
  <1>7. Lists(S, d, t \ {r[n + 1]})
    BY <1>2, <1>3, <1>4, <1>5, <1>6, DropAt
  <1>8. pop_back(r) = d /\ r[Len(r)] = r[n + 1]
    BY <1>5 DEF pop_back, d, n
  <1>9. \A i \in 1 .. Len(r) - 1 : pop_back(r)[i] = r[i]
    BY <1>4, <1>8 DEF n
  <1> QED BY <1>4, <1>5, <1>7, <1>8, <1>9 DEF Lists

\* erase of the element equal to e: nothing moves away from the front.
LEMMA DropElement ==
    ASSUME NEW S, NEW r, NEW t, Lists(S, r, t), NEW e \in t
    PROVE  /\ Lists(S, erase(r, e), t \ {e})
           /\ Len(erase(r, e)) = Len(r) - 1
           /\ MovedUp(r, e, erase(r, e))
  <1>1. r \in Seq(S) /\ Len(r) \in Nat
    BY Indexed DEF Lists
  <1>2. PICK k \in 1 .. Len(r) : r[k] = e
    BY Zenon DEF Lists
  <1>3. {i \in 1 .. Len(r) : r[i] = e} = {k}
    BY <1>2 DEF Lists
  <1>4. Min({k}) = k
    BY <1>1 DEF Min
  <1>5. {k} # {}
    OBVIOUS
  <1>6. erase(r, e) = SubSeq(r, 1, k - 1) \o SubSeq(r, k + 1, Len(r))
    BY <1>3, <1>4, <1>5, Zenon DEF erase
  <1> DEFINE a == SubSeq(r, 1, k - 1)
             b == SubSeq(r, k + 1, Len(r))
             d == a \o b
  <1>7. \A i \in 1 .. Len(r) : r[i] \in S
    BY <1>1, IsElement
  <1>8. /\ a \in Seq(S)
        /\ Len(a) = k - 1
        /\ \A i \in 1 .. k - 1 : a[i] = r[i]
    <2>1. k - 1 \in Int /\ \A i \in 1 .. k - 1 : r[i] \in S
      BY <1>1, <1>7
    <2>2. /\ a \in Seq(S)
          /\ Len(a) = IF 1 <= k - 1 THEN (k - 1) - 1 + 1 ELSE 0
          /\ \A i \in 1 .. (k - 1) - 1 + 1 : a[i] = r[1 + i - 1]
      BY <2>1, Subrange
    <2> HIDE DEF a
    <2> QED BY <2>2
  <1>9. /\ b \in Seq(S)
        /\ Len(b) = Len(r) - k
        /\ \A i \in 1 .. Len(r) - k : b[i] = r[k + i]
    <2>1. k + 1 \in Int /\ Len(r) \in Int /\ \A i \in k + 1 .. Len(r) : r[i] \in S
      BY <1>1, <1>7
    <2>2. /\ b \in Seq(S)
          /\ Len(b) = IF k + 1 <= Len(r) THEN Len(r) - (k + 1) + 1 ELSE 0
          /\ \A i \in 1 .. Len(r) - (k + 1) + 1 : b[i] = r[(k + 1) + i - 1]
      BY <2>1, Subrange
    <2> HIDE DEF b
    <2> QED BY <2>2, <1>1
  <1> HIDE DEF a, b
  <1>10. /\ d \in Seq(S)
         /\ Len(d) = Len(a) + Len(b)
         /\ \A i \in 1 .. Len(a) + Len(b) :
               d[i] = IF i <= Len(a) THEN a[i] ELSE b[i - Len(a)]
    BY <1>8, <1>9, Concatenated, Zenon
  <1> HIDE DEF d
  <1>11. Len(d) = Len(r) - 1
    BY <1>1, <1>8, <1>9, <1>10
  <1>12. \A i \in 1 .. k - 1 : d[i] = r[i]
    <2> TAKE i \in 1 .. k - 1
    <2>1. i \in 1 .. Len(a) + Len(b) /\ i <= Len(a) /\ a[i] = r[i]
      BY <1>1, <1>8, <1>9
    <2> QED BY <2>1, <1>10
  <1>13. \A i \in k .. Len(d) : d[i] = r[i + 1]
    BY <1>1, <1>8, <1>9, <1>10
  <1>14. Lists(S, d, t \ {r[k]})
    BY <1>10, <1>11, <1>12, <1>13, DropAt, Zenon
  <1>15. ASSUME NEW i \in 1 .. Len(r), r[i] # e
         PROVE  \E j \in 1 .. Len(r) - 1 : j <= i /\ d[j] = r[i]
    <2>1. CASE i < k
      <3>1. i \in 1 .. Len(r) - 1 /\ i \in 1 .. k - 1 /\ i <= i
        BY <1>1, <2>1
      <3> QED BY <1>12, <3>1
    <2>2. CASE i > k
      <3>1. i - 1 \in 1 .. Len(r) - 1 /\ i - 1 \in k .. Len(d) /\ (i - 1) + 1 = i /\ i - 1 <= i
        BY <1>1, <1>11, <2>2
      <3> QED BY <1>13, <3>1, Zenon
    <2> QED BY <1>1, <1>2, <1>15, <2>1, <2>2
  <1>16. MovedUp(r, e, d)
    BY <1>15 DEF MovedUp
  <1> QED BY <1>2, <1>6, <1>11, <1>14, <1>16, Zenon DEF a, b, d

-----------------------------------------------------------------------------
(* The policies.                                                           *)

\* LRAddedEvictionPolicy::process_oid tracks the id, keeps its deque and set
\* in agreement and within max_size, and evicts at most one id, which it
\* tracked before and which is not the new one.
LEMMA LRAddedTracks ==
    ASSUME NEW S, NEW q, NEW s, NEW oid \in S, WellFormed(S, q, s)
    PROVE  Tracks(S, s, oid, LRAdded_process_oid(q, s, oid))
  <1> DEFINE r == Append(q, oid)
             t == s \cup {oid}
             p == LRAdded_process_oid(q, s, oid)
  <1>1. Len(q) \in Nat /\ PolicySize \in Nat \ {0} /\ Len(q) <= PolicySize
    BY Indexed, PolicyAssumption DEF WellFormed, Lists
  <1>2. CASE oid \in s
    <2>1. p = [order |-> q, ids |-> s, evicted |-> {}]
      BY <1>2 DEF LRAdded_process_oid, Unchanged, Bookkeeping
    <2> HIDE DEF p
    <2> QED BY <2>1, <1>2 DEF Tracks, p
  <1>3. CASE oid \notin s
    <2>1. Lists(S, r, t) /\ Len(r) = Len(q) + 1
      BY <1>3, AppendFresh DEF WellFormed
    <2>2. CASE Len(r) > PolicySize
      <3>1. p = [order |-> Tail(r), ids |-> t \ {Head(r)}, evicted |-> {Head(r)}]
        BY <1>3, <2>2 DEF LRAdded_process_oid, Bookkeeping
      <3>2. Head(r) \in s /\ Head(r) # oid
        <4>1. q \in Seq(S) /\ 1 \in 1 .. Len(q)
          BY <1>1, <2>1, <2>2 DEF WellFormed, Lists
        <4>2. Head(r) = q[1]
          BY <4>1, PushBack
        <4> QED BY <4>1, <4>2, <1>3 DEF WellFormed, Lists
      <3>3. Lists(S, Tail(r), t \ {Head(r)}) /\ Len(Tail(r)) = Len(r) - 1
        <4>1. Len(r) > 0
          BY <1>1, <2>1
        <4> HIDE DEF r, t
        <4> QED BY <2>1, <4>1, DropFirst
      <3> HIDE DEF p, r
      <3>4. WellFormed(S, p.order, p.ids)
        BY <1>1, <2>1, <3>1, <3>3 DEF WellFormed
      <3> QED BY <1>3, <3>1, <3>2, <3>4 DEF Tracks, p
    <2>3. CASE ~(Len(r) > PolicySize)
      <3>1. p = [order |-> r, ids |-> t, evicted |-> {}]
        BY <1>3, <2>3 DEF LRAdded_process_oid, Unchanged, Bookkeeping
      <3> HIDE DEF p, r
      <3>2. WellFormed(S, p.order, p.ids)
        BY <1>1, <2>1, <2>3, <3>1 DEF WellFormed
      <3> QED BY <1>3, <3>1, <3>2 DEF Tracks, p
    <2> QED BY <2>2, <2>3
  <1> QED BY <1>2, <1>3

\* LRUEvictionPolicy::process_oid, likewise.
LEMMA LRUTracks ==
    ASSUME NEW S, NEW q, NEW s, NEW oid \in S, WellFormed(S, q, s)
    PROVE  Tracks(S, s, oid, LRU_process_oid(q, s, oid))
  <1> DEFINE r == insert_front(oid, q)
             t == s \cup {oid}
             p == LRU_process_oid(q, s, oid)
  <1>1. Len(q) \in Nat /\ PolicySize \in Nat \ {0} /\ Len(q) <= PolicySize
    BY Indexed, PolicyAssumption, Zenon DEF WellFormed, Lists
  <1>2. CASE oid \in s
    <2> DEFINE d == erase(q, oid)
    <2>1. p = [order |-> insert_front(oid, d), ids |-> s, evicted |-> {}]
      BY <1>2 DEF LRU_process_oid, Unchanged, Bookkeeping
    <2>2. Lists(S, d, s \ {oid}) /\ Len(d) = Len(q) - 1
      BY <1>2, DropElement, Zenon DEF WellFormed
    <2> HIDE DEF p, d
    <2>3. (s \ {oid}) \cup {oid} = s
      BY <1>2, Zenon
    <2>4. Lists(S, insert_front(oid, d), s) /\ Len(insert_front(oid, d)) = Len(q)
      <3>1. /\ Lists(S, insert_front(oid, d), (s \ {oid}) \cup {oid})
            /\ Len(insert_front(oid, d)) = Len(d) + 1
        BY <2>2, ConsFresh
      <3>2. Lists(S, insert_front(oid, d), s)
        BY <2>3, <3>1, Zenon
      <3> QED BY <1>1, <2>2, <3>1, <3>2
    <2>5. WellFormed(S, p.order, p.ids)
      BY <1>1, <2>1, <2>4 DEF WellFormed
    <2> QED BY <1>2, <2>1, <2>5 DEF Tracks, p
  <1>3. CASE oid \notin s
    <2>1. Lists(S, r, t) /\ Len(r) = Len(q) + 1 /\ r[1] = oid
      BY <1>3, ConsFresh DEF WellFormed
    <2>2. Cardinality(t) = Len(r)
      BY <2>1, Zenon DEF Lists
    <2>3. CASE Len(r) > PolicySize
      <3>1. p = [order |-> pop_back(r), ids |-> t \ {r[Len(r)]}, evicted |-> {r[Len(r)]}]
        BY <1>3, <2>2, <2>3 DEF LRU_process_oid, Bookkeeping
      <3>2. /\ Lists(S, pop_back(r), t \ {r[Len(r)]})
            /\ Len(pop_back(r)) = Len(r) - 1
            /\ r[Len(r)] \in t
        <4>1. Len(r) > 0
          BY <1>1, <2>1
        <4> HIDE DEF r, t
        <4> QED BY <2>1, <4>1, DropLast, Zenon
      <3> HIDE DEF p, r
      <3>3. r[Len(r)] # oid
        BY <1>1, <2>1, <2>3 DEF Lists
      <3>4. WellFormed(S, p.order, p.ids)
        BY <1>1, <2>1, <3>1, <3>2 DEF WellFormed
      <3> QED BY <1>3, <3>1, <3>2, <3>3, <3>4 DEF Tracks, p
    <2>4. CASE ~(Len(r) > PolicySize)
      <3>1. p = [order |-> r, ids |-> t, evicted |-> {}]
        BY <1>3, <2>2, <2>4 DEF LRU_process_oid, Unchanged, Bookkeeping
      <3> HIDE DEF p, r
      <3>2. WellFormed(S, p.order, p.ids)
        BY <1>1, <2>1, <2>4, <3>1 DEF WellFormed
      <3> QED BY <1>3, <3>1, <3>2 DEF Tracks, p
    <2> QED BY <2>3, <2>4
  <1> QED BY <1>2, <1>3, Zenon

\* What the cache may rely on when it announces a get or a prefetch.
LEMMA PolicyTracks ==
    ASSUME NEW S, NEW q, NEW s, NEW oid \in S, WellFormed(S, q, s)
    PROVE  /\ Tracks(S, s, oid, policy_get(q, s, oid))
           /\ Tracks(S, s, oid, policy_prefetch(q, s, oid))
           /\ Policy = "LRAdded" => Tracks(S, s, oid, policy_put(q, s, oid))
  BY LRAddedTracks, LRUTracks DEF policy_get, policy_prefetch, policy_put

\* remove forgets exactly the id.
LEMMA PolicyForgets ==
    ASSUME NEW S, NEW q, NEW s, NEW oid \in S, WellFormed(S, q, s)
    PROVE  /\ WellFormed(S, policy_remove(q, s, oid).order, policy_remove(q, s, oid).ids)
           /\ policy_remove(q, s, oid).ids = s \ {oid}
  <1> DEFINE p == policy_remove(q, s, oid)
  <1>1. CASE oid \in s
    <2>1. p = [order |-> erase(q, oid), ids |-> s \ {oid}, evicted |-> {}]
      BY <1>1 DEF policy_remove, Unchanged, Bookkeeping
    <2>2. /\ Lists(S, erase(q, oid), s \ {oid})
          /\ Len(erase(q, oid)) = Len(q) - 1
      BY <1>1, DropElement DEF WellFormed
    <2>3. Len(q) \in Nat /\ PolicySize \in Nat
      BY Indexed, PolicyAssumption DEF WellFormed, Lists
    <2> HIDE DEF p
    <2>4. WellFormed(S, p.order, p.ids)
      BY <2>1, <2>2, <2>3 DEF WellFormed
    <2> QED BY <2>1, <2>4 DEF p
  <1>2. CASE oid \notin s
    <2>1. p = [order |-> q, ids |-> s, evicted |-> {}]
      BY <1>2 DEF policy_remove, Unchanged, Bookkeeping
    <2> QED BY <2>1, <1>2
  <1> QED BY <1>1, <1>2

\* LRU: the id just announced is at the front of the list, and an id that was
\* at position k moves back by at most one and is not the one to be evicted,
\* unless k is the last position the policy has.
LEMMA LRUAges ==
    ASSUME NEW S, NEW q, NEW s, NEW oid \in S, WellFormed(S, q, s)
    PROVE  LET p == LRU_process_oid(q, s, oid)
           IN  /\ Len(p.order) > 0 /\ p.order[1] = oid
               /\ \A k \in 1 .. Len(q) : k < PolicySize =>
                     /\ q[k] \notin p.evicted
                     /\ \E j \in 1 .. Len(p.order) : j <= k + 1 /\ p.order[j] = q[k]
  <1> DEFINE r == insert_front(oid, q)
             t == s \cup {oid}
             p == LRU_process_oid(q, s, oid)
  <1>1. Len(q) \in Nat /\ PolicySize \in Nat \ {0} /\ Len(q) <= PolicySize /\ Lists(S, q, s)
    BY Indexed, PolicyAssumption, Zenon DEF WellFormed, Lists
  <1>2. CASE oid \in s
    <2> DEFINE d == erase(q, oid)
    <2>1. p = [order |-> insert_front(oid, d), ids |-> s, evicted |-> {}]
      BY <1>2, Zenon DEF LRU_process_oid, Unchanged, Bookkeeping
    <2>2. Lists(S, d, s \ {oid}) /\ Len(d) = Len(q) - 1 /\ MovedUp(q, oid, d)
      BY <1>1, <1>2, DropElement
    <2> HIDE DEF d, p
    <2>3. Len(insert_front(oid, d)) = Len(d) + 1 /\ insert_front(oid, d)[1] = oid /\ MovedBack(d, insert_front(oid, d))
      BY <2>2, ConsFresh, Zenon
    <2> DEFINE o == p.order
    <2>4. /\ Len(o) = Len(q) /\ o[1] = oid /\ p.evicted = {}
          /\ \A i \in 1 .. Len(q) - 1 : o[i + 1] = d[i]
      BY <1>1, <2>1, <2>2, <2>3 DEF MovedBack
    <2> HIDE DEF o
    <2>5. Len(q) > 0
      BY <1>1, <1>2 DEF Lists
    <2>6. ASSUME NEW k \in 1 .. Len(q)
          PROVE  \E j \in 1 .. Len(o) : j <= k + 1 /\ o[j] = q[k]
      <3>1. CASE q[k] = oid
        <4>1. 1 \in 1 .. Len(o) /\ 1 <= k + 1
          BY <1>1, <2>4, <2>5
        <4> QED BY <2>4, <3>1, <4>1
      <3>2. CASE q[k] # oid
        <4>1. PICK i \in 1 .. Len(q) - 1 : i <= k /\ d[i] = q[k]
          BY <2>2, <3>2 DEF MovedUp
        <4>2. i + 1 \in 1 .. Len(o) /\ i + 1 <= k + 1 /\ o[i + 1] = q[k]
          BY <1>1, <2>4, <4>1
        <4> QED BY <4>2
      <3> QED BY <3>1, <3>2, Zenon
    <2> QED BY <2>4, <2>5, <2>6 DEF o, p
  <1>3. CASE oid \notin s
    <2>1. Lists(S, r, t) /\ Len(r) = Len(q) + 1 /\ r[1] = oid /\ MovedBack(q, r)
      BY <1>1, <1>3, ConsFresh
    <2>2. Cardinality(t) = Len(r)
      BY <2>1 DEF Lists
    <2>3. CASE Len(r) > PolicySize
      <3>1. p = [order |-> pop_back(r), ids |-> t \ {r[Len(r)]}, evicted |-> {r[Len(r)]}]
        BY <1>3, <2>2, <2>3, Zenon DEF LRU_process_oid, Bookkeeping
      <3>2. /\ Len(pop_back(r)) = Len(r) - 1
            /\ \A i \in 1 .. Len(r) - 1 : pop_back(r)[i] = r[i]
        <4>1. Len(r) > 0
          BY <1>1, <2>1
        <4> HIDE DEF r, t
        <4> QED BY <2>1, <4>1, DropLast, Zenon
      <3>3. Len(q) = PolicySize
        BY <1>1, <2>1, <2>3
      <3> HIDE DEF r, p
      <3>4. ASSUME NEW k \in 1 .. Len(q), k < PolicySize
            PROVE  /\ q[k] # r[Len(r)]
                   /\ k + 1 \in 1 .. Len(pop_back(r)) /\ pop_back(r)[k + 1] = q[k]
        <4>1. k + 1 \in 1 .. Len(r) - 1 /\ r[k + 1] = q[k]
          BY <1>1, <2>1, <3>3, <3>4 DEF MovedBack
        <4>2. k + 1 \in 1 .. Len(r) /\ Len(r) \in 1 .. Len(r) /\ k + 1 # Len(r)
          BY <1>1, <2>1, <4>1
        <4> QED BY <2>1, <3>2, <4>1, <4>2 DEF Lists
      <3>5. Len(pop_back(r)) > 0 /\ pop_back(r)[1] = oid
        BY <1>1, <2>1, <3>2, <3>3
      <3>6. p.order = pop_back(r) /\ p.evicted = {r[Len(r)]}
        BY <3>1
      <3>7. ASSUME NEW k \in 1 .. Len(q), k < PolicySize
            PROVE  /\ q[k] \notin p.evicted
                   /\ \E j \in 1 .. Len(p.order) : j <= k + 1 /\ p.order[j] = q[k]
        <4>1. k + 1 \in 1 .. Len(p.order) /\ k + 1 <= k + 1 /\ p.order[k + 1] = q[k]
          BY <3>4, <3>6, <3>7
        <4>2. q[k] \notin p.evicted
          BY <3>4, <3>6, <3>7
        <4> QED BY <4>1, <4>2
      <3> QED BY <3>5, <3>6, <3>7 DEF p
    <2>4. CASE ~(Len(r) > PolicySize)
      <3>1. p = [order |-> r, ids |-> t, evicted |-> {}]
        BY <1>3, <2>2, <2>4, Zenon DEF LRU_process_oid, Unchanged, Bookkeeping
      <3> HIDE DEF r, p
      <3>2. p.order = r /\ p.evicted = {}
        BY <3>1
      <3>3. ASSUME NEW k \in 1 .. Len(q)
            PROVE  \E j \in 1 .. Len(r) : j <= k + 1 /\ r[j] = q[k]
        <4>1. k + 1 \in 1 .. Len(r) /\ k + 1 <= k + 1 /\ r[k + 1] = q[k]
          BY <1>1, <2>1 DEF MovedBack
        <4> QED BY <4>1
      <3>4. Len(p.order) > 0 /\ p.order[1] = oid
        BY <1>1, <2>1, <3>2
      <3>5. \A k \in 1 .. Len(q) : q[k] \notin p.evicted
        BY <3>2
      <3>6. \A k \in 1 .. Len(q) : \E j \in 1 .. Len(p.order) : j <= k + 1 /\ p.order[j] = q[k]
        BY <3>2, <3>3
      <3> QED BY <3>4, <3>5, <3>6 DEF p
    <2> QED BY <2>3, <2>4
  <1> QED BY <1>2, <1>3

-----------------------------------------------------------------------------
(* The types.                                                              *)

\* An entry that evict may write holds a put object, and an entry that is not
\* cached has a future to wait for.
GoodEntry == {e \in cache_entry : /\ e.dirty => e.obj \in Values
                                  /\ ~e.cached => e.future # "none"}

\* get still points into the cache.
LiveEntry == frame.pc = "prefetch" /\ frame.live => frame.oid \in DOMAIN cache

TypeInv ==
    /\ IsPartialMap(cache, ObjectID, GoodEntry)
    /\ WellFormed(ObjectID, order, tracked)
    /\ IsPartialMap(pending_writes, ObjectID, PutFuture)
    /\ mode \in Modes \cup {[kind |-> "kNone"]}
    /\ net \in Seq(Requests)
    /\ IsPartialMap(store, ObjectID, Values)
    /\ frame \in Frames
    /\ ret.out \in Outcomes
    /\ LiveEntry

-----------------------------------------------------------------------------
(* Maps.                                                                   *)

\* operator[] and assignment.
LEMMA BindMap ==
    ASSUME NEW f, NEW S, NEW T, IsPartialMap(f, S, T), NEW k \in S, NEW v \in T
    PROVE  IsPartialMap(Bind(f, k, v), S, T)
  BY DEF IsPartialMap, Bind

\* erase.
LEMMA EraseMap ==
    ASSUME NEW f, NEW S, NEW T, IsPartialMap(f, S, T), NEW k
    PROVE  IsPartialMap(Erase(f, k), S, T)
  BY Zenon DEF IsPartialMap, Erase

\* The keys after either.
LEMMA Keys ==
    ASSUME NEW f, NEW k
    PROVE  /\ \A v : DOMAIN Bind(f, k, v) = DOMAIN f \cup {k}
           /\ DOMAIN Erase(f, k) = DOMAIN f \ {k}
  BY DEF Bind, Erase

\* Cleaning the pending writes only drops entries.
LEMMA CleaningsType ==
    ASSUME NEW w, IsPartialMap(w, ObjectID, PutFuture), NEW k \in Cleanings(w)
    PROVE  IsPartialMap(k.left, ObjectID, PutFuture)
  <1>1. CASE Cardinality(DOMAIN w) > HighPend
    <2>1. PICK s : k = Sweep(w, s)
      BY <1>1 DEF Cleanings
    <2>2. \E g : k.left = [o \in DOMAIN w \ g |-> w[o]]
      BY <2>1, Zenon DEF Sweep
    <2> QED BY <2>2 DEF IsPartialMap
  <1>2. CASE ~(Cardinality(DOMAIN w) > HighPend)
    BY <1>2 DEF Cleanings
  <1> QED BY <1>1, <1>2

\* What the evictions of a set of ids do to the cache, the pending writes and
\* the connection.
LEMMA EvictVector ==
    ASSUME TypeInv, NEW V, V = {} \/ \E v : V = {v}, NEW r \in evict_vector(V)
    PROVE  /\ IsPartialMap(r.cache, ObjectID, GoodEntry)
           /\ IsPartialMap(r.pending, ObjectID, PutFuture)
           /\ r.net \in Seq(Requests)
           /\ r.status \in {"ok", "crash", "EvictError"}
           /\ DOMAIN r.cache \subseteq DOMAIN cache
           /\ r.status # "EvictError" => DOMAIN r.cache = DOMAIN cache \ V
           /\ V \subseteq DOMAIN cache => r.status # "EvictError"
  <1>1. CASE V = {}
    BY <1>1 DEF evict_vector, Evicted, TypeInv
  <1>2. CASE \E v : V = {v}
    <2>1. PICK v : V = {v}
      BY <1>2
    <2>2. r \in evict(v)
      BY <2>1 DEF evict_vector
    <2>3. CASE v \notin DOMAIN cache
      <3>1. r = [status |-> "EvictError", cache |-> cache, pending |-> pending_writes, net |-> net]
        BY <2>2, <2>3 DEF evict, Evicted
      <3> QED BY <2>1, <2>3, <3>1 DEF TypeInv
    <2>4. CASE v \in DOMAIN cache
      <3> DEFINE writes == DeferWrites /\ cache[v].dirty
                 w == IF writes THEN Bind(pending_writes, v, NewFuture) ELSE pending_writes
                 n == IF writes
                      THEN Append(net, [op |-> "write", oid |-> v, val |-> cache[v].obj])
                      ELSE net
      <3>1. PICK k \in Cleanings(w) :
               r = [status |-> IF k.past THEN "crash" ELSE "ok", cache |-> Erase(cache, v),
                    pending |-> k.left, net |-> n]
        BY <2>2, <2>4 DEF evict, Evicted
      <3>2. v \in ObjectID /\ cache[v] \in GoodEntry
        BY <2>4 DEF TypeInv, IsPartialMap
      <3>3. IsPartialMap(w, ObjectID, PutFuture)
        <4>1. NewFuture \in PutFuture
          BY Zenon DEF NewFuture, PutFuture
        <4> QED BY <3>2, <4>1, BindMap DEF TypeInv
      <3>4. n \in Seq(Requests)
        <4>1. writes => [op |-> "write", oid |-> v, val |-> cache[v].obj] \in Requests
          BY <3>2, Zenon DEF GoodEntry, Requests
        <4> QED BY <4>1 DEF TypeInv
      <3>5. IsPartialMap(k.left, ObjectID, PutFuture)
        BY <3>3, CleaningsType
      <3>6. IsPartialMap(Erase(cache, v), ObjectID, GoodEntry)
            /\ DOMAIN Erase(cache, v) = DOMAIN cache \ {v}
        BY EraseMap, Keys, Zenon DEF TypeInv
      <3> HIDE DEF w, n
      <3> QED BY <2>1, <3>1, <3>4, <3>5, <3>6
    <2> QED BY <2>3, <2>4
  <1> QED BY <1>1, <1>2

\* FetchAhead(oid, r), the rest of prefetch, inserts exactly oid.
LEMMA FetchAheadType ==
    ASSUME NEW oid \in ObjectID, NEW r,
           IsPartialMap(r.cache, ObjectID, GoodEntry), r.net \in Seq(Requests),
           FetchAhead(oid, r)
    PROVE  /\ IsPartialMap(cache, ObjectID, GoodEntry)'
           /\ net' \in Seq(Requests)
           /\ DOMAIN cache' = DOMAIN r.cache \cup {oid}
  <1>1. CASE oid \in DOMAIN r.cache
    BY <1>1, Zenon DEF FetchAhead, IsPartialMap
  <1>2. CASE oid \notin DOMAIN r.cache
    <2> DEFINE e == [cached |-> FALSE, dirty |-> FALSE, obj |-> Default, future |-> "pending"]
    <2>1. cache' = Bind(r.cache, oid, e) /\ net' = Append(r.net, [op |-> "read", oid |-> oid])
      BY <1>2 DEF FetchAhead
    <2>2. e \in GoodEntry
      BY DEF GoodEntry, cache_entry, Futures
    <2>3. [op |-> "read", oid |-> oid] \in Requests
      BY DEF Requests
    <2> DEFINE c == r.cache
    <2>4. IsPartialMap(c, ObjectID, GoodEntry)
      BY Zenon
    <2> HIDE DEF e, c
    <2>5. /\ IsPartialMap(Bind(c, oid, e), ObjectID, GoodEntry)
          /\ DOMAIN Bind(c, oid, e) = DOMAIN c \cup {oid}
      BY <2>2, <2>4, BindMap, Keys, Zenon
    <2> QED BY <2>1, <2>3, <2>5 DEF IsPartialMap, c
  <1> QED BY <1>1, <1>2

\* OrderedPolicy::get stays within its range.
LEMMA OrderedListType ==
    ASSUME NEW m, m.first \in Nat, m.last \in Nat, m.read_ahead \in Nat,
           m.first .. m.last \subseteq ObjectID,
           NEW id \in m.first .. m.last
    PROVE  OrderedList(m, id) \in Seq(ObjectID)
  <1> DEFINE n == m.last - m.first + 1
             k == IF m.read_ahead > m.last - m.first THEN m.last - m.first ELSE m.read_ahead
             at(i) == ((id + i - m.first) % n) + m.first
  <1>1. n \in Nat \ {0} /\ k \in Nat
    OBVIOUS
  <1>2. \A i \in 1 .. k : at(i) \in ObjectID
    <2> TAKE i \in 1 .. k
    <2>1. id + i - m.first \in Nat
      BY <1>1
    <2>2. (id + i - m.first) % n \in 0 .. n - 1
      <3> HIDE DEF n
      <3> QED BY <1>1, <2>1
    <2>3. at(i) \in m.first .. m.last
      BY <2>2
    <2> QED BY <2>3
  <1>3. OrderedList(m, id) = [i \in 1 .. k |-> at(i)]
    BY DEF OrderedList
  <1> HIDE DEF k, at
  <1> QED BY <1>1, <1>2, <1>3

\* Starting the prefetching loop of get keeps the frame and the outcome typed.
LEMMA StartPrefetchingType ==
    ASSUME TypeInv, frame.pc = "get", StartPrefetching
    PROVE  /\ frame' \in Frames
           /\ ret'.out \in Outcomes
           /\ frame'.pc \in {"idle", "prefetch"}
           /\ frame'.pc = "prefetch" => frame'.oid = frame.oid
           /\ ret' = ret \/ ret'.out = "OutOfRange"
  <1>1. frame.oid \in ObjectID
    BY DEF TypeInv, Frames, Idle, Crashed
  <1>2. CASE mode.kind = "kOrdered" /\ frame.oid \notin mode.first .. mode.last
    BY <1>2 DEF StartPrefetching, Fail, Ended, Idle, Frames, Outcomes, Exceptions
  <1>3. CASE ~(mode.kind = "kOrdered" /\ frame.oid \notin mode.first .. mode.last)
    <2>1. PICK todo \in PrefetchLists(frame.oid) :
             frame' = [pc |-> "prefetch", oid |-> frame.oid, todo |-> todo, live |-> TRUE]
      BY <1>3 DEF StartPrefetching
    <2>2. ret' = ret
      BY <1>3 DEF StartPrefetching
    <2>3. todo \in Seq(ObjectID)
      <3>1. mode.kind \in {"kNone", "kOrdered", "kCustom"}
        BY CacheAssumption DEF TypeInv
      <3>2. CASE mode.kind = "kNone"
        BY <3>2 DEF PrefetchLists
      <3>3. CASE mode.kind = "kOrdered"
        <4>1. mode \in Modes
          BY <3>3 DEF TypeInv
        <4>2. /\ mode.first \in Nat
              /\ mode.last \in Nat
              /\ mode.read_ahead \in Nat
              /\ mode.first .. mode.last \subseteq ObjectID
          BY <3>3, <4>1, CacheAssumption
        <4>3. OrderedList(mode, frame.oid) \in Seq(ObjectID)
          BY <1>3, <3>3, <4>2, OrderedListType
        <4> QED BY <3>3, <4>3 DEF PrefetchLists
      <3>4. CASE mode.kind = "kCustom"
        BY <3>4, CacheAssumption DEF PrefetchLists
      <3> QED BY <3>1, <3>2, <3>3, <3>4
    <2> QED BY <1>1, <2>1, <2>2, <2>3 DEF Frames, TypeInv
  <1> QED BY <1>2, <1>3

\* What any of the three policy calls answers, whichever policy it is.
LEMMA PolicyAnswer ==
    ASSUME TypeInv, NEW oid \in ObjectID, NEW p,
           \/ p = policy_get(order, tracked, oid)
           \/ p = policy_prefetch(order, tracked, oid)
           \/ p = policy_put(order, tracked, oid)
    PROVE  /\ WellFormed(ObjectID, p.order, p.ids)
           /\ p.evicted = {} \/ \E v : p.evicted = {v}
  <1>1. WellFormed(ObjectID, order, tracked)
    BY DEF TypeInv
  <1>2. CASE Tracks(ObjectID, tracked, oid, p)
    BY <1>2 DEF Tracks
  <1>3. CASE p = Unchanged(order, tracked)
    BY <1>1, <1>3 DEF Unchanged, Bookkeeping
  <1>4. Tracks(ObjectID, tracked, oid, p) \/ p = Unchanged(order, tracked)
    BY <1>1, PolicyTracks DEF policy_put
  <1> QED BY <1>2, <1>3, <1>4

\* A call whose evictions fail leaves the cache typed.
LEMMA EvictionFailsType ==
    ASSUME TypeInv, NEW op, NEW oid, NEW r,
           IsPartialMap(r.cache, ObjectID, GoodEntry),
           r.net \in Seq(Requests),
           r.status \in {"ok", "crash", "EvictError"},
           EvictionFails(op, oid, r)
    PROVE  /\ IsPartialMap(cache, ObjectID, GoodEntry)'
           /\ net' \in Seq(Requests)
           /\ frame' \in Frames
           /\ frame'.pc \in {"idle", "crashed"}
           /\ ret'.out \in Outcomes
  <1>1. IsPartialMap(cache, ObjectID, GoodEntry)' /\ net' \in Seq(Requests)
    BY DEF EvictionFails, IsPartialMap
  <1>2. frame' \in {Idle, Crashed} /\ ret'.out \in Outcomes
    BY DEF EvictionFails, Fail, Ended, TypeInv, Outcomes, Exceptions
  <1> QED BY <1>1, <1>2 DEF Frames, Idle, Crashed

\* The calls that announce an id to the policy.
LEMMA TypeCalls ==
    ASSUME TypeInv, NEW oid \in ObjectID,
           GetCall(oid) \/ Prefetch(oid) \/ \E v \in Values : PutCall(oid, v)
    PROVE  TypeInv'
  <1> USE DEF LiveEntry
  <1>1. ASSUME NEW p, NEW r \in evict_vector(p.evicted), Apply(p, r),
               \/ p = policy_get(order, tracked, oid)
               \/ p = policy_prefetch(order, tracked, oid)
               \/ p = policy_put(order, tracked, oid)
        PROVE  /\ WellFormed(ObjectID, order, tracked)'
               /\ IsPartialMap(pending_writes, ObjectID, PutFuture)'
               /\ IsPartialMap(r.cache, ObjectID, GoodEntry)
               /\ r.net \in Seq(Requests)
               /\ r.status \in {"ok", "crash", "EvictError"}
    <2>1. /\ WellFormed(ObjectID, p.order, p.ids)
          /\ p.evicted = {} \/ \E x : p.evicted = {x}
      BY <1>1, PolicyAnswer
    <2>2. WellFormed(ObjectID, order, tracked)'
      BY <1>1, <2>1 DEF Apply, WellFormed, Lists
    <2>3. /\ IsPartialMap(r.cache, ObjectID, GoodEntry)
          /\ IsPartialMap(r.pending, ObjectID, PutFuture)
          /\ r.net \in Seq(Requests)
          /\ r.status \in {"ok", "crash", "EvictError"}
      BY <1>1, <2>1, EvictVector
    <2>4. IsPartialMap(pending_writes, ObjectID, PutFuture)'
      BY <1>1, <2>3 DEF Apply, IsPartialMap
    <2> QED BY <2>2, <2>3, <2>4
  <1>2. ASSUME UNCHANGED <<mode, store>>
        PROVE  (mode \in Modes \cup {[kind |-> "kNone"]})' /\ IsPartialMap(store, ObjectID, Values)'
    BY <1>2 DEF TypeInv, IsPartialMap
  <1>3. CASE GetCall(oid)
    <2>1. PICK r \in evict_vector(policy_get(order, tracked, oid).evicted) :
             /\ Apply(policy_get(order, tracked, oid), r)
             /\ \/ /\ r.status = "ok"
                   /\ cache' = r.cache
                   /\ net' = r.net
                   /\ frame' = [pc |-> "get", oid |-> oid]
                   /\ UNCHANGED ret
                \/ EvictionFails("get", oid, r)
      BY <1>3 DEF GetCall
    <2>2. UNCHANGED <<mode, store>>
      BY <1>3 DEF GetCall
    <2>3. /\ WellFormed(ObjectID, order, tracked)'
          /\ IsPartialMap(pending_writes, ObjectID, PutFuture)'
          /\ IsPartialMap(r.cache, ObjectID, GoodEntry)
          /\ r.net \in Seq(Requests)
          /\ r.status \in {"ok", "crash", "EvictError"}
      BY <1>1, <2>1, SMTT(30)
    <2>4. CASE EvictionFails("get", oid, r)
      BY <1>2, <2>2, <2>3, <2>4, EvictionFailsType, SMTT(30) DEF TypeInv
    <2>5. CASE /\ cache' = r.cache
               /\ net' = r.net
               /\ frame' = [pc |-> "get", oid |-> oid]
               /\ UNCHANGED ret
      <3>1. frame' \in Frames /\ frame'.pc = "get"
        BY <2>5 DEF Frames
      <3>2. IsPartialMap(cache, ObjectID, GoodEntry)'
        BY <2>3, <2>5 DEF IsPartialMap
      <3>3. net' \in Seq(Requests) /\ ret'.out \in Outcomes
        BY <2>3, <2>5 DEF TypeInv
      <3> QED BY <1>2, <2>2, <2>3, <3>1, <3>2, <3>3 DEF TypeInv
    <2> QED BY <2>1, <2>4, <2>5
  <1>4. CASE Prefetch(oid)
    <2>1. PICK r \in evict_vector(policy_prefetch(order, tracked, oid).evicted) :
             /\ Apply(policy_prefetch(order, tracked, oid), r)
             /\ \/ /\ r.status = "ok"
                   /\ FetchAhead(oid, r)
                   /\ frame' = Idle
                   /\ ret' = Ended("prefetch", oid, "ok")
                \/ EvictionFails("prefetch", oid, r)
      BY <1>4 DEF Prefetch
    <2>2. UNCHANGED <<mode, store>>
      BY <1>4 DEF Prefetch
    <2>3. /\ WellFormed(ObjectID, order, tracked)'
          /\ IsPartialMap(pending_writes, ObjectID, PutFuture)'
          /\ IsPartialMap(r.cache, ObjectID, GoodEntry)
          /\ r.net \in Seq(Requests)
          /\ r.status \in {"ok", "crash", "EvictError"}
      BY <1>1, <2>1, SMTT(30)
    <2>4. CASE EvictionFails("prefetch", oid, r)
      BY <1>2, <2>2, <2>3, <2>4, EvictionFailsType, SMTT(30) DEF TypeInv
    <2>5. CASE /\ FetchAhead(oid, r)
               /\ frame' = Idle
               /\ ret' = Ended("prefetch", oid, "ok")
      <3>1. frame' \in Frames /\ frame'.pc = "idle" /\ ret'.out \in Outcomes
        BY <2>5 DEF Frames, Idle, Ended, Outcomes
      <3>2. IsPartialMap(cache, ObjectID, GoodEntry)' /\ net' \in Seq(Requests)
        BY <2>3, <2>5, FetchAheadType, Zenon
      <3> QED BY <1>2, <2>2, <2>3, <3>1, <3>2 DEF TypeInv
    <2> QED BY <2>1, <2>4, <2>5
  <1>5. ASSUME NEW v \in Values, PutCall(oid, v) PROVE TypeInv'
    <2> DEFINE fresh == [cached |-> TRUE, dirty |-> TRUE, obj |-> v, future |-> "none"]
               hit(c) == [c[oid] EXCEPT !.obj = v, !.dirty = TRUE]
               entry(c) == IF oid \in DOMAIN c THEN hit(c) ELSE fresh
    <2>1. PICK r \in evict_vector(policy_put(order, tracked, oid).evicted) :
             /\ Apply(policy_put(order, tracked, oid), r)
             /\ \/ EvictionFails("put", oid, r)
                \/ /\ net' = r.net
                   /\ \/ /\ cache' = r.cache
                         /\ Fail("put", oid, "CacheCapacity")
                      \/ /\ cache' = Bind(r.cache, oid, entry(r.cache))
                         /\ \/ frame' = Idle /\ ret' = Ended("put", oid, "ok")
                            \/ frame' = [pc |-> "put", oid |-> oid, val |-> v] /\ UNCHANGED ret
      BY <1>5, Zenon DEF PutCall
    <2>2. UNCHANGED <<mode, store>>
      BY <1>5, Zenon DEF PutCall
    <2>3. /\ WellFormed(ObjectID, order, tracked)'
          /\ IsPartialMap(pending_writes, ObjectID, PutFuture)'
          /\ IsPartialMap(r.cache, ObjectID, GoodEntry)
          /\ r.net \in Seq(Requests)
          /\ r.status \in {"ok", "crash", "EvictError"}
      BY <1>1, <2>1, SMTT(30)
    <2>4. CASE EvictionFails("put", oid, r)
      BY <1>2, <2>2, <2>3, <2>4, EvictionFailsType, SMTT(30) DEF TypeInv
    <2>5. CASE net' = r.net /\ cache' = r.cache /\ Fail("put", oid, "CacheCapacity")
      <3>1. frame' \in Frames /\ frame'.pc = "idle" /\ ret'.out \in Outcomes
        BY <2>5 DEF Fail, Ended, Frames, Idle, Outcomes, Exceptions
      <3>2. IsPartialMap(cache, ObjectID, GoodEntry)' /\ net' \in Seq(Requests)
        BY <2>3, <2>5, SMTT(30) DEF IsPartialMap
      <3> QED BY <1>2, <2>2, <2>3, <3>1, <3>2, SMTT(30) DEF TypeInv
    <2>6. CASE /\ net' = r.net
               /\ cache' = Bind(r.cache, oid, entry(r.cache))
               /\ \/ frame' = Idle /\ ret' = Ended("put", oid, "ok")
                  \/ frame' = [pc |-> "put", oid |-> oid, val |-> v] /\ UNCHANGED ret
      <3>1. frame' \in Frames /\ frame'.pc \in {"idle", "put"} /\ ret'.out \in Outcomes
        BY <2>6 DEF Ended, Frames, Idle, Outcomes, TypeInv
      <3>2. fresh \in GoodEntry
        BY Zenon DEF GoodEntry, cache_entry, Futures
      <3>3. ASSUME NEW x \in GoodEntry
            PROVE  [x EXCEPT !.obj = v, !.dirty = TRUE] \in GoodEntry
        BY Zenon DEF GoodEntry, cache_entry
      <3>4. entry(r.cache) \in GoodEntry
        <4>1. CASE oid \in DOMAIN r.cache
          <5>1. r.cache[oid] \in GoodEntry
            BY <2>3, <4>1 DEF IsPartialMap
          <5> HIDE DEF fresh
          <5> QED BY <4>1, <5>1, <3>3, Zenon
        <4>2. CASE oid \notin DOMAIN r.cache
          BY <4>2, <3>2
        <4> QED BY <4>1, <4>2
      <3>5. IsPartialMap(cache, ObjectID, GoodEntry)'
        <4> DEFINE e == entry(r.cache)
                   c == r.cache
        <4>1. cache' = Bind(c, oid, e) /\ e \in GoodEntry /\ IsPartialMap(c, ObjectID, GoodEntry)
          BY <2>3, <2>6, <3>4
        <4> HIDE DEF e, c
        <4>2. IsPartialMap(Bind(c, oid, e), ObjectID, GoodEntry)
          BY <4>1, BindMap
        <4> QED BY <4>1, <4>2 DEF IsPartialMap
      <3>6. net' \in Seq(Requests)
        BY <2>3, <2>6
      <3> QED BY <1>2, <2>2, <2>3, <3>1, <3>5, <3>6 DEF TypeInv
    <2> HIDE DEF entry
    <2> QED BY <2>1, <2>4, <2>5, <2>6
  <1> QED BY <1>3, <1>4, <1>5, Zenon

\* The steps of a get that has been announced: the entry it works on.
LEMMA TypeGet ==
    ASSUME TypeInv, GetHit \/ GetPrefetched \/ GetFull \/ GetMiss
    PROVE  TypeInv'
  <1> USE DEF LiveEntry
  <1>1. frame.pc = "get" /\ PendingWriteDone /\ UNCHANGED <<order, tracked, mode, net, store>>
    BY Zenon DEF GetHit, GetPrefetched, GetFull, GetMiss, policyVars
  <1>2. frame.oid \in ObjectID
    BY <1>1 DEF TypeInv, Frames, Idle, Crashed
  <1>3. /\ WellFormed(ObjectID, order, tracked)'
        /\ (mode \in Modes \cup {[kind |-> "kNone"]})'
        /\ net' \in Seq(Requests)
        /\ IsPartialMap(store, ObjectID, Values)'
    BY <1>1 DEF TypeInv, IsPartialMap, WellFormed, Lists
  <1>4. IsPartialMap(pending_writes, ObjectID, PutFuture)'
    <2>1. IsPartialMap(Erase(pending_writes, frame.oid), ObjectID, PutFuture)
      BY EraseMap, SMTT(30) DEF TypeInv
    <2> QED BY <1>1, <2>1 DEF PendingWriteDone, IsPartialMap
  <1>5. ASSUME StartPrefetching, frame.oid \in DOMAIN cache',
               IsPartialMap(cache, ObjectID, GoodEntry)'
        PROVE  TypeInv'
    BY <1>1, <1>3, <1>4, <1>5, StartPrefetchingType, SMTT(30) DEF TypeInv
  <1>6. ASSUME NEW why \in Exceptions, Fail("get", frame.oid, why),
               IsPartialMap(cache, ObjectID, GoodEntry)'
        PROVE  TypeInv'
    <2>1. frame' \in Frames /\ frame'.pc = "idle" /\ ret'.out \in Outcomes
      BY <1>6 DEF Fail, Ended, Idle, Frames, Outcomes
    <2> QED BY <1>3, <1>4, <1>6, <2>1 DEF TypeInv
  <1>7. CASE GetHit
    <2>1. StartPrefetching /\ cache' = cache /\ frame.oid \in DOMAIN cache
      BY <1>7 DEF GetHit
    <2>2. IsPartialMap(cache, ObjectID, GoodEntry)'
      BY <2>1 DEF TypeInv, IsPartialMap
    <2> QED BY <1>5, <2>1, <2>2
  <1>8. CASE GetPrefetched
    <2> DEFINE e == [cached |-> TRUE, dirty |-> cache[frame.oid].dirty,
                     obj |-> cache[frame.oid].future, future |-> "none"]
    <2>1. /\ frame.oid \in DOMAIN cache
          /\ ~cache[frame.oid].cached
          /\ cache[frame.oid].future # "pending"
          /\ cache[frame.oid] \in GoodEntry
      BY <1>8 DEF GetPrefetched, TypeInv, IsPartialMap
    <2>2. CASE cache[frame.oid].future = "NoSuchID"
      <3>1. Fail("get", frame.oid, "NoSuchID") /\ cache' = cache
        BY <1>8, <2>2 DEF GetPrefetched
      <3>2. IsPartialMap(cache, ObjectID, GoodEntry)' /\ "NoSuchID" \in Exceptions
        BY <3>1 DEF TypeInv, IsPartialMap, Exceptions
      <3> QED BY <1>6, <3>1, <3>2, SMTT(30)
    <2>3. CASE cache[frame.oid].future # "NoSuchID"
      <3>1. StartPrefetching /\ cache' = Bind(cache, frame.oid, e)
        BY <1>8, <2>3 DEF GetPrefetched
      <3>2. cache[frame.oid].future \in Values
        BY <2>1, <2>3 DEF GoodEntry, cache_entry, Futures
      <3>3. e \in GoodEntry
        BY <2>1, <3>2 DEF GoodEntry, cache_entry, Futures
      <3> HIDE DEF e
      <3>4. IsPartialMap(Bind(cache, frame.oid, e), ObjectID, GoodEntry)
        BY <1>2, <3>3, BindMap DEF TypeInv
      <3>5. DOMAIN Bind(cache, frame.oid, e) = DOMAIN cache \cup {frame.oid}
        BY Keys, Zenon
      <3>6. IsPartialMap(cache, ObjectID, GoodEntry)' /\ frame.oid \in DOMAIN cache'
        BY <3>1, <3>4, <3>5 DEF IsPartialMap
      <3> QED BY <1>5, <3>1, <3>6
    <2> QED BY <2>2, <2>3
  <1>9. CASE GetFull
    <2>1. Fail("get", frame.oid, "CacheCapacity") /\ cache' = cache
      BY <1>9 DEF GetFull
    <2>2. IsPartialMap(cache, ObjectID, GoodEntry)' /\ "CacheCapacity" \in Exceptions
      BY <2>1 DEF TypeInv, IsPartialMap, Exceptions
    <2> QED BY <1>6, <2>1, <2>2
  <1>10. CASE GetMiss
    <2> DEFINE e(v) == [cached |-> TRUE, dirty |-> FALSE, obj |-> v, future |-> "none"]
    <2>1. ASSUME NEW v \in Values \cup {Default}, cache' = Bind(cache, frame.oid, e(v))
          PROVE  IsPartialMap(cache, ObjectID, GoodEntry)' /\ frame.oid \in DOMAIN cache'
      <3>1. e(v) \in GoodEntry
        BY Zenon DEF GoodEntry, cache_entry, Futures
      <3> HIDE DEF e
      <3>2. IsPartialMap(Bind(cache, frame.oid, e(v)), ObjectID, GoodEntry)
        BY <1>2, <3>1, BindMap DEF TypeInv
      <3>3. DOMAIN Bind(cache, frame.oid, e(v)) = DOMAIN cache \cup {frame.oid}
        BY Keys, Zenon
      <3> QED BY <2>1, <3>2, <3>3 DEF IsPartialMap
    <2>2. CASE frame.oid \in DOMAIN store
      <3>1. StartPrefetching /\ cache' = Bind(cache, frame.oid, e(store[frame.oid]))
        BY <1>10, <2>2 DEF GetMiss
      <3>2. store[frame.oid] \in Values
        BY <2>2 DEF TypeInv, IsPartialMap
      <3> QED BY <1>5, <2>1, <3>1, <3>2, Zenon
    <2>3. CASE frame.oid \notin DOMAIN store
      <3>1. Fail("get", frame.oid, "NoSuchID") /\ cache' = Bind(cache, frame.oid, e(Default))
        BY <1>10, <2>3 DEF GetMiss
      <3>2. "NoSuchID" \in Exceptions
        BY Zenon DEF Exceptions
      <3> QED BY <1>6, <2>1, <3>1, <3>2, Zenon
    <2> QED BY <2>2, <2>3
  <1> QED BY <1>7, <1>8, <1>9, <1>10

\* The prefetching loop of get, its return, and the end of a put.
LEMMA TypeReturns ==
    ASSUME TypeInv, PrefetchNext \/ GetReturn \/ PutReturn
    PROVE  TypeInv'
  <1> USE DEF LiveEntry
  <1>1. CASE PrefetchNext
    <2> DEFINE oid == Head(frame.todo)
               p == policy_prefetch(order, tracked, oid)
    <2>1. frame.pc = "prefetch" /\ frame.todo # <<>> /\ mode' = mode /\ store' = store
      BY <1>1, SMTT(30) DEF PrefetchNext
    <2>2. frame \in [pc : {"prefetch"}, oid : ObjectID, todo : Seq(ObjectID), live : BOOLEAN]
      BY <2>1 DEF TypeInv, Frames, Idle, Crashed
    <2>3. oid \in ObjectID /\ Tail(frame.todo) \in Seq(ObjectID)
      BY <2>1, <2>2, SMTT(30)
    <2>4. PICK r \in evict_vector(p.evicted) :
             /\ Apply(p, r)
             /\ \/ /\ r.status = "ok"
                   /\ FetchAhead(oid, r)
                   /\ frame' = [pc |-> "prefetch", oid |-> frame.oid, todo |-> Tail(frame.todo),
                                live |-> frame.live /\ frame.oid \in DOMAIN r.cache]
                   /\ UNCHANGED ret
                \/ EvictionFails("get", frame.oid, r)
      BY <1>1 DEF PrefetchNext
    <2> HIDE DEF oid
    <2>5. /\ WellFormed(ObjectID, p.order, p.ids)
          /\ p.evicted = {} \/ \E x : p.evicted = {x}
      BY <2>3, PolicyAnswer, Zenon
    <2> HIDE DEF p
    <2>6. /\ IsPartialMap(r.cache, ObjectID, GoodEntry)
          /\ IsPartialMap(r.pending, ObjectID, PutFuture)
          /\ r.net \in Seq(Requests)
          /\ r.status \in {"ok", "crash", "EvictError"}
      BY <2>4, <2>5, EvictVector
    <2>7. /\ WellFormed(ObjectID, order, tracked)'
          /\ IsPartialMap(pending_writes, ObjectID, PutFuture)'
          /\ (mode \in Modes \cup {[kind |-> "kNone"]})'
          /\ IsPartialMap(store, ObjectID, Values)'
      BY <2>1, <2>4, <2>5, <2>6, SMTT(30) DEF Apply, WellFormed, Lists, IsPartialMap, TypeInv
    <2>8. CASE EvictionFails("get", frame.oid, r)
      <3>1. /\ IsPartialMap(cache, ObjectID, GoodEntry)'
            /\ net' \in Seq(Requests)
            /\ frame' \in Frames
            /\ frame'.pc \in {"idle", "crashed"}
            /\ ret'.out \in Outcomes
        BY <2>6, <2>8, EvictionFailsType, Zenon
      <3>2. LiveEntry'
        BY <3>1, SMTT(40) DEF LiveEntry
      <3> QED BY <2>7, <3>1, <3>2, Zenon DEF TypeInv
    <2>9. CASE /\ FetchAhead(oid, r)
               /\ frame' = [pc |-> "prefetch", oid |-> frame.oid, todo |-> Tail(frame.todo),
                            live |-> frame.live /\ frame.oid \in DOMAIN r.cache]
               /\ UNCHANGED ret
      <3>1. /\ IsPartialMap(cache, ObjectID, GoodEntry)'
            /\ net' \in Seq(Requests)
            /\ DOMAIN cache' = DOMAIN r.cache \cup {oid}
        BY <2>3, <2>6, <2>9, FetchAheadType, Zenon
      <3>2. frame' \in Frames
        BY <2>2, <2>3, <2>9 DEF Frames
      <3>3. LiveEntry'
        BY <2>2, <2>9, <3>1, Zenon
      <3>4. ret'.out \in Outcomes
        BY <2>9 DEF TypeInv
      <3> QED BY <2>7, <3>1, <3>2, <3>3, <3>4 DEF TypeInv
    <2> QED BY <2>4, <2>8, <2>9, SMTT(30)
  <1>2. CASE GetReturn
    <2>1. frame.pc = "prefetch" /\ frame' = Idle
          /\ UNCHANGED <<cache, order, tracked, pending_writes, mode, net, store>>
      BY <1>2 DEF GetReturn, policyVars
    <2>2. frame.live => cache[frame.oid].obj \in Values \cup {Default}
      BY <2>1 DEF TypeInv, IsPartialMap, GoodEntry, cache_entry
    <2>3. ret'.out \in Outcomes
      BY <1>2, <2>2 DEF GetReturn, Ended, Outcomes
    <2>4. frame' \in Frames /\ frame'.pc = "idle"
      BY <2>1 DEF Frames, Idle
    <2> QED BY <2>1, <2>3, <2>4, SMTT(30) DEF TypeInv, IsPartialMap, WellFormed, Lists
  <1>3. CASE PutReturn
    <2>1. frame.pc = "put" /\ frame' = Idle
          /\ UNCHANGED <<cache, order, tracked, pending_writes, mode, net>>
      BY <1>3 DEF PutReturn, policyVars
    <2>2. frame.oid \in ObjectID /\ frame.val \in Values
      BY <2>1 DEF TypeInv, Frames, Idle, Crashed
    <2>3. IsPartialMap(Bind(store, frame.oid, frame.val), ObjectID, Values)
      BY <2>2, BindMap, Zenon DEF TypeInv
    <2>4. IsPartialMap(store, ObjectID, Values)'
      BY <1>3, <2>3 DEF PutReturn, IsPartialMap, TypeInv
    <2>5. ret'.out \in Outcomes
      BY <1>3 DEF PutReturn, Ended, Outcomes, Exceptions
    <2>6. frame' \in Frames /\ frame'.pc = "idle"
      BY <2>1 DEF Frames, Idle
    <2> QED BY <2>1, <2>4, <2>5, <2>6 DEF TypeInv, IsPartialMap, WellFormed, Lists
  <1> QED BY <1>1, <1>2, <1>3, SMTT(30)

\* remove, setMode, and the requests served by the connection.
LEMMA TypeRest ==
    ASSUME TypeInv,
           \/ \E oid \in ObjectID : RemoveCall(oid)
           \/ \E m \in Modes : SetMode(m)
           \/ ServeWrite \/ ServeRead
    PROVE  TypeInv'
  <1> USE DEF LiveEntry
  <1>1. ASSUME NEW oid \in ObjectID, RemoveCall(oid) PROVE TypeInv'
    <2>1. /\ frame.pc = "idle"
          /\ store' = Erase(store, oid)
          /\ cache' = Erase(cache, oid)
          /\ order' = policy_remove(order, tracked, oid).order
          /\ tracked' = policy_remove(order, tracked, oid).ids
          /\ ret' = Ended("remove", oid, "ok")
          /\ UNCHANGED <<pending_writes, mode, net, frame>>
      BY <1>1, SMTT(30) DEF RemoveCall
    <2>2. WellFormed(ObjectID, order, tracked)'
      <3>1. WellFormed(ObjectID, policy_remove(order, tracked, oid).order,
                                 policy_remove(order, tracked, oid).ids)
        BY PolicyForgets DEF TypeInv
      <3> QED BY <2>1, <3>1 DEF WellFormed, Lists
    <2>3. /\ IsPartialMap(Erase(cache, oid), ObjectID, GoodEntry)
          /\ IsPartialMap(Erase(store, oid), ObjectID, Values)
      BY EraseMap DEF TypeInv
    <2>4. ret'.out \in Outcomes
      BY <2>1 DEF Ended, Outcomes
    <2> QED BY <2>1, <2>2, <2>3, <2>4 DEF TypeInv, IsPartialMap
  <1>2. ASSUME NEW m \in Modes, SetMode(m) PROVE TypeInv'
    BY <1>2 DEF SetMode, TypeInv, IsPartialMap, WellFormed, Lists, policyVars
  <1>3. ASSUME net # <<>> PROVE Head(net) \in Requests /\ Tail(net) \in Seq(Requests)
    BY <1>3 DEF TypeInv
  <1>4. CASE ServeWrite
    <2> DEFINE req == Head(net)
    <2>1. req.oid \in ObjectID /\ req.val \in Values /\ Tail(net) \in Seq(Requests)
      BY <1>3, <1>4, SMTT(30) DEF ServeWrite, Requests
    <2>2. IsPartialMap(Bind(store, req.oid, req.val), ObjectID, Values)
      <3> HIDE DEF req
      <3> QED BY <2>1, BindMap DEF TypeInv
    <2>3. IsPartialMap(store, ObjectID, Values)'
      BY <1>4, <2>2 DEF ServeWrite, IsPartialMap, TypeInv
    <2>4. IsPartialMap(pending_writes, ObjectID, PutFuture)'
      <3>1. \/ pending_writes' = pending_writes
            \/ /\ req.oid \in DOMAIN pending_writes
               /\ pending_writes' = [pending_writes EXCEPT ![req.oid].avail = TRUE]
        BY <1>4, Zenon DEF ServeWrite
      <3> HIDE DEF req
      <3> QED BY <3>1, Zenon DEF TypeInv, IsPartialMap, PutFuture
    <2>5. net' = Tail(net) /\ UNCHANGED <<cache, order, tracked, mode, frame, ret>>
      BY <1>4, Zenon DEF ServeWrite, policyVars
    <2> QED BY <2>1, <2>3, <2>4, <2>5 DEF TypeInv, WellFormed, Lists, IsPartialMap
  <1>5. CASE ServeRead
    <2> DEFINE req == Head(net)
               got == IF req.oid \in DOMAIN store THEN store[req.oid] ELSE "NoSuchID"
    <2>1. Tail(net) \in Seq(Requests)
      BY <1>3, <1>5 DEF ServeRead
    <2>2. \/ cache' = cache
          \/ /\ req.oid \in DOMAIN cache
             /\ cache' = [cache EXCEPT ![req.oid].future = got]
      BY <1>5, Zenon DEF ServeRead
    <2>3. got \in Futures /\ got # "none"
      BY CacheAssumption DEF TypeInv, IsPartialMap, Futures
    <2> HIDE DEF req, got
    <2>4. ASSUME NEW e \in GoodEntry PROVE [e EXCEPT !.future = got] \in GoodEntry
      BY <2>3 DEF GoodEntry, cache_entry
    <2>5. IsPartialMap(cache, ObjectID, GoodEntry)' /\ DOMAIN cache' = DOMAIN cache
      BY <2>2, <2>4 DEF TypeInv, IsPartialMap
    <2>6. net' = Tail(net) /\ UNCHANGED <<order, tracked, pending_writes, mode, store, frame, ret>>
      BY <1>5, Zenon DEF ServeRead, policyVars
    <2> QED BY <2>1, <2>5, <2>6, Zenon DEF TypeInv, WellFormed, Lists, IsPartialMap
  <1> QED BY <1>1, <1>2, <1>4, <1>5

\* Every step keeps the types.
LEMMA TypeStep == TypeInv /\ [Next]_vars => TypeInv'
  <1> SUFFICES ASSUME TypeInv, [Next]_vars PROVE TypeInv'
    BY Zenon
  <1>1. CASE Call
    BY <1>1, TypeCalls, TypeRest DEF Call
  <1>2. CASE Continue
    BY <1>2, TypeGet, TypeReturns DEF Continue
  <1>3. CASE Serve
    BY <1>3, TypeRest DEF Serve
  <1>4. CASE UNCHANGED vars
    BY <1>4, SMTT(30) DEF vars, TypeInv, WellFormed, Lists, IsPartialMap, LiveEntry
  <1> QED BY <1>1, <1>2, <1>3, <1>4 DEF Next

\* A new cache is well typed.
LEMMA TypeInit == Init => TypeInv
  <1> SUFFICES ASSUME Init PROVE TypeInv
    BY Zenon
  <1>1. WellFormed(ObjectID, order, tracked)
    BY FS_EmptySet, PolicyAssumption DEF Init, WellFormed, Lists
  <1>2. IsPartialMap(store, ObjectID, Values)
    BY DEF Init, IsPartialMap
  <1>3. IsPartialMap(cache, ObjectID, GoodEntry) /\ IsPartialMap(pending_writes, ObjectID, PutFuture)
    BY DEF Init, IsPartialMap
  <1>4. net \in Seq(Requests) /\ frame \in Frames /\ frame.pc = "idle" /\ ret.out \in Outcomes
    BY DEF Init, Idle, Frames, Ended, Outcomes
  <1>5. mode \in Modes \cup {[kind |-> "kNone"]}
    BY DEF Init
  <1> QED BY <1>1, <1>2, <1>3, <1>4, <1>5 DEF TypeInv, LiveEntry

\* The containers of the policy as PolicyWellFormed sees them.
LEMMA TypeInvImplies ==
    TypeInv => PolicyWellFormed /\ (IsPartialMap(given, ObjectID, Values) => TypeOK)
  <1> SUFFICES ASSUME TypeInv
               PROVE  PolicyWellFormed /\ (IsPartialMap(given, ObjectID, Values) => TypeOK)
    OBVIOUS
  <1>1. IsPartialMap(cache, ObjectID, cache_entry)
    BY DEF TypeInv, IsPartialMap, GoodEntry
  <1>2. order \in Seq(ObjectID) /\ Len(order) \in Nat /\ DOMAIN order = 1 .. Len(order)
    BY Indexed DEF TypeInv, WellFormed, Lists
  <1>3. tracked \subseteq ObjectID
    BY <1>2, IsElement DEF TypeInv, WellFormed, Lists
  <1>4. Range(order) = tracked
    BY <1>2 DEF TypeInv, WellFormed, Lists, Range
  <1>5. Len(order) = Cardinality(tracked) /\ Len(order) <= PolicySize
    BY Zenon DEF TypeInv, WellFormed, Lists
  <1> QED BY <1>1, <1>2, <1>3, <1>4, <1>5 DEF TypeInv, TypeOK, PolicyWellFormed

\* A step leaves what the user was given alone, or puts or removes an object.
LEMMA GivenMoves ==
    ASSUME [Next]_vars
    PROVE  \/ given' = given
           \/ \E oid \in ObjectID, v \in Values : given' = Bind(given, oid, v)
           \/ \E oid \in ObjectID : given' = Erase(given, oid)
  <1>1. CASE Serve
    BY <1>1, Zenon DEF Serve, ServeWrite, ServeRead
  <1>2. CASE Continue
    <2>1. CASE GetHit \/ GetPrefetched \/ GetMiss
      BY <2>1, Zenon DEF GetHit, GetPrefetched, GetMiss
    <2>2. CASE GetFull \/ PrefetchNext
      BY <2>2, Zenon DEF GetFull, PrefetchNext
    <2>3. CASE GetReturn \/ PutReturn
      BY <2>3, Zenon DEF GetReturn, PutReturn
    <2> QED BY <1>2, <2>1, <2>2, <2>3, Zenon DEF Continue
  <1>3. ASSUME NEW oid \in ObjectID, GetCall(oid) \/ Prefetch(oid) \/ RemoveCall(oid)
        PROVE  given' = given \/ given' = Erase(given, oid)
    BY <1>3, Zenon DEF GetCall, Prefetch, RemoveCall
  <1>4. ASSUME NEW oid \in ObjectID, NEW v \in Values, PutCall(oid, v)
        PROVE  given' = given \/ given' = Bind(given, oid, v)
    BY <1>4, Zenon DEF PutCall
  <1>5. ASSUME NEW m, SetMode(m) PROVE given' = given
    BY <1>5, Zenon DEF SetMode
  <1>6. CASE UNCHANGED vars
    BY <1>6, Zenon DEF vars
  <1> QED BY <1>1, <1>2, <1>3, <1>4, <1>5, <1>6, Zenon DEF Next, Call

\* Every reachable state is well typed, whatever the workload.
THEOREM TypeCorrect == Spec => []TypeOK
  <1> DEFINE G == IsPartialMap(given, ObjectID, Values)
  <1>1. Spec => []TypeInv
    BY TypeInit, TypeStep, PTL DEF Spec
  <1>2. Init => G
    <2>1. Init => TypeInv /\ given = store
      BY TypeInit, Zenon DEF Init
    <2> QED BY <2>1, Zenon DEF TypeInv
  <1>3. G /\ [Next]_vars => G'
    BY GivenMoves, BindMap, EraseMap, Zenon
  <1>4. TypeInv /\ G => TypeOK
    BY TypeInvImplies, Zenon
  <1> HIDE DEF G
  <1> QED BY <1>1, <1>2, <1>3, <1>4, PTL DEF Spec

\* The containers of both eviction policies always agree, hold no id twice and
\* stay within max_size, whatever sequence of get, put, prefetch and remove
\* the cache makes.
THEOREM PolicyContainers == Spec => []PolicyWellFormed
  <1>1. Spec => []TypeInv
    BY TypeInit, TypeStep, PTL DEF Spec
  <1>2. TypeInv => PolicyWellFormed
    BY TypeInvImplies, ZenonT(40)
  <1> QED BY <1>1, <1>2, PTL

-----------------------------------------------------------------------------
(* The cache and the policy agree.                                         *)

\* The hypotheses: the policy hears of every insertion, and asks for an
\* eviction no later than the cache is full.
PolicySuits ==
    /\ Policy = "LRAdded" \/ "put" \notin Calls
    /\ PolicySize <= MaxSize

AgreeInv ==
    /\ DOMAIN cache \subseteq tracked
    /\ PolicyTracksCache
    /\ NoSpuriousFailure

\* One element short of the tracked ids is less than max_size.
LEMMA RoomForOne ==
    ASSUME PolicySuits, NEW q, NEW s, WellFormed(ObjectID, q, s),
           NEW D, NEW oid, s = D \cup {oid}, oid \notin D
    PROVE  Cardinality(D) # MaxSize
  <1>1. IsFiniteSet(s) /\ Cardinality(s) <= PolicySize
    BY DEF WellFormed, Lists
  <1>2. D = s \ {oid} /\ oid \in s
    OBVIOUS
  <1>3. Cardinality(s \ {oid}) = Cardinality(s) - 1 /\ Cardinality(s) \in Nat
    BY <1>1, <1>2, FS_RemoveElement, FS_CardinalityType, Zenon
  <1>4. Cardinality(D) = Cardinality(s) - 1
    BY <1>2, <1>3, Zenon
  <1> QED BY <1>1, <1>3, <1>4, PolicyAssumption, CacheAssumption DEF PolicySuits

\* A call announces oid to the policy and carries out the evictions: they
\* succeed, and the policy then tracks the cache and oid.
LEMMA Announcing ==
    ASSUME PolicySuits, TypeInv, AgreeInv, frame.pc \in {"idle", "prefetch"},
           NEW oid \in ObjectID, NEW p, Tracks(ObjectID, tracked, oid, p),
           NEW r \in evict_vector(p.evicted)
    PROVE  /\ p.ids = DOMAIN r.cache \cup {oid}
           /\ r.status \in {"ok", "crash"}
           /\ oid \notin DOMAIN r.cache => Cardinality(DOMAIN r.cache) # MaxSize
  <1>1. tracked = DOMAIN cache
    BY DEF AgreeInv, PolicyTracksCache, Announced
  <1>2. /\ p.ids = (tracked \cup {oid}) \ p.evicted
        /\ p.evicted \subseteq tracked
        /\ oid \notin p.evicted
        /\ p.evicted = {} \/ \E v : p.evicted = {v}
        /\ WellFormed(ObjectID, p.order, p.ids)
    BY DEF Tracks
  <1>3. /\ r.status \in {"ok", "crash", "EvictError"}
        /\ r.status # "EvictError" => DOMAIN r.cache = DOMAIN cache \ p.evicted
        /\ p.evicted \subseteq DOMAIN cache => r.status # "EvictError"
    BY <1>2, EvictVector
  <1>4. r.status \in {"ok", "crash"} /\ DOMAIN r.cache = DOMAIN cache \ p.evicted
    BY <1>1, <1>2, <1>3
  <1>5. p.ids = DOMAIN r.cache \cup {oid}
    BY <1>1, <1>2, <1>4
  <1>6. ASSUME oid \notin DOMAIN r.cache PROVE Cardinality(DOMAIN r.cache) # MaxSize
    <2> DEFINE D == DOMAIN r.cache
               s == p.ids
               q == p.order
    <2>1. s = D \cup {oid} /\ oid \notin D /\ WellFormed(ObjectID, q, s)
      BY <1>2, <1>5, <1>6
    <2> HIDE DEF D, s, q
    <2>2. Cardinality(D) # MaxSize
      BY <2>1, RoomForOne
    <2> QED BY <2>2 DEF D
  <1> QED BY <1>4, <1>5, <1>6

\* A failed announcement can only be the crash of the cleaning loop.
LEMMA FailedAnnouncement ==
    ASSUME AgreeInv, NEW op, NEW oid, NEW who, NEW p, NEW r,
           p.ids = DOMAIN r.cache \cup {oid}, r.status \in {"ok", "crash"},
           Apply(p, r), EvictionFails(op, who, r)
    PROVE  AgreeInv'
  BY DEF AgreeInv, PolicyTracksCache, NoSpuriousFailure, Apply, EvictionFails, Crashed

\* The body of prefetch leaves its id in the cache, whether or not it was there.
LEMMA FetchAheadKeys ==
    ASSUME NEW oid, NEW r, FetchAhead(oid, r)
    PROVE  DOMAIN cache' = DOMAIN r.cache \cup {oid}
  <1> DEFINE e == [cached |-> FALSE, dirty |-> FALSE, obj |-> Default, future |-> "pending"]
  <1>1. CASE oid \in DOMAIN r.cache
    BY <1>1 DEF FetchAhead
  <1>2. CASE oid \notin DOMAIN r.cache
    <2>1. cache' = Bind(r.cache, oid, e)
      BY <1>2 DEF FetchAhead
    <2> HIDE DEF e
    <2> QED BY <2>1, Keys, Zenon
  <1> QED BY <1>1, <1>2, Zenon

\* get, put and prefetch up to their first blocking point: the policy is told
\* of the id, and what it asks to evict is in the cache.
LEMMA AgreeCalls ==
    ASSUME PolicySuits, TypeInv, AgreeInv, NEW oid \in ObjectID,
           GetCall(oid) \/ Prefetch(oid) \/ \E v \in Values : PutCall(oid, v)
    PROVE  AgreeInv'
  <1> USE DEF AgreeInv, PolicyTracksCache, Announced, NoSpuriousFailure
  <1>1. frame.pc = "idle"
    BY ZenonT(30) DEF GetCall, Prefetch, PutCall
  <1>2. WellFormed(ObjectID, order, tracked)
    BY SMTT(30) DEF TypeInv
  <1>3. CASE GetCall(oid)
    <2> DEFINE p == policy_get(order, tracked, oid)
    <2>1. PICK r \in evict_vector(p.evicted) :
             /\ Apply(p, r)
             /\ \/ /\ cache' = r.cache
                   /\ frame' = [pc |-> "get", oid |-> oid]
                   /\ UNCHANGED ret
                \/ EvictionFails("get", oid, r)
      BY <1>3, ZenonT(40) DEF GetCall
    <2>2. Tracks(ObjectID, tracked, oid, p)
      BY <1>2, PolicyTracks, SMTT(30)
    <2> HIDE DEF p
    <2>3. p.ids = DOMAIN r.cache \cup {oid} /\ r.status \in {"ok", "crash"}
      BY <1>1, <2>2, Announcing
    <2>4. CASE EvictionFails("get", oid, r)
      BY <2>1, <2>3, <2>4, FailedAnnouncement, Zenon
    <2>5. CASE cache' = r.cache /\ frame' = [pc |-> "get", oid |-> oid] /\ UNCHANGED ret
      BY <2>1, <2>3, <2>5, SMTT(30) DEF Apply
    <2> QED BY <2>1, <2>4, <2>5, SMTT(30)
  <1>4. CASE Prefetch(oid)
    <2> DEFINE p == policy_prefetch(order, tracked, oid)
    <2>1. PICK r \in evict_vector(p.evicted) :
             /\ Apply(p, r)
             /\ \/ /\ FetchAhead(oid, r)
                   /\ frame' = Idle
                   /\ ret' = Ended("prefetch", oid, "ok")
                \/ EvictionFails("prefetch", oid, r)
      BY <1>4, SMTT(30) DEF Prefetch
    <2>2. Tracks(ObjectID, tracked, oid, p)
      BY <1>2, PolicyTracks
    <2> HIDE DEF p
    <2>3. p.ids = DOMAIN r.cache \cup {oid} /\ r.status \in {"ok", "crash"}
      BY <1>1, <2>2, Announcing, Zenon
    <2>4. CASE EvictionFails("prefetch", oid, r)
      BY <2>1, <2>3, <2>4, FailedAnnouncement, Zenon
    <2>5. CASE FetchAhead(oid, r) /\ frame' = Idle /\ ret' = Ended("prefetch", oid, "ok")
      <3>1. DOMAIN cache' = DOMAIN r.cache \cup {oid}
        BY <2>5, FetchAheadKeys, SMTT(30)
      <3>2. frame'.pc = "idle" /\ ret'.out = "ok"
        BY <2>5, SMTT(30) DEF Idle, Ended
      <3> QED BY <2>1, <2>3, <3>1, <3>2, SMTT(30) DEF Apply
    <2> QED BY <2>1, <2>4, <2>5, SMTT(30)
  <1>5. ASSUME NEW v \in Values, PutCall(oid, v) PROVE AgreeInv'
    <2> DEFINE p == policy_put(order, tracked, oid)
               fresh == [cached |-> TRUE, dirty |-> TRUE, obj |-> v, future |-> "none"]
               entry(c) == IF oid \in DOMAIN c THEN [c[oid] EXCEPT !.obj = v, !.dirty = TRUE]
                                               ELSE fresh
    <2>1. PICK r \in evict_vector(p.evicted) :
             /\ Apply(p, r)
             /\ \/ EvictionFails("put", oid, r)
                \/ /\ oid \notin DOMAIN r.cache
                   /\ Cardinality(DOMAIN r.cache) = MaxSize
                \/ /\ cache' = Bind(r.cache, oid, entry(r.cache))
                   /\ \/ frame' = Idle /\ ret' = Ended("put", oid, "ok")
                      \/ frame' = [pc |-> "put", oid |-> oid, val |-> v] /\ UNCHANGED ret
      BY <1>5, Zenon DEF PutCall
    <2>2. Tracks(ObjectID, tracked, oid, p)
      BY <1>2, <1>5, PolicyTracks, ZenonT(30) DEF PolicySuits, PutCall
    <2> HIDE DEF p, entry
    <2>3. /\ p.ids = DOMAIN r.cache \cup {oid}
          /\ r.status \in {"ok", "crash"}
          /\ ~(oid \notin DOMAIN r.cache /\ Cardinality(DOMAIN r.cache) = MaxSize)
      BY <1>1, <2>2, Announcing, SMTT(40)
    <2>4. CASE EvictionFails("put", oid, r)
      BY <2>1, <2>3, <2>4, FailedAnnouncement, ZenonT(30)
    <2>5. CASE /\ cache' = Bind(r.cache, oid, entry(r.cache))
               /\ \/ frame' = Idle /\ ret' = Ended("put", oid, "ok")
                  \/ frame' = [pc |-> "put", oid |-> oid, val |-> v] /\ UNCHANGED ret
      <3>1. DOMAIN cache' = DOMAIN r.cache \cup {oid}
        BY <2>5, Keys, Zenon
      <3>2. frame'.pc \in {"idle", "put"} /\ ret'.out \notin {"CacheCapacity", "EvictError"}
        BY <2>5 DEF Idle, Ended
      <3> QED BY <2>1, <2>3, <3>1, <3>2 DEF Apply
    <2> QED BY <2>1, <2>3, <2>4, <2>5
  <1> QED BY <1>3, <1>4, <1>5

\* The steps of a call after its first blocking point.
LEMMA AgreeContinue ==
    ASSUME PolicySuits, TypeInv, AgreeInv, Continue
    PROVE  AgreeInv'
  <1> USE DEF AgreeInv, PolicyTracksCache, Announced, NoSpuriousFailure
  <1>1. ASSUME frame.pc = "get", tracked' = tracked,
               DOMAIN cache' = DOMAIN cache \cup {frame.oid},
               StartPrefetching \/ Fail("get", frame.oid, "NoSuchID")
        PROVE  AgreeInv'
    <2>1. frame'.pc \in {"idle", "prefetch"} /\ ret'.out \notin {"CacheCapacity", "EvictError"}
      BY <1>1, StartPrefetchingType DEF Fail, Ended, Idle
    <2> QED BY <1>1, <2>1
  <1>2. CASE GetHit
    BY <1>1, <1>2, SMTT(30) DEF GetHit, policyVars
  <1>3. CASE GetPrefetched
    <2>1. DOMAIN cache' = DOMAIN cache \cup {frame.oid}
      <3> DEFINE e == [cached |-> TRUE, dirty |-> cache[frame.oid].dirty,
                       obj |-> cache[frame.oid].future, future |-> "none"]
      <3>1. CASE cache[frame.oid].future = "NoSuchID"
        BY <1>3, <3>1 DEF GetPrefetched
      <3>2. CASE cache[frame.oid].future # "NoSuchID"
        <4>1. cache' = Bind(cache, frame.oid, e)
          BY <1>3, <3>2 DEF GetPrefetched
        <4> HIDE DEF e
        <4> QED BY <4>1, Keys, Zenon
      <3> QED BY <3>1, <3>2, SMTT(30)
    <2> QED BY <1>1, <1>3, <2>1 DEF GetPrefetched, policyVars
  <1>4. CASE GetFull
    <2>1. tracked = DOMAIN cache \cup {frame.oid} /\ frame.oid \notin DOMAIN cache
          /\ Cardinality(DOMAIN cache) = MaxSize
      BY <1>4, Zenon DEF GetFull
    <2>2. WellFormed(ObjectID, order, tracked)
      BY Zenon DEF TypeInv
    <2> DEFINE D == DOMAIN cache
    <2>3. tracked = D \cup {frame.oid} /\ frame.oid \notin D /\ Cardinality(D) = MaxSize
      BY <2>1, SMTT(30)
    <2> HIDE DEF D
    <2> QED BY <2>2, <2>3, RoomForOne
  <1>5. CASE GetMiss
    <2>1. DOMAIN cache' = DOMAIN cache \cup {frame.oid}
      <3> DEFINE e(v) == [cached |-> TRUE, dirty |-> FALSE, obj |-> v, future |-> "none"]
      <3>1. PICK v : cache' = Bind(cache, frame.oid, e(v))
        BY <1>5, Zenon DEF GetMiss
      <3> DEFINE x == e(v)
      <3>2. cache' = Bind(cache, frame.oid, x)
        BY <3>1
      <3> HIDE DEF x
      <3> QED BY <3>2, Keys, Zenon
    <2> QED BY <1>1, <1>5, <2>1 DEF GetMiss, policyVars
  <1>6. CASE PrefetchNext
    <2> DEFINE oid == Head(frame.todo)
               p == policy_prefetch(order, tracked, oid)
    <2>a. PICK r \in evict_vector(p.evicted) :
             /\ Apply(p, r)
             /\ \/ /\ r.status = "ok"
                   /\ FetchAhead(oid, r)
                   /\ frame' = [pc |-> "prefetch", oid |-> frame.oid, todo |-> Tail(frame.todo),
                                live |-> frame.live /\ frame.oid \in DOMAIN r.cache]
                   /\ UNCHANGED ret
                \/ EvictionFails("get", frame.oid, r)
      BY <1>6, ZenonT(30) DEF PrefetchNext
    <2>1. /\ Apply(p, r)
          /\ \/ FetchAhead(oid, r) /\ frame'.pc = "prefetch" /\ UNCHANGED ret
             \/ EvictionFails("get", frame.oid, r)
      <3> HIDE DEF p, oid
      <3> QED BY <2>a
    <2>2. frame.pc = "prefetch" /\ oid \in ObjectID
      <3>1. frame.pc = "prefetch" /\ frame.todo # <<>>
        BY <1>6 DEF PrefetchNext
      <3>2. frame \in Frames
        BY Zenon DEF TypeInv
      <3>3. frame.todo \in Seq(ObjectID)
        BY <3>1, <3>2 DEF Frames, Idle, Crashed
      <3> QED BY <3>1, <3>3, SMTT(30)
    <2> HIDE DEF oid
    <2>3. Tracks(ObjectID, tracked, oid, p)
      BY <2>2, PolicyTracks, Zenon DEF TypeInv
    <2> HIDE DEF p
    <2>4. p.ids = DOMAIN r.cache \cup {oid} /\ r.status \in {"ok", "crash"}
      BY <2>2, <2>3, Announcing
    <2>5. CASE EvictionFails("get", frame.oid, r)
      BY <2>1, <2>4, <2>5, FailedAnnouncement, Zenon
    <2>6. CASE FetchAhead(oid, r) /\ frame'.pc = "prefetch" /\ UNCHANGED ret
      <3>1. DOMAIN cache' = DOMAIN r.cache \cup {oid}
        BY <2>6, FetchAheadKeys
      <3> QED BY <2>1, <2>4, <2>6, <3>1 DEF Apply
    <2> QED BY <2>1, <2>5, <2>6
  <1>7. CASE GetReturn
    <2>1. frame.pc = "prefetch" /\ frame'.pc = "idle" /\ UNCHANGED <<cache, tracked>>
      BY <1>7 DEF GetReturn, Idle, policyVars
    <2>2. frame.live => cache[frame.oid].obj \in Values \cup {Default}
      BY <2>1 DEF TypeInv, LiveEntry, IsPartialMap, GoodEntry, cache_entry
    <2>3. ret'.out \in Values \cup {Default}
      BY <1>7, <2>2 DEF GetReturn, Ended
    <2>4. ret'.out \notin {"CacheCapacity", "EvictError"}
      BY <2>3, CacheAssumption, Zenon DEF Exceptions
    <2> QED BY <2>1, <2>4
  <1>8. CASE PutReturn
    BY <1>8, SMTT(30) DEF PutReturn, Ended, Idle, policyVars
  <1> QED BY <1>2, <1>3, <1>4, <1>5, <1>6, <1>7, <1>8 DEF Continue

\* Every step of the cache, its user and the connection keeps the agreement.
LEMMA AgreeStep ==
    ASSUME PolicySuits
    PROVE  TypeInv /\ AgreeInv /\ [Next]_vars => AgreeInv'
  <1> SUFFICES ASSUME TypeInv, AgreeInv, [Next]_vars PROVE AgreeInv'
    BY Zenon
  <1> USE DEF AgreeInv, PolicyTracksCache, Announced, NoSpuriousFailure
  <1>1. ASSUME NEW oid \in ObjectID, RemoveCall(oid) PROVE AgreeInv'
    <2>1. /\ frame.pc = "idle" /\ frame' = frame
          /\ DOMAIN cache' = DOMAIN cache \ {oid}
          /\ tracked' = policy_remove(order, tracked, oid).ids
          /\ ret'.out = "ok"
      BY <1>1, Keys, Zenon DEF RemoveCall, Ended
    <2>2. policy_remove(order, tracked, oid).ids = tracked \ {oid}
      BY PolicyForgets DEF TypeInv
    <2> QED BY <2>1, <2>2
  <1>2. ASSUME NEW m \in Modes, SetMode(m) PROVE AgreeInv'
    BY <1>2, Zenon DEF SetMode, policyVars
  <1>3. CASE ServeWrite
    BY <1>3 DEF ServeWrite, policyVars
  <1>4. CASE ServeRead
    <2>1. DOMAIN cache' = DOMAIN cache
      BY <1>4 DEF ServeRead
    <2> QED BY <1>4, <2>1 DEF ServeRead, policyVars
  <1>5. CASE UNCHANGED vars
    BY <1>5 DEF vars
  <1> QED BY <1>1, <1>2, <1>3, <1>4, <1>5, AgreeCalls, AgreeContinue DEF Next, Call, Serve

\* For every cache whose policy is told of every insertion and is no larger
\* than the cache: policy and cache know the same ids, max_size is never
\* exceeded although prefetch does not check it, and no get, put or prefetch
\* ends in CacheCapacityException or evict's error.
THEOREM CacheIsSound ==
    ASSUME PolicySuits
    PROVE  Spec => [](PolicyTracksCache /\ CapacityRespected /\ NoSpuriousFailure)
  <1>1. Init => AgreeInv
    BY DEF Init, AgreeInv, PolicyTracksCache, Announced, NoSpuriousFailure, Idle, Ended
  <1>2. TypeInv /\ AgreeInv => PolicyTracksCache /\ CapacityRespected /\ NoSpuriousFailure
    <2> SUFFICES ASSUME TypeInv, AgreeInv
                 PROVE  Cardinality(DOMAIN cache) <= MaxSize
      BY DEF AgreeInv, CapacityRespected
    <2>1. IsFiniteSet(tracked) /\ Cardinality(tracked) <= PolicySize
      BY DEF TypeInv, WellFormed, Lists
    <2>2. DOMAIN cache \in SUBSET tracked
      BY Zenon DEF AgreeInv
    <2>3. /\ Cardinality(DOMAIN cache) <= Cardinality(tracked)
          /\ IsFiniteSet(DOMAIN cache)
      BY <2>1, <2>2, FS_Subset
    <2>4. Cardinality(DOMAIN cache) \in Nat /\ Cardinality(tracked) \in Nat
      BY <2>1, <2>3, FS_CardinalityType
    <2> QED BY <2>1, <2>3, <2>4, PolicyAssumption, CacheAssumption DEF PolicySuits
  <1> QED BY <1>1, <1>2, AgreeStep, TypeInit, TypeStep, PTL DEF Spec

\* The eviction policy tracks exactly the ids in the cache, and the one a get in
\* progress has announced to it, through failed calls, removals and prefetches
\* that find nothing.
COROLLARY PolicyIsTracked ==
    ASSUME PolicySuits
    PROVE  Spec => []PolicyTracksCache
  BY CacheIsSound, PTL

\* No get, put or prefetch of such a cache ends for want of room: evict always
\* finds the id that the policy names.
COROLLARY CallsFindRoom ==
    ASSUME PolicySuits
    PROVE  Spec => []NoSpuriousFailure
  BY CacheIsSound, PTL
=============================================================================
