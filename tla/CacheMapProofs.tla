--------------------------- MODULE CacheMapProofs ---------------------------
(***************************************************************************)
(* The cache implements a map, for every set of ids and objects, every     *)
(* cache size and every workload: a get returns the object last put,       *)
(* wherever it is at that moment, and no call fails but a get of an absent *)
(* id.                                                                     *)
(*                                                                         *)
(* The invariant relates an entry of the cache to what lies below it: the  *)
(* last write of its id on the connection or, if there is none, the store. *)
(***************************************************************************)
EXTENDS CacheManagerProofs

\* The writes of an id on the connection n, and the last of them.
Writes(n, o) == {i \in DOMAIN n : n[i].op = "write" /\ n[i].oid = o}

LastWrite(n, o, i) == i \in Writes(n, o) /\ \A j \in Writes(n, o) : j <= i

\* What lies below the cache under an id: the last write on the way to the
\* store, or else what the store s has.
Below(n, s, o, v) ==
    \/ \E i \in DOMAIN n : LastWrite(n, o, i) /\ v = n[i].val
    \/ Writes(n, o) = {} /\ o \in DOMAIN s /\ v = s[o]

Absent(n, s, o) == Writes(n, o) = {} /\ o \notin DOMAIN s

\* The read at i is the last request of o.
LastRead(n, o, i) ==
    /\ n[i].op = "read" /\ n[i].oid = o
    /\ \A j \in DOMAIN n : n[j].oid = o => j <= i

\* Writes are queued by write-deferring caches only, and one is the last.
QueueSound(n) ==
    \A o \in ObjectID :
        Writes(n, o) # {} => DeferWrites /\ \E i \in DOMAIN n : LastWrite(n, o, i)

\* The entry e of o agrees with what is below it.  A dirty entry is below the
\* cache only if writes are not deferred, and not while its put is under way.
EntrySound(e, n, s, o, put) ==
    /\ e.dirty => e.cached
    /\ e.dirty /\ ~DeferWrites /\ o \notin put => Below(n, s, o, e.obj)
    /\ e.cached /\ ~e.dirty => Below(n, s, o, e.obj) \/ (Absent(n, s, o) /\ e.obj = Default)
    /\ ~e.cached /\ e.future \in Values => Below(n, s, o, e.future)
    /\ ~e.cached /\ e.future = "NoSuchID" => Absent(n, s, o)
    /\ ~e.cached /\ e.future = "pending" => \E i \in DOMAIN n : LastRead(n, o, i)

Sound(c, n, s, put) ==
    /\ QueueSound(n)
    /\ \A o \in DOMAIN c : EntrySound(c[o], n, s, o, put)

\* The id whose synchronous write is under way.
Putting == IF frame.pc = "put" THEN {frame.oid} ELSE {}

FreshInv ==
    /\ Sound(cache, net, store, Putting)
    /\ frame.pc = "put" => /\ ~DeferWrites
                           /\ frame.oid \in DOMAIN cache
                           /\ cache[frame.oid].dirty
                           /\ cache[frame.oid].obj = frame.val

-----------------------------------------------------------------------------
(* The connection.                                                         *)

\* Nothing changes below the cache.
SameBelow(n, s, m, t) ==
    \A o \in ObjectID : /\ \A v : Below(m, t, o, v) <=> Below(n, s, o, v)
                        /\ Absent(m, t, o) <=> Absent(n, s, o)

\* A read of x makes m of the queue n: it is the last request of x.
ReadQueued(n, x, m) ==
    /\ QueueSound(m)
    /\ \A s : SameBelow(n, s, m, s)
    /\ \E i \in DOMAIN m : LastRead(m, x, i)
    /\ \A o \in ObjectID \ {x}, i \in DOMAIN n :
          LastRead(n, o, i) => i \in DOMAIN m /\ LastRead(m, o, i)

\* What a call keeps in its frame while it is under way.
LEMMA FrameTypes ==
    ASSUME TypeInv
    PROVE  /\ frame.pc = "get" => frame.oid \in ObjectID
           /\ frame.pc = "prefetch" => frame.oid \in ObjectID /\ frame.todo \in Seq(ObjectID)
           /\ frame.pc = "put" => frame.oid \in ObjectID /\ frame.val \in Values
           /\ frame.pc = "prefetch" /\ frame.live => frame.oid \in DOMAIN cache
  <1>1. frame \in Frames /\ LiveEntry
    BY Zenon DEF TypeInv
  <1> QED BY <1>1 DEF Frames, Idle, Crashed, LiveEntry

\* A read is queued.
LEMMA QueueRead ==
    ASSUME NEW n \in Seq(Requests), NEW x \in ObjectID, QueueSound(n)
    PROVE  ReadQueued(n, x, Append(n, [op |-> "read", oid |-> x]))
  <1> DEFINE q == [op |-> "read", oid |-> x]
             m == Append(n, q)
  <1>1. /\ Len(n) \in Nat
        /\ DOMAIN n = 1 .. Len(n)
        /\ DOMAIN m = 1 .. Len(n) + 1
        /\ \A i \in 1 .. Len(n) : m[i] = n[i]
        /\ m[Len(n) + 1].op = "read" /\ m[Len(n) + 1].oid = x
    <2>1. q \in Requests /\ q.op = "read" /\ q.oid = x
      BY Zenon DEF Requests
    <2> HIDE DEF q
    <2> QED BY <2>1, PushBack
  <1> HIDE DEF m
  <1>2. \A o : Writes(m, o) = Writes(n, o)
    BY <1>1 DEF Writes
  <1>3. \A o, i : LastWrite(m, o, i) <=> LastWrite(n, o, i)
    BY <1>2, Zenon DEF LastWrite
  <1>4. \A o, i : LastWrite(n, o, i) => i \in DOMAIN n /\ m[i] = n[i]
    BY <1>1, Zenon DEF LastWrite, Writes
  <1>5. QueueSound(m)
    BY <1>1, <1>2, <1>3, <1>4 DEF QueueSound
  <1>6. \A s, o, v : Below(m, s, o, v) <=> Below(n, s, o, v)
    BY <1>1, <1>2, <1>3, <1>4 DEF Below
  <1>7. \A s : SameBelow(n, s, m, s)
    BY <1>2, <1>6, Zenon DEF SameBelow, Absent
  <1>8. Len(n) + 1 \in DOMAIN m /\ LastRead(m, x, Len(n) + 1)
    BY <1>1 DEF LastRead
  <1>9. ASSUME NEW o \in ObjectID \ {x}, NEW i \in DOMAIN n, LastRead(n, o, i)
        PROVE  i \in DOMAIN m /\ LastRead(m, o, i)
    BY <1>1, <1>9 DEF LastRead
  <1> QED BY <1>5, <1>7, <1>8, <1>9, Zenon DEF ReadQueued, m

\* The write of v to x makes m of the queue n: v is what x now has below the
\* cache, and the other ids are not concerned.
WriteQueued(n, s, x, v, m) ==
    /\ QueueSound(m)
    /\ \A u : Below(m, s, x, u) <=> u = v
    /\ \A o \in ObjectID \ {x} :
          /\ \A u : Below(m, s, o, u) <=> Below(n, s, o, u)
          /\ Absent(m, s, o) <=> Absent(n, s, o)
          /\ \A i \in DOMAIN n : LastRead(n, o, i) => i \in DOMAIN m /\ LastRead(m, o, i)

\* A write is queued.
LEMMA QueueWrite ==
    ASSUME NEW n \in Seq(Requests), NEW s, NEW x \in ObjectID, NEW v \in Values,
           QueueSound(n), DeferWrites
    PROVE  WriteQueued(n, s, x, v, Append(n, [op |-> "write", oid |-> x, val |-> v]))
  <1> DEFINE q == [op |-> "write", oid |-> x, val |-> v]
             m == Append(n, q)
  <1>1. /\ Len(n) \in Nat
        /\ DOMAIN n = 1 .. Len(n)
        /\ DOMAIN m = 1 .. Len(n) + 1
        /\ \A i \in 1 .. Len(n) : m[i] = n[i]
        /\ m[Len(n) + 1].op = "write" /\ m[Len(n) + 1].oid = x /\ m[Len(n) + 1].val = v
    <2>1. q \in Requests /\ q.op = "write" /\ q.oid = x /\ q.val = v
      BY Zenon DEF Requests
    <2> HIDE DEF q
    <2> QED BY <2>1, PushBack
  <1> HIDE DEF m
  <1>2. \A i : LastWrite(m, x, i) <=> i = Len(n) + 1
    BY <1>1 DEF LastWrite, Writes
  <1>3. Writes(m, x) # {} /\ \A u : Below(m, s, x, u) <=> u = v
    <2>1. Len(n) + 1 \in DOMAIN m /\ LastWrite(m, x, Len(n) + 1)
      BY <1>1, <1>2
    <2>2. Writes(m, x) # {}
      BY <2>1 DEF LastWrite
    <2> QED BY <1>1, <1>2, <2>1, <2>2, Zenon DEF Below
  <1>4. ASSUME NEW o \in ObjectID \ {x}
        PROVE  /\ Writes(m, o) = Writes(n, o)
               /\ \A u : Below(m, s, o, u) <=> Below(n, s, o, u)
               /\ \A i : LastWrite(m, o, i) <=> LastWrite(n, o, i)
               /\ \A i \in DOMAIN n : LastRead(n, o, i) => i \in DOMAIN m /\ LastRead(m, o, i)
    <2>1. Writes(m, o) = Writes(n, o)
      BY <1>1 DEF Writes
    <2>2. \A i : LastWrite(m, o, i) <=> LastWrite(n, o, i)
      BY <2>1, Zenon DEF LastWrite
    <2>3. \A i : LastWrite(n, o, i) => i \in DOMAIN n /\ m[i] = n[i]
      BY <1>1, Zenon DEF LastWrite, Writes
    <2>4. \A u : Below(m, s, o, u) <=> Below(n, s, o, u)
      BY <1>1, <2>1, <2>2, <2>3 DEF Below
    <2>5. ASSUME NEW i \in DOMAIN n, LastRead(n, o, i)
          PROVE  i \in DOMAIN m /\ LastRead(m, o, i)
      BY <1>1, <2>5 DEF LastRead
    <2> QED BY <2>1, <2>2, <2>4, <2>5
  <1>5. QueueSound(m)
    <2> SUFFICES ASSUME NEW o \in ObjectID, Writes(m, o) # {}
                 PROVE  \E i \in DOMAIN m : LastWrite(m, o, i)
      BY Zenon DEF QueueSound
    <2>1. CASE o = x
      BY <1>1, <1>2, <2>1
    <2>2. CASE o # x
      BY <1>1, <1>4, <2>2 DEF QueueSound
    <2> QED BY <2>1, <2>2, Zenon
  <1> QED BY <1>3, <1>4, <1>5, Zenon DEF Absent, WriteQueued, m
\* The oldest request leaves the queue.
LEMMA QueueTail ==
    ASSUME NEW n \in Seq(Requests), n # <<>>
    PROVE  /\ Len(n) \in Nat \ {0}
           /\ DOMAIN n = 1 .. Len(n)
           /\ DOMAIN Tail(n) = 1 .. Len(n) - 1
           /\ \A i \in 1 .. Len(n) - 1 : Tail(n)[i] = n[i + 1]
           /\ n[1] = Head(n)
           /\ n[1] \in Requests
  OBVIOUS

\* The reads that follow keep their place in the order.
LEMMA LastReadTail ==
    ASSUME NEW n \in Seq(Requests), n # <<>>, NEW o, NEW i \in DOMAIN n, LastRead(n, o, i), i # 1
    PROVE  \E j \in DOMAIN Tail(n) : LastRead(Tail(n), o, j)
  <1>1. i - 1 \in DOMAIN Tail(n)
    BY QueueTail
  <1>2. LastRead(Tail(n), o, i - 1)
    BY QueueTail DEF LastRead
  <1> QED BY <1>1, <1>2, Zenon

\* Writes in the tail of the queue.
LEMMA WritesTail ==
    ASSUME NEW n \in Seq(Requests), n # <<>>, NEW o, QueueSound(n), o \in ObjectID
    PROVE  /\ Writes(Tail(n), o) = {i \in 1 .. Len(n) - 1 : i + 1 \in Writes(n, o)}
           /\ \A i \in DOMAIN n : LastWrite(n, o, i) /\ i # 1 =>
                 i - 1 \in DOMAIN Tail(n) /\ LastWrite(Tail(n), o, i - 1) /\ Tail(n)[i - 1] = n[i]
           /\ \A i \in DOMAIN Tail(n) : LastWrite(Tail(n), o, i) =>
                 i + 1 \in DOMAIN n /\ LastWrite(n, o, i + 1) /\ Tail(n)[i] = n[i + 1]
           /\ Writes(Tail(n), o) = {} <=> Writes(n, o) \subseteq {1}
  <1> DEFINE m == Tail(n)
  <1>1. /\ Len(n) \in Nat \ {0}
        /\ DOMAIN n = 1 .. Len(n)
        /\ DOMAIN m = 1 .. Len(n) - 1
        /\ \A i \in 1 .. Len(n) - 1 : m[i] = n[i + 1]
    BY QueueTail, Zenon
  <1> HIDE DEF m
  <1>2. Writes(m, o) = {i \in 1 .. Len(n) - 1 : i + 1 \in Writes(n, o)}
    BY <1>1 DEF Writes
  <1>3. Writes(n, o) \subseteq 1 .. Len(n)
    BY <1>1 DEF Writes
  <1>4. ASSUME NEW i \in DOMAIN n, LastWrite(n, o, i), i # 1
        PROVE  i - 1 \in DOMAIN m /\ LastWrite(m, o, i - 1) /\ m[i - 1] = n[i]
    <2>1. i - 1 \in 1 .. Len(n) - 1 /\ (i - 1) + 1 = i
      BY <1>1, <1>4
    <2>2. i - 1 \in Writes(m, o)
      BY <1>2, <1>4, <2>1 DEF LastWrite
    <2>3. \A j \in Writes(m, o) : j <= i - 1
      BY <1>1, <1>2, <1>4 DEF LastWrite
    <2> QED BY <1>1, <2>1, <2>2, <2>3, Zenon DEF LastWrite
  <1>5. ASSUME NEW i \in DOMAIN m, LastWrite(m, o, i)
        PROVE  i + 1 \in DOMAIN n /\ LastWrite(n, o, i + 1) /\ m[i] = n[i + 1]
    <2>1. i + 1 \in Writes(n, o) /\ i \in 1 .. Len(n) - 1
      BY <1>2, <1>5, Zenon DEF LastWrite
    <2>2. ASSUME NEW j \in Writes(n, o) PROVE j <= i + 1
      <3>1. j \in 1 .. Len(n)
        BY <1>3
      <3>2. CASE j = 1
        BY <2>1, <3>2
      <3>3. CASE j # 1
        <4>1. j - 1 \in Writes(m, o)
          BY <1>1, <1>2, <2>2, <3>1, <3>3
        <4> QED BY <1>5, <2>1, <3>1, <4>1 DEF LastWrite
      <3> QED BY <3>2, <3>3
    <2> QED BY <1>1, <2>1, <2>2 DEF LastWrite
  <1>6. Writes(m, o) = {} <=> Writes(n, o) \subseteq {1}
    <2>1. ASSUME NEW j \in Writes(n, o), j # 1 PROVE Writes(m, o) # {}
      <3>1. j - 1 \in 1 .. Len(n) - 1 /\ (j - 1) + 1 = j
        BY <1>1, <1>3, <2>1
      <3> QED BY <1>2, <2>1, <3>1, Zenon
    <2> QED BY <1>1, <1>2, <2>1
  <1> QED BY <1>2, <1>4, <1>5, <1>6, Zenon DEF m

\* An id with a write under way has below the cache what its last write brings.
LEMMA BelowByWrite ==
    ASSUME NEW n \in Seq(Requests), NEW o, NEW i \in DOMAIN n, LastWrite(n, o, i)
    PROVE  /\ Writes(n, o) # {}
           /\ \A s, u : Below(n, s, o, u) <=> u = n[i].val
           /\ \A s : ~Absent(n, s, o)
  <1>1. DOMAIN n \subseteq Nat
    OBVIOUS
  <1>2. Writes(n, o) # {}
    BY Zenon DEF LastWrite
  <1>3. \A j \in DOMAIN n : LastWrite(n, o, j) => j = i
    BY <1>1 DEF LastWrite, Writes
  <1> QED BY <1>2, <1>3, Zenon DEF Below, Absent

\* One request is served, and the state below the cache becomes t: for every
\* id it is the same as before.
LEMMA Served ==
    ASSUME NEW n \in Seq(Requests), n # <<>>, NEW s, NEW t, QueueSound(n),
           \/ Head(n).op = "read" /\ t = s
           \/ Head(n).op = "write" /\ t = Bind(s, Head(n).oid, Head(n).val)
    PROVE  /\ QueueSound(Tail(n))
           /\ SameBelow(n, s, Tail(n), t)
  <1> DEFINE m == Tail(n)
  <1>1. /\ m \in Seq(Requests)
        /\ DOMAIN n = 1 .. Len(n) /\ Len(n) \in Nat \ {0}
        /\ n[1] = Head(n)
    BY QueueTail
  <1>2. ASSUME NEW o \in ObjectID
        PROVE  /\ Writes(m, o) # {} => DeferWrites /\ \E i \in DOMAIN m : LastWrite(m, o, i)
               /\ \A v : Below(m, t, o, v) <=> Below(n, s, o, v)
               /\ Absent(m, t, o) <=> Absent(n, s, o)
    <2>1. CASE Writes(n, o) = {}
      <3>1. Writes(m, o) = {}
        BY <2>1, WritesTail, Zenon
      <3>2. ~(Head(n).op = "write" /\ Head(n).oid = o)
        BY <1>1, <2>1 DEF Writes
      <3>3. /\ o \in DOMAIN t <=> o \in DOMAIN s
            /\ o \in DOMAIN s => t[o] = s[o]
        BY <3>2 DEF Bind
      <3>4. \A i : ~LastWrite(n, o, i) /\ ~LastWrite(m, o, i)
        BY <2>1, <3>1, Zenon DEF LastWrite
      <3> QED BY <2>1, <3>1, <3>3, <3>4, Zenon DEF Below, Absent
    <2>2. CASE Writes(n, o) # {}
      <3>1. PICK i \in DOMAIN n : LastWrite(n, o, i)
        BY <2>2 DEF QueueSound
      <3>2. DeferWrites
        BY <2>2 DEF QueueSound
      <3>3. CASE i # 1
        <4>1. i - 1 \in DOMAIN m /\ LastWrite(m, o, i - 1) /\ m[i - 1] = n[i]
          BY <3>1, <3>3, WritesTail
        <4> HIDE DEF m
        <4> QED BY <1>1, <3>1, <3>2, <4>1, BelowByWrite
      <3>4. CASE i = 1
        <4>1. Writes(n, o) \subseteq {1}
          BY <1>1, <3>1, <3>4 DEF LastWrite, Writes
        <4>2. Writes(m, o) = {}
          BY <4>1, WritesTail, Zenon
        <4>3. Head(n).op = "write" /\ Head(n).oid = o
          BY <1>1, <3>1, <3>4, Zenon DEF LastWrite, Writes
        <4>4. o \in DOMAIN t /\ t[o] = Head(n).val
          BY <4>3, Zenon DEF Bind
        <4>5. \A j : ~LastWrite(m, o, j)
          BY <4>2, Zenon DEF LastWrite
        <4>6. \A v : Below(n, s, o, v) <=> v = Head(n).val
          BY <1>1, <3>1, <3>4, BelowByWrite
        <4> QED BY <2>2, <4>2, <4>4, <4>5, <4>6, Zenon DEF Below, Absent
      <3> QED BY <3>3, <3>4, Zenon
    <2> QED BY <2>1, <2>2
  <1> QED BY <1>2, Zenon DEF QueueSound, SameBelow

-----------------------------------------------------------------------------
(* What an id has for the user.                                            *)

Dirty(c, o) == o \in DOMAIN c /\ c[o].dirty

Gives(c, n, s, o, v) == IF Dirty(c, o) THEN v = c[o].obj ELSE Below(n, s, o, v)

ContentsOf(c, n, s) ==
    [oid \in {o \in ObjectID : Dirty(c, o) \/ Writes(n, o) # {} \/ o \in DOMAIN s} |->
        IF Dirty(c, oid) THEN c[oid].obj
        ELSE IF Writes(n, oid) # {} THEN n[Max(Writes(n, oid))].val
        ELSE s[oid]]

\* The refinement mapping, now and after a step.
LEMMA ContentsIs ==
    /\ Contents = ContentsOf(cache, net, store)
    /\ Contents' = ContentsOf(cache', net', store')
  BY DEF Contents, ContentsOf, Holds, InCache, WritesOf, Dirty, Writes

\* The user's map holds what an id gives, and nothing else.
LEMMA ContentsGives ==
    ASSUME NEW c, NEW n \in Seq(Requests), NEW s, QueueSound(n), NEW o \in ObjectID
    PROVE  /\ \A v : Gives(c, n, s, o, v) =>
                        o \in DOMAIN ContentsOf(c, n, s) /\ ContentsOf(c, n, s)[o] = v
           /\ o \in DOMAIN ContentsOf(c, n, s) => Gives(c, n, s, o, ContentsOf(c, n, s)[o])
  <1> DEFINE M == ContentsOf(c, n, s)
  <1>1. /\ DOMAIN M = {x \in ObjectID : Dirty(c, x) \/ Writes(n, x) # {} \/ x \in DOMAIN s}
        /\ o \in DOMAIN M =>
             M[o] = IF Dirty(c, o) THEN c[o].obj
                    ELSE IF Writes(n, o) # {} THEN n[Max(Writes(n, o))].val
                    ELSE s[o]
    BY Zenon DEF ContentsOf
  <1> HIDE DEF M
  <1>2. CASE Dirty(c, o)
    BY <1>1, <1>2 DEF Gives, M
  <1>3. CASE ~Dirty(c, o) /\ Writes(n, o) = {}
    <2>1. \A i : ~LastWrite(n, o, i)
      BY <1>3, Zenon DEF LastWrite
    <2> QED BY <1>1, <1>3, <2>1, Zenon DEF Gives, Below, M
  <1>4. CASE ~Dirty(c, o) /\ Writes(n, o) # {}
    <2>1. PICK i \in DOMAIN n : LastWrite(n, o, i)
      BY <1>4, Zenon DEF QueueSound
    <2>2. Max(Writes(n, o)) = i
      <3>1. DOMAIN n \subseteq Int
        OBVIOUS
      <3> QED BY <2>1, <3>1 DEF LastWrite, Writes, Max
    <2> QED BY <1>1, <1>4, <2>1, <2>2, BelowByWrite DEF Gives, M
  <1> QED BY <1>2, <1>3, <1>4, Zenon

\* Two states of cache, connection and store in which all ids but X give the
\* same; a state in which an id gives one value, or none.
GivesAlike(X, c, n, s, d, m, t) ==
    \A o \in ObjectID \ X : \A v : Gives(d, m, t, o, v) <=> Gives(c, n, s, o, v)

GivesOnly(c, n, s, o, v) == \A u : Gives(c, n, s, o, u) <=> u = v

GivesNothing(c, n, s, o) == \A u : ~Gives(c, n, s, o, u)

ContentsFollow(X, c, n, s, d, m, t) ==
    /\ X = {} => ContentsOf(d, m, t) = ContentsOf(c, n, s)
    /\ \A x, v : X = {x} /\ GivesOnly(d, m, t, x, v) =>
          ContentsOf(d, m, t) = Bind(ContentsOf(c, n, s), x, v)
    /\ \A x : X = {x} /\ GivesNothing(d, m, t, x) =>
          ContentsOf(d, m, t) = Erase(ContentsOf(c, n, s), x)

\* Steps that give the user the same leave the map alone; one that changes
\* what a single id gives is a put or a remove of that id.
LEMMA ContentsStep ==
    ASSUME NEW c, NEW n \in Seq(Requests), NEW s, QueueSound(n),
           NEW d, NEW m \in Seq(Requests), NEW t, QueueSound(m),
           NEW X \in SUBSET ObjectID, GivesAlike(X, c, n, s, d, m, t)
    PROVE  ContentsFollow(X, c, n, s, d, m, t)
  <1> DEFINE F == ContentsOf(c, n, s)
             G == ContentsOf(d, m, t)
  <1>1. /\ DOMAIN F \subseteq ObjectID /\ DOMAIN G \subseteq ObjectID
        /\ F = [o \in DOMAIN F |-> F[o]] /\ G = [o \in DOMAIN G |-> G[o]]
    BY Zenon DEF ContentsOf
  <1>2. \A o \in ObjectID : /\ \A v : Gives(c, n, s, o, v) => o \in DOMAIN F /\ F[o] = v
                            /\ o \in DOMAIN F => Gives(c, n, s, o, F[o])
    BY ContentsGives, Zenon
  <1>3. \A o \in ObjectID : /\ \A v : Gives(d, m, t, o, v) => o \in DOMAIN G /\ G[o] = v
                            /\ o \in DOMAIN G => Gives(d, m, t, o, G[o])
    BY ContentsGives, Zenon
  <1> HIDE DEF F, G
  <1>4. \A o \in ObjectID \ X : /\ o \in DOMAIN G <=> o \in DOMAIN F
                                /\ o \in DOMAIN F => G[o] = F[o]
    BY <1>2, <1>3 DEF GivesAlike
  <1>5. ASSUME X = {} PROVE G = F
    <2>1. DOMAIN G = DOMAIN F /\ \A o \in DOMAIN F : G[o] = F[o]
      BY <1>1, <1>4, <1>5, Zenon
    <2> QED BY <1>1, <2>1, Zenon
  <1>6. ASSUME NEW x, NEW v, X = {x}, GivesOnly(d, m, t, x, v)
        PROVE  G = Bind(F, x, v)
    <2>1. x \in DOMAIN G /\ G[x] = v
      BY <1>3, <1>6, Zenon DEF GivesOnly
    <2>2. DOMAIN G = DOMAIN F \cup {x}
      BY <1>1, <1>4, <1>6, <2>1, Zenon
    <2>3. \A o \in DOMAIN G : G[o] = IF o = x THEN v ELSE F[o]
      BY <1>1, <1>4, <1>6, <2>1
    <2> QED BY <1>1, <2>2, <2>3 DEF Bind
  <1>7. ASSUME NEW x, X = {x}, GivesNothing(d, m, t, x)
        PROVE  G = Erase(F, x)
    <2>1. x \notin DOMAIN G
      BY <1>3, <1>7, Zenon DEF GivesNothing
    <2>2. DOMAIN G = DOMAIN F \ {x}
      BY <1>1, <1>4, <1>7, <2>1, Zenon
    <2>3. \A o \in DOMAIN G : G[o] = F[o]
      BY <1>1, <1>4, <1>7, <2>1, Zenon
    <2> QED BY <1>1, <2>2, <2>3, Zenon DEF Erase
  <1> QED BY <1>5, <1>6, <1>7, Zenon DEF F, G, ContentsFollow

-----------------------------------------------------------------------------
(* Evictions and prefetches.                                               *)

\* evict: the entry leaves, and what it gave is on its way to the store or
\* was there already.
LEMMA Evicting ==
    ASSUME TypeInv, Sound(cache, net, store, {}),
           NEW V, V = {} \/ \E v : V = {v}, NEW r \in evict_vector(V)
    PROVE  /\ Sound(r.cache, r.net, store, {})
           /\ \A o \in ObjectID : \A v :
                 Gives(r.cache, r.net, store, o, v) <=> Gives(cache, net, store, o, v)
           /\ \A o \in DOMAIN r.cache : o \in DOMAIN cache /\ r.cache[o] = cache[o]
  <1>1. CASE V = {}
    BY <1>1 DEF evict_vector, Evicted
  <1>2. CASE \E v : V = {v}
    <2>1. PICK v : V = {v}
      BY <1>2, Zenon
    <2>2. r \in evict(v)
      BY <2>1, Zenon DEF evict_vector
    <2>3. CASE v \notin DOMAIN cache
      BY <2>2, <2>3 DEF evict, Evicted
    <2>4. CASE v \in DOMAIN cache
      <3> DEFINE writes == DeferWrites /\ cache[v].dirty
                 req == [op |-> "write", oid |-> v, val |-> cache[v].obj]
                 n == IF writes THEN Append(net, req) ELSE net
      <3>1. r.cache = Erase(cache, v) /\ r.net = n
        <4>1. \E k : r = [status |-> IF k.past THEN "crash" ELSE "ok", cache |-> Erase(cache, v),
                          pending |-> k.left, net |-> n]
          BY <2>2, <2>4, Zenon DEF evict, Evicted
        <4> HIDE DEF n
        <4> QED BY <4>1
      <3>2. v \in ObjectID /\ cache[v] \in GoodEntry /\ net \in Seq(Requests)
        BY <2>4, Zenon DEF TypeInv, IsPartialMap
      <3>3. DOMAIN r.cache = DOMAIN cache \ {v} /\ \A o \in DOMAIN r.cache : r.cache[o] = cache[o]
        BY <3>1, Zenon DEF Erase
      <3>4. DOMAIN cache \subseteq ObjectID
        BY Zenon DEF TypeInv, IsPartialMap
      <3>5. \A o \in ObjectID \ {v} : Dirty(r.cache, o) <=> Dirty(cache, o)
        BY <3>3 DEF Dirty
      <3>6. CASE writes
        <4>1. cache[v].obj \in Values
          BY <3>2, <3>6, Zenon DEF GoodEntry
        <4>2. r.net = Append(net, req)
          BY <3>1, <3>6, Zenon
        <4>3. /\ QueueSound(r.net)
              /\ \A u : Below(r.net, store, v, u) <=> u = cache[v].obj
              /\ \A o \in ObjectID \ {v} :
                    /\ \A u : Below(r.net, store, o, u) <=> Below(net, store, o, u)
                    /\ Absent(r.net, store, o) <=> Absent(net, store, o)
                    /\ \A i \in DOMAIN net :
                          LastRead(net, o, i) => i \in DOMAIN r.net /\ LastRead(r.net, o, i)
          <5> DEFINE obj == cache[v].obj
          <5>1. obj \in Values /\ QueueSound(net) /\ DeferWrites
            BY <3>6, <4>1, Zenon DEF Sound
          <5> HIDE DEF obj
          <5>2. WriteQueued(net, store, v, obj, Append(net, [op |-> "write", oid |-> v, val |-> obj]))
            BY <3>2, <5>1, QueueWrite
          <5>3. WriteQueued(net, store, v, obj, r.net)
            BY <4>2, <5>2, Zenon DEF obj
          <5> QED BY <5>3, Zenon DEF WriteQueued, obj
        <4>4. \A o \in DOMAIN r.cache : EntrySound(r.cache[o], r.net, store, o, {})
          BY <3>3, <3>4, <4>3, Zenon DEF Sound, EntrySound
        <4>5. \A o \in ObjectID \ {v} : \A u :
                 Gives(r.cache, r.net, store, o, u) <=> Gives(cache, net, store, o, u)
          BY <3>3, <3>5, <4>3 DEF Gives, Dirty
        <4>6. \A u : Gives(r.cache, r.net, store, v, u) <=> Gives(cache, net, store, v, u)
          BY <2>4, <3>3, <3>6, <4>3 DEF Gives, Dirty
        <4> QED BY <3>3, <4>3, <4>4, <4>5, <4>6, Zenon DEF Sound
      <3>7. CASE ~writes
        <4>1. r.net = net
          BY <3>1, <3>7
        <4>2. Sound(r.cache, r.net, store, {})
          BY <3>3, <4>1, Zenon DEF Sound
        <4>3. \A o \in ObjectID \ {v} : \A u :
                 Gives(r.cache, r.net, store, o, u) <=> Gives(cache, net, store, o, u)
          BY <3>3, <3>5, <4>1, Zenon DEF Gives, Dirty
        <4>4. ASSUME NEW u
              PROVE  Gives(r.cache, r.net, store, v, u) <=> Gives(cache, net, store, v, u)
          <5>1. Gives(r.cache, r.net, store, v, u) <=> Below(net, store, v, u)
            BY <3>3, <4>1, Zenon DEF Gives, Dirty
          <5>2. CASE ~cache[v].dirty
            BY <5>1, <5>2, Zenon DEF Gives, Dirty
          <5>3. CASE cache[v].dirty
            <6>1. ~DeferWrites /\ Below(net, store, v, cache[v].obj)
              BY <2>4, <3>7, <5>3, Zenon DEF Sound, EntrySound
            <6>2. Writes(net, v) = {}
              BY <3>2, <6>1, Zenon DEF Sound, QueueSound
            <6>3. Below(net, store, v, u) <=> u = cache[v].obj
              BY <6>1, <6>2, Zenon DEF Below, LastWrite
            <6> QED BY <2>4, <5>1, <5>3, <6>3 DEF Gives, Dirty
          <5> QED BY <5>2, <5>3
        <4> QED BY <3>3, <4>2, <4>3, <4>4, Zenon
      <3> QED BY <3>6, <3>7, Zenon
    <2> QED BY <2>3, <2>4, Zenon
  <1> QED BY <1>1, <1>2, Zenon

\* The rest of prefetch, after its evictions: a new entry waits for a read
\* that nothing follows; the user is given the same.
LEMMA Fetching ==
    ASSUME NEW oid \in ObjectID, NEW r,
           DOMAIN r.cache \subseteq ObjectID, r.net \in Seq(Requests),
           Sound(r.cache, r.net, store, {}), FetchAhead(oid, r)
    PROVE  /\ Sound(cache', net', store, {})
           /\ \A o \in ObjectID : \A v :
                 Gives(cache', net', store, o, v) <=> Gives(r.cache, r.net, store, o, v)
           /\ \A o \in DOMAIN r.cache : o \in DOMAIN cache' /\ cache'[o] = r.cache[o]
  <1>1. CASE oid \in DOMAIN r.cache
    BY <1>1, Zenon DEF FetchAhead
  <1>2. CASE oid \notin DOMAIN r.cache
    <2> DEFINE e == [cached |-> FALSE, dirty |-> FALSE, obj |-> Default, future |-> "pending"]
               c == r.cache
               n == r.net
    <2>1. cache' = Bind(c, oid, e) /\ net' = Append(n, [op |-> "read", oid |-> oid])
      BY <1>2, Zenon DEF FetchAhead
    <2>2. ~e.cached /\ ~e.dirty /\ e.future = "pending"
      BY Zenon
    <2>3. n \in Seq(Requests) /\ DOMAIN c \subseteq ObjectID /\ oid \notin DOMAIN c /\ Sound(c, n, store, {})
      BY <1>2
    <2> HIDE DEF e, c, n
    <2>4. ReadQueued(n, oid, net')
      BY <2>1, <2>3, QueueRead, Zenon DEF Sound
    <2>5. /\ DOMAIN cache' = DOMAIN c \cup {oid}
          /\ cache'[oid] = e
          /\ \A o \in DOMAIN c : cache'[o] = c[o]
      BY <2>1, <2>3, Zenon DEF Bind
    <2>6. ASSUME NEW o \in DOMAIN c PROVE EntrySound(cache'[o], net', store, o, {})
      <3>1. o \in ObjectID \ {oid} /\ EntrySound(c[o], n, store, o, {}) /\ cache'[o] = c[o]
        BY <2>3, <2>5, Zenon DEF Sound
      <3>2. ~c[o].cached /\ c[o].future = "pending" => \E i \in DOMAIN net' : LastRead(net', o, i)
        BY <2>4, <3>1, Zenon DEF EntrySound, ReadQueued
      <3>3. SameBelow(n, store, net', store)
        BY <2>4, SMTT(30) DEF ReadQueued
      <3>4. EntrySound(c[o], net', store, o, {})
        BY <3>1, <3>2, <3>3, Zenon DEF EntrySound, SameBelow
      <3> QED BY <3>1, <3>4
    <2>7. EntrySound(e, net', store, oid, {})
      <3>1. "pending" \notin Values /\ "pending" # "NoSuchID"
        BY CacheAssumption
      <3> QED BY <2>2, <2>4, <3>1, Zenon DEF EntrySound, ReadQueued
    <2>8. Sound(cache', net', store, {})
      BY <2>4, <2>5, <2>6, <2>7, Zenon DEF Sound, ReadQueued
    <2>9. \A o \in ObjectID : Dirty(cache', o) <=> Dirty(c, o)
      BY <2>2, <2>3, <2>5, Zenon DEF Dirty
    <2>10. \A o \in ObjectID : \A v : Gives(cache', net', store, o, v) <=> Gives(c, n, store, o, v)
      BY <2>4, <2>5, <2>9, Zenon DEF Gives, Dirty, ReadQueued, SameBelow
    <2> QED BY <2>5, <2>8, <2>10, Zenon DEF c, n
  <1> QED BY <1>1, <1>2, Zenon

-----------------------------------------------------------------------------
(* The steps.                                                              *)

\* The hypotheses: the application does not put an id it has prefetched and
\* not yet got, and the remote pool can hold every object.
StoreFits == IsFiniteSet(ObjectID) /\ Cardinality(ObjectID) <= StoreCapacity

\* Every id gives the user the same before and after the step.
Untouched ==
    \A o \in ObjectID : \A v : Gives(cache', net', store', o, v) <=> Gives(cache, net, store, o, v)

\* The announcements of get and prefetch, with their evictions.
LEMMA FreshAnnounce ==
    ASSUME TypeInv, FreshInv, NEW oid \in ObjectID, GetCall(oid) \/ Prefetch(oid)
    PROVE  FreshInv' /\ Untouched
  <1>1. frame.pc = "idle" /\ Putting = {} /\ Sound(cache, net, store, {}) /\ store' = store
    BY Zenon DEF GetCall, Prefetch, Putting, FreshInv
  <1>2. PICK p, r :
           /\ p = policy_get(order, tracked, oid) \/ p = policy_prefetch(order, tracked, oid)
           /\ r \in evict_vector(p.evicted)
           /\ \/ cache' = r.cache /\ net' = r.net
              \/ FetchAhead(oid, r)
           /\ frame'.pc \in {"idle", "get", "crashed"}
    BY DEF GetCall, Prefetch, EvictionFails, Fail, Idle, Crashed
  <1>3. p.evicted = {} \/ \E v : p.evicted = {v}
    BY <1>2, PolicyAnswer, Zenon
  <1>4. /\ Sound(r.cache, r.net, store, {})
        /\ \A o \in ObjectID : \A v :
              Gives(r.cache, r.net, store, o, v) <=> Gives(cache, net, store, o, v)
    BY <1>1, <1>2, <1>3, Evicting, Zenon
  <1>5. DOMAIN r.cache \subseteq ObjectID /\ r.net \in Seq(Requests)
    BY <1>2, <1>3, EvictVector, Zenon DEF IsPartialMap
  <1>6. /\ Sound(cache', net', store, {})
        /\ \A o \in ObjectID : \A v :
              Gives(cache', net', store, o, v) <=> Gives(r.cache, r.net, store, o, v)
    <2>1. CASE cache' = r.cache /\ net' = r.net
      BY <1>4, <2>1
    <2>2. CASE FetchAhead(oid, r)
      BY <1>4, <1>5, <2>2, Fetching, Zenon
    <2> QED BY <1>2, <2>1, <2>2, Zenon
  <1>7. Putting' = {} /\ frame'.pc # "put"
    BY <1>2, Zenon DEF Putting
  <1>8. FreshInv'
    BY <1>1, <1>6, <1>7, Zenon DEF FreshInv
  <1> QED BY <1>1, <1>4, <1>6, <1>8, Zenon DEF Untouched

\* The id that get's loop is about to prefetch.
LEMMA HeadIsId ==
    ASSUME TypeInv, PrefetchNext
    PROVE  Head(frame.todo) \in ObjectID
  <1>1. frame.pc = "prefetch" /\ frame.todo # <<>>
    BY Zenon DEF PrefetchNext
  <1>2. frame.todo \in Seq(ObjectID)
    BY <1>1, FrameTypes, Zenon
  <1> QED BY <1>1, <1>2

\* A turn of get's prefetching loop.
LEMMA FreshPrefetchNext ==
    ASSUME TypeInv, FreshInv, PrefetchNext
    PROVE  FreshInv' /\ Untouched
  <1> DEFINE oid == Head(frame.todo)
  <1>1. frame.pc = "prefetch" /\ Putting = {} /\ Sound(cache, net, store, {}) /\ store' = store
    BY Zenon DEF PrefetchNext, Putting, FreshInv
  <1>2. oid \in ObjectID
    BY HeadIsId, Zenon
  <1> DEFINE p == policy_prefetch(order, tracked, oid)
  <1>3. PICK r \in evict_vector(p.evicted) :
           /\ \/ cache' = r.cache /\ net' = r.net
              \/ FetchAhead(oid, r)
           /\ frame'.pc \in {"idle", "prefetch", "crashed"}
    BY DEF PrefetchNext, EvictionFails, Fail, Idle, Crashed
  <1> HIDE DEF oid
  <1>4. p.evicted = {} \/ \E v : p.evicted = {v}
    BY <1>2, PolicyAnswer, Zenon
  <1> HIDE DEF p
  <1>5. /\ Sound(r.cache, r.net, store, {})
        /\ \A o \in ObjectID : \A v :
              Gives(r.cache, r.net, store, o, v) <=> Gives(cache, net, store, o, v)
    BY <1>1, <1>4, Evicting, Zenon
  <1>6. DOMAIN r.cache \subseteq ObjectID /\ r.net \in Seq(Requests)
    BY <1>4, EvictVector DEF IsPartialMap
  <1>7. /\ Sound(cache', net', store, {})
        /\ \A o \in ObjectID : \A v :
              Gives(cache', net', store, o, v) <=> Gives(r.cache, r.net, store, o, v)
    <2>1. CASE cache' = r.cache /\ net' = r.net
      BY <1>5, <2>1, Zenon
    <2>2. CASE FetchAhead(oid, r)
      BY <1>2, <1>5, <1>6, <2>2, Fetching
    <2> QED BY <1>3, <2>1, <2>2, Zenon
  <1>8. Putting' = {} /\ frame'.pc # "put"
    BY <1>3, Zenon DEF Putting
  <1>9. FreshInv'
    BY <1>1, <1>7, <1>8, Zenon DEF FreshInv
  <1> QED BY <1>1, <1>5, <1>7, <1>9, Zenon DEF Untouched

\* put up to the synchronous write: the id gives the new object, or the call
\* has failed and every id gives what it gave.
LEMMA FreshPut ==
    ASSUME CarefulPuts, TypeInv, FreshInv, NEW oid \in ObjectID, NEW v \in Values, PutCall(oid, v)
    PROVE  /\ FreshInv'
           /\ \A o \in ObjectID \ {oid} : \A u :
                 Gives(cache', net', store', o, u) <=> Gives(cache, net, store, o, u)
           /\ Putting = {}
           /\ \/ /\ Untouched
                 /\ given' = given /\ Putting' = {}
                 /\ ret' = ret \/ ret'.out \in {"EvictError", "CacheCapacity"}
              \/ /\ \A u : Gives(cache', net', store', oid, u) <=> u = v
                 /\ given' = Bind(given, oid, v)
                 /\ \/ ret' = Ended("put", oid, "ok") /\ Putting' = {}
                    \/ ret' = ret /\ Putting' = {oid}
  <1> DEFINE p == policy_put(order, tracked, oid)
             fresh == [cached |-> TRUE, dirty |-> TRUE, obj |-> v, future |-> "none"]
             entry(c) == IF oid \in DOMAIN c THEN [c[oid] EXCEPT !.obj = v, !.dirty = TRUE]
                                             ELSE fresh
  <1>1. /\ frame.pc = "idle" /\ Putting = {} /\ Sound(cache, net, store, {}) /\ store' = store
        /\ oid \in DOMAIN cache => cache[oid].cached
    BY Zenon DEF PutCall, Putting, FreshInv
  <1>2. p.evicted = {} \/ \E x : p.evicted = {x}
    BY PolicyAnswer, Zenon
  <1> HIDE DEF p, entry
  <1>3. PICK r \in evict_vector(p.evicted) :
           \/ EvictionFails("put", oid, r) /\ given' = given
           \/ /\ net' = r.net
              /\ cache' = r.cache
              /\ Fail("put", oid, "CacheCapacity")
              /\ given' = given
           \/ /\ net' = r.net
              /\ cache' = Bind(r.cache, oid, entry(r.cache))
              /\ given' = Bind(given, oid, v)
              /\ IF DeferWrites
                 THEN frame' = Idle /\ ret' = Ended("put", oid, "ok")
                 ELSE frame' = [pc |-> "put", oid |-> oid, val |-> v] /\ UNCHANGED ret
    BY Zenon DEF PutCall, p, entry
  <1>4. /\ Sound(r.cache, r.net, store, {})
        /\ \A o \in ObjectID : \A u :
              Gives(r.cache, r.net, store, o, u) <=> Gives(cache, net, store, o, u)
        /\ \A o \in DOMAIN r.cache : o \in DOMAIN cache /\ r.cache[o] = cache[o]
    BY <1>1, <1>2, Evicting, Zenon
  <1>5. /\ IsPartialMap(r.cache, ObjectID, GoodEntry)
        /\ r.status \in {"ok", "crash", "EvictError"}
    BY <1>2, EvictVector, Zenon
  <1>6. CASE /\ \/ EvictionFails("put", oid, r)
                \/ net' = r.net /\ cache' = r.cache /\ Fail("put", oid, "CacheCapacity")
             /\ given' = given
    <2>1. /\ net' = r.net /\ cache' = r.cache
          /\ \/ frame' = Crashed /\ ret' = ret
             \/ frame' = Idle /\ ret'.out \in {"EvictError", "CacheCapacity"}
      BY <1>5, <1>6 DEF EvictionFails, Fail, Ended
    <2>2. Putting' = {} /\ frame'.pc # "put"
      BY <2>1 DEF Putting, Crashed, Idle
    <2>3. FreshInv'
      BY <1>1, <1>4, <2>1, <2>2, Zenon DEF FreshInv
    <2>4. Untouched
      BY <1>1, <1>4, <2>1, SMTT(30) DEF Untouched
    <2>5. \A o \in ObjectID \ {oid} : \A u :
             Gives(cache', net', store', o, u) <=> Gives(cache, net, store, o, u)
      BY <2>4, Zenon DEF Untouched
    <2>6. ret' = ret \/ ret'.out \in {"EvictError", "CacheCapacity"}
      BY <2>1, Zenon
    <2> QED BY <1>1, <1>6, <2>2, <2>3, <2>4, <2>5, <2>6, Zenon
  <1>7. CASE /\ net' = r.net
             /\ cache' = Bind(r.cache, oid, entry(r.cache))
             /\ given' = Bind(given, oid, v)
             /\ IF DeferWrites
                THEN frame' = Idle /\ ret' = Ended("put", oid, "ok")
                ELSE frame' = [pc |-> "put", oid |-> oid, val |-> v] /\ UNCHANGED ret
    <2> DEFINE c == r.cache
               e == entry(c)
    <2>1. e.cached /\ e.dirty /\ e.obj = v
      <3>1. CASE oid \in DOMAIN c
        <4>1. c[oid] \in cache_entry /\ c[oid].cached
          BY <1>1, <1>4, <1>5, <3>1 DEF IsPartialMap, GoodEntry
        <4> HIDE DEF c
        <4>2. e = [c[oid] EXCEPT !.obj = v, !.dirty = TRUE]
          BY <3>1, Zenon DEF entry
        <4> HIDE DEF e
        <4> QED BY <4>1, <4>2, Zenon DEF cache_entry
      <3>2. CASE oid \notin DOMAIN c
        BY <3>2, Zenon DEF entry
      <3> QED BY <3>1, <3>2, Zenon
    <2>2. Sound(c, net', store, {}) /\ cache' = Bind(c, oid, e)
      BY <1>4, <1>7
    <2>3. \A o \in ObjectID : \A u : Gives(c, net', store, o, u) <=> Gives(cache, net, store, o, u)
      BY <1>4, <1>7, Zenon
    <2> HIDE DEF c, e
    <2>4. /\ DOMAIN cache' = DOMAIN c \cup {oid}
          /\ cache'[oid] = e
          /\ \A o \in DOMAIN c \ {oid} : cache'[o] = c[o]
      BY <2>2, Zenon DEF Bind
    <2>5. Putting' = IF DeferWrites THEN {} ELSE {oid}
      BY <1>7 DEF Putting, Idle
    <2>6. EntrySound(e, net', store, oid, Putting')
      BY <2>1, <2>5, Zenon DEF EntrySound
    <2>7. \A o \in DOMAIN c : EntrySound(c[o], net', store, o, Putting')
      BY <2>2, Zenon DEF Sound, EntrySound
    <2>8. Sound(cache', net', store, Putting')
      BY <2>2, <2>4, <2>6, <2>7, Zenon DEF Sound
    <2>9. frame'.pc = "put" => ~DeferWrites /\ frame'.oid = oid /\ frame'.val = v
      BY <1>7, SMTT(30) DEF Idle
    <2>10. FreshInv'
      BY <1>1, <2>1, <2>4, <2>8, <2>9, SMTT(30) DEF FreshInv
    <2>11. \A o \in ObjectID \ {oid} : \A u :
              Gives(cache', net', store', o, u) <=> Gives(cache, net, store, o, u)
      <3>1. \A o \in ObjectID \ {oid} : \A u :
               Gives(cache', net', store, o, u) <=> Gives(c, net', store, o, u)
        BY <2>4 DEF Gives, Dirty
      <3> QED BY <1>1, <2>3, <3>1, Zenon
    <2>12. \A u : Gives(cache', net', store', oid, u) <=> u = v
      BY <2>1, <2>4, Zenon DEF Gives, Dirty
    <2>13. \/ ret' = Ended("put", oid, "ok") /\ Putting' = {}
           \/ ret' = ret /\ Putting' = {oid}
      BY <1>7, <2>5, Zenon
    <2>14. given' = Bind(given, oid, v)
      BY <1>7, Zenon
    <2> QED BY <1>1, <2>10, <2>11, <2>12, <2>13, <2>14, Zenon
  <1> QED BY <1>3, <1>6, <1>7, Zenon

\* With nothing on the connection, what lies below the cache is the store.
LEMMA EmptyQueue ==
    /\ QueueSound(<<>>)
    /\ \A s, o, v : Below(<<>>, s, o, v) <=> o \in DOMAIN s /\ v = s[o]
    /\ \A s, o : Absent(<<>>, s, o) <=> o \notin DOMAIN s
    /\ \A o, i : i \notin DOMAIN <<>>
  <1>1. DOMAIN <<>> = {}
    OBVIOUS
  <1>2. \A o : Writes(<<>>, o) = {}
    BY <1>1, Zenon DEF Writes
  <1>3. \A o, i : ~LastWrite(<<>>, o, i)
    BY <1>2, Zenon DEF LastWrite
  <1> QED BY <1>1, <1>2, <1>3, Zenon DEF QueueSound, Below, Absent

\* remove: the store forgets the id and so does the cache.
LEMMA FreshRemove ==
    ASSUME TypeInv, FreshInv, NEW oid \in ObjectID, RemoveCall(oid)
    PROVE  /\ FreshInv'
           /\ \A o \in ObjectID \ {oid} : \A u :
                 Gives(cache', net', store', o, u) <=> Gives(cache, net, store, o, u)
           /\ \A u : ~Gives(cache', net', store', oid, u)
  <1>1. /\ frame.pc = "idle" /\ frame' = frame /\ Putting = {} /\ Putting' = {}
        /\ net = <<>> /\ net' = <<>>
        /\ store' = Erase(store, oid) /\ cache' = Erase(cache, oid)
        /\ Sound(cache, <<>>, store, {})
    BY Zenon DEF RemoveCall, Putting, FreshInv
  <1>2. /\ DOMAIN store' = DOMAIN store \ {oid} /\ \A o \in DOMAIN store' : store'[o] = store[o]
        /\ DOMAIN cache' = DOMAIN cache \ {oid} /\ \A o \in DOMAIN cache' : cache'[o] = cache[o]
    BY <1>1, Zenon DEF Erase
  <1>3. \A o \in ObjectID \ {oid} :
           /\ \A v : Below(<<>>, store', o, v) <=> Below(<<>>, store, o, v)
           /\ Absent(<<>>, store', o) <=> Absent(<<>>, store, o)
    BY <1>2, EmptyQueue
  <1>4. DOMAIN cache \subseteq ObjectID
    BY Zenon DEF TypeInv, IsPartialMap
  <1>5. \A o \in DOMAIN cache' : EntrySound(cache'[o], <<>>, store', o, {})
    BY <1>1, <1>2, <1>3, <1>4, SMTT(30) DEF Sound, EntrySound
  <1>6. FreshInv'
    BY <1>1, <1>5, EmptyQueue, Zenon DEF FreshInv, Sound
  <1>7. \A o \in ObjectID \ {oid} : \A u :
           Gives(cache', net', store', o, u) <=> Gives(cache, net, store, o, u)
    BY <1>1, <1>2, <1>3, Zenon DEF Gives, Dirty
  <1>8. \A u : ~Gives(cache', net', store', oid, u)
    BY <1>1, <1>2, EmptyQueue, Zenon DEF Gives, Dirty
  <1> QED BY <1>6, <1>7, <1>8, Zenon

\* Steps that change neither cache nor connection nor store.
LEMMA FreshIdle ==
    ASSUME FreshInv, UNCHANGED <<cache, net, store>>, frame.pc # "put", frame'.pc # "put"
    PROVE  FreshInv' /\ Untouched
  <1>1. Putting = {} /\ Putting' = {}
    BY Zenon DEF Putting
  <1> QED BY <1>1, Zenon DEF FreshInv, Untouched

\* A step that only changes the entry of one clean id to another clean entry
\* that agrees with the store.
LEMMA FreshEntry ==
    ASSUME TypeInv, FreshInv, UNCHANGED <<net, store>>, frame.pc # "put", frame'.pc # "put",
           NEW oid \in ObjectID, NEW e, cache' = Bind(cache, oid, e), ~Dirty(cache, oid), ~e.dirty,
           EntrySound(e, net, store, oid, {})
    PROVE  FreshInv' /\ Untouched
  <1>1. Putting = {} /\ Putting' = {}
    BY Zenon DEF Putting
  <1>2. /\ DOMAIN cache' = DOMAIN cache \cup {oid}
        /\ cache'[oid] = e
        /\ \A o \in DOMAIN cache \ {oid} : cache'[o] = cache[o]
    BY Zenon DEF Bind
  <1>3. Sound(cache', net, store, {})
    BY <1>1, <1>2, Zenon DEF FreshInv, Sound
  <1>4. \A o \in ObjectID : Dirty(cache', o) <=> Dirty(cache, o)
    BY <1>2, Zenon DEF Dirty
  <1>5. Untouched
    BY <1>2, <1>4, Zenon DEF Untouched, Gives, Dirty
  <1> QED BY <1>1, <1>3, <1>5, Zenon DEF FreshInv

\* The steps of get and prefetch, of the connection and of the mode change
\* nothing of what the user has put, and no put begins or returns in them.
LEMMA QuietStep ==
    ASSUME TypeInv,
           \/ \E oid \in ObjectID : GetCall(oid) \/ Prefetch(oid)
           \/ \E m \in Modes : SetMode(m)
           \/ GetHit \/ GetPrefetched \/ GetFull \/ GetMiss \/ GetReturn \/ PrefetchNext
    PROVE  given' = given /\ Putting = {} /\ Putting' = {}
  <1> SUFFICES given' = given /\ frame.pc # "put" /\ frame'.pc # "put"
    BY Zenon DEF Putting
  <1>1. ASSUME NEW op, NEW oid, NEW r, EvictionFails(op, oid, r) PROVE frame'.pc # "put"
    <2>1. frame' = Idle \/ frame' = Crashed
      BY <1>1, Zenon DEF EvictionFails, Fail
    <2> QED BY <2>1 DEF Idle, Crashed
  <1>2. ASSUME NEW oid \in ObjectID, GetCall(oid)
        PROVE  given' = given /\ frame.pc # "put" /\ frame'.pc # "put"
    <2> DEFINE p == policy_get(order, tracked, oid)
    <2>1. PICK r \in evict_vector(p.evicted) :
             frame' = [pc |-> "get", oid |-> oid] \/ EvictionFails("get", oid, r)
      BY <1>2, Zenon DEF GetCall
    <2>2. given' = given /\ frame.pc = "idle"
      BY <1>2, Zenon DEF GetCall
    <2>3. [pc |-> "get", oid |-> oid].pc # "put"
      BY Zenon
    <2>4. frame'.pc # "put"
      BY <1>1, <2>1, <2>3, Zenon
    <2> QED BY <2>2, <2>4, Zenon
  <1>3. ASSUME NEW oid \in ObjectID, Prefetch(oid)
        PROVE  given' = given /\ frame.pc # "put" /\ frame'.pc # "put"
    <2> DEFINE p == policy_prefetch(order, tracked, oid)
    <2>1. PICK r \in evict_vector(p.evicted) : frame' = Idle \/ EvictionFails("prefetch", oid, r)
      BY <1>3, Zenon DEF Prefetch
    <2>2. given' = given /\ frame.pc = "idle"
      BY <1>3, Zenon DEF Prefetch
    <2>3. Idle.pc # "put"
      BY Zenon DEF Idle
    <2>4. frame'.pc # "put"
      BY <1>1, <2>1, <2>3, Zenon
    <2> QED BY <2>2, <2>4, Zenon
  <1>4. ASSUME NEW m \in Modes, SetMode(m)
        PROVE  given' = given /\ frame.pc # "put" /\ frame'.pc # "put"
    BY <1>4, Zenon DEF SetMode
  <1>5. CASE GetHit \/ GetPrefetched \/ GetFull \/ GetMiss \/ GetReturn
    <2>1. frame.pc \in {"get", "prefetch"} /\ given' = given
      BY <1>5, Zenon DEF GetHit, GetPrefetched, GetFull, GetMiss, GetReturn
    <2>2. frame'.pc \in {"idle", "prefetch"}
      BY <1>5, <2>1, StartPrefetchingType, SMTT(30)
         DEF GetHit, GetPrefetched, GetFull, GetMiss, GetReturn, Fail, Idle
    <2> QED BY <2>1, <2>2, SMTT(30)
  <1>6. CASE PrefetchNext
    <2>1. PICK r : \/ frame'.pc = "prefetch"
                   \/ EvictionFails("get", frame.oid, r)
      BY <1>6 DEF PrefetchNext
    <2>2. given' = given /\ frame.pc = "prefetch"
      BY <1>6, Zenon DEF PrefetchNext
    <2>3. frame'.pc # "put"
      BY <1>1, <2>1, Zenon
    <2> QED BY <2>2, <2>3, Zenon
  <1> QED BY <1>2, <1>3, <1>4, <1>5, <1>6, Zenon

\* The continuations of get but its prefetching loop.
LEMMA FreshGet ==
    ASSUME TypeInv, FreshInv, GetHit \/ GetPrefetched \/ GetFull \/ GetMiss \/ GetReturn
    PROVE  FreshInv' /\ Untouched
  <1>1. /\ frame.pc \in {"get", "prefetch"}
        /\ UNCHANGED <<net, store>>
    BY Zenon DEF GetHit, GetPrefetched, GetFull, GetMiss, GetReturn
  <1>2. frame'.pc \in {"idle", "prefetch"}
    BY <1>1, StartPrefetchingType, SMTT(30)
       DEF GetHit, GetPrefetched, GetFull, GetMiss, GetReturn, Fail, Idle
  <1>3. frame.oid \in ObjectID /\ Sound(cache, net, store, {})
    BY <1>1, FrameTypes, Zenon DEF FreshInv, Putting
  <1>4. CASE UNCHANGED cache
    BY <1>1, <1>2, <1>4, FreshIdle, Zenon
  <1>5. CASE GetPrefetched /\ ~UNCHANGED cache
    <2> DEFINE f == cache[frame.oid].future
               e == [cached |-> TRUE, dirty |-> cache[frame.oid].dirty, obj |-> f, future |-> "none"]
    <2>1. /\ frame.oid \in DOMAIN cache /\ ~cache[frame.oid].cached
          /\ f \notin {"pending", "NoSuchID"}
          /\ cache' = Bind(cache, frame.oid, e)
      BY <1>5, Zenon DEF GetPrefetched
    <2>2. f \in Values
      BY <2>1, Zenon DEF TypeInv, IsPartialMap, GoodEntry, cache_entry, Futures
    <2>3. ~cache[frame.oid].dirty /\ Below(net, store, frame.oid, f)
      BY <1>3, <2>1, <2>2, SMTT(30) DEF Sound, EntrySound
    <2>4. e.cached /\ ~e.dirty /\ e.obj = f
      BY <2>3, Zenon
    <2> HIDE DEF e, f
    <2>5. EntrySound(e, net, store, frame.oid, {})
      BY <2>3, <2>4, Zenon DEF EntrySound
    <2> QED BY <1>1, <1>2, <1>3, <2>1, <2>3, <2>4, <2>5, FreshEntry, SMTT(30) DEF Dirty
  <1>6. CASE GetMiss
    <2> DEFINE e(v) == [cached |-> TRUE, dirty |-> FALSE, obj |-> v, future |-> "none"]
    <2>1. PICK v : /\ cache' = Bind(cache, frame.oid, e(v))
                   /\ \/ frame.oid \in DOMAIN store /\ v = store[frame.oid]
                      \/ frame.oid \notin DOMAIN store /\ v = Default
      BY <1>6, Zenon DEF GetMiss
    <2>2. net = <<>> /\ ~Dirty(cache, frame.oid)
      BY <1>6, Zenon DEF GetMiss, Dirty
    <2> DEFINE x == e(v)
    <2>3. x.cached /\ ~x.dirty /\ x.obj = v /\ cache' = Bind(cache, frame.oid, x)
      BY <2>1, SMTT(30)
    <2> HIDE DEF x, e
    <2>4. EntrySound(x, net, store, frame.oid, {})
      BY <2>1, <2>2, <2>3, EmptyQueue, Zenon DEF EntrySound
    <2> QED BY <1>1, <1>2, <1>3, <2>2, <2>3, <2>4, FreshEntry, SMTT(30)
  <1> QED BY <1>4, <1>5, <1>6, SMTT(30) DEF GetHit, GetPrefetched, GetFull, GetReturn

\* The remote pool never rejects a write.
LEMMA PoolAccepts ==
    ASSUME StoreFits, TypeInv, NEW oid \in ObjectID
    PROVE  Accepts(oid)
  <1> SUFFICES ASSUME oid \notin DOMAIN store
               PROVE  Cardinality(DOMAIN store) < StoreCapacity
    BY Zenon DEF Accepts
  <1> DEFINE D == DOMAIN store
  <1>1. D \subseteq ObjectID \ {oid}
    BY Zenon DEF TypeInv, IsPartialMap
  <1>2. IsFiniteSet(ObjectID) /\ Cardinality(ObjectID) <= StoreCapacity
    BY Zenon DEF StoreFits
  <1>3. /\ IsFiniteSet(ObjectID \ {oid})
        /\ Cardinality(ObjectID \ {oid}) = Cardinality(ObjectID) - 1
    BY <1>2, FS_RemoveElement
  <1>4. IsFiniteSet(D) /\ Cardinality(D) <= Cardinality(ObjectID \ {oid})
    BY <1>1, <1>3, FS_Subset, Zenon
  <1>5. Cardinality(ObjectID) \in Nat /\ Cardinality(D) \in Nat
    BY <1>2, <1>4, FS_CardinalityType, Zenon
  <1> HIDE DEF D
  <1>6. Cardinality(D) < StoreCapacity
    BY <1>2, <1>3, <1>4, <1>5, CacheAssumption
  <1> QED BY <1>6, Zenon DEF D

\* The synchronous write of put: the store catches up with the entry.
LEMMA FreshPutReturn ==
    ASSUME StoreFits, TypeInv, FreshInv, PutReturn
    PROVE  FreshInv' /\ Untouched /\ ret' = Ended("put", frame.oid, "ok") /\ frame.oid \in ObjectID
  <1> DEFINE oid == frame.oid
  <1>1. /\ frame.pc = "put" /\ oid \in ObjectID /\ frame.val \in Values
        /\ net = <<>> /\ net' = <<>> /\ cache' = cache
        /\ frame'.pc = "idle"
    BY FrameTypes, Zenon DEF PutReturn, Idle
  <1>2. store' = Bind(store, oid, frame.val) /\ ret' = Ended("put", oid, "ok")
    BY <1>1, PoolAccepts, Zenon DEF PutReturn
  <1>3. /\ Putting = {oid} /\ Putting' = {}
        /\ Sound(cache, <<>>, store, {oid})
        /\ oid \in DOMAIN cache /\ cache[oid].dirty /\ cache[oid].obj = frame.val
    BY <1>1, Zenon DEF FreshInv, Putting
  <1> HIDE DEF oid
  <1>4. /\ oid \in DOMAIN store' /\ store'[oid] = frame.val
        /\ \A o \in ObjectID \ {oid} : /\ o \in DOMAIN store' <=> o \in DOMAIN store
                                       /\ o \in DOMAIN store => store'[o] = store[o]
    BY <1>2, Zenon DEF Bind
  <1>5. \A o \in ObjectID \ {oid} :
           /\ \A v : Below(<<>>, store', o, v) <=> Below(<<>>, store, o, v)
           /\ Absent(<<>>, store', o) <=> Absent(<<>>, store, o)
    BY <1>4, EmptyQueue
  <1>6. DOMAIN cache \subseteq ObjectID
    BY Zenon DEF TypeInv, IsPartialMap
  <1>7. EntrySound(cache[oid], <<>>, store', oid, {})
    <2>1. Below(<<>>, store', oid, cache[oid].obj)
      BY <1>3, <1>4, EmptyQueue, Zenon
    <2>2. cache[oid].cached
      BY <1>3, Zenon DEF Sound, EntrySound
    <2> QED BY <1>3, <2>1, <2>2, Zenon DEF EntrySound
  <1>8. \A o \in DOMAIN cache \ {oid} : EntrySound(cache[o], <<>>, store', o, {})
    BY <1>3, <1>5, <1>6, Zenon DEF Sound, EntrySound
  <1>9. FreshInv'
    BY <1>1, <1>3, <1>7, <1>8, EmptyQueue, SMTT(30) DEF FreshInv, Sound
  <1>10. Untouched
    BY <1>1, <1>3, <1>5, Zenon DEF Untouched, Gives, Dirty
  <1> QED BY <1>1, <1>2, <1>9, <1>10, Zenon DEF oid

\* A queued write reaches the store.
LEMMA FreshServeWrite ==
    ASSUME StoreFits, TypeInv, FreshInv, ServeWrite
    PROVE  FreshInv' /\ Untouched
  <1>1. /\ net \in Seq(Requests) /\ net # <<>> /\ Head(net).op = "write"
        /\ net' = Tail(net) /\ cache' = cache /\ frame' = frame
    BY Zenon DEF ServeWrite, TypeInv
  <1>2. Head(net).oid \in ObjectID
    BY <1>1, QueueTail, Zenon DEF Requests
  <1>3. store' = Bind(store, Head(net).oid, Head(net).val)
    BY <1>2, PoolAccepts, Zenon DEF ServeWrite
  <1>4. Sound(cache, net, store, Putting) /\ Putting' = Putting
    BY <1>1 DEF FreshInv, Putting
  <1>5. QueueSound(net') /\ SameBelow(net, store, net', store')
    BY <1>1, <1>3, <1>4, Served, SMTT(30) DEF Sound
  <1>6. ASSUME NEW o \in DOMAIN cache PROVE EntrySound(cache[o], net', store', o, Putting)
    <2>1. o \in ObjectID
      BY DEF TypeInv, IsPartialMap
    <2>2. EntrySound(cache[o], net, store, o, Putting)
      BY <1>4, Zenon DEF Sound
    <2>3. ASSUME NEW i \in DOMAIN net, LastRead(net, o, i)
          PROVE  \E j \in DOMAIN net' : LastRead(net', o, j)
      <3>1. i # 1
        BY <1>1, <2>3, QueueTail, SMTT(30) DEF LastRead
      <3> QED BY <1>1, <2>3, <3>1, LastReadTail, Zenon
    <2>4. ~cache[o].cached /\ cache[o].future = "pending" => \E i \in DOMAIN net' : LastRead(net', o, i)
      BY <2>2, <2>3, Zenon DEF EntrySound
    <2> QED BY <1>5, <2>1, <2>2, <2>4, Zenon DEF EntrySound, SameBelow
  <1>7. FreshInv'
    BY <1>1, <1>4, <1>5, <1>6, Zenon DEF FreshInv, Sound
  <1>8. Untouched
    BY <1>1, <1>5, Zenon DEF Untouched, Gives, Dirty, SameBelow
  <1> QED BY <1>7, <1>8, Zenon

\* A queued read is answered: the entry that waits for it gets what lies below
\* the cache, because nothing was queued for the id after the read.
LEMMA FreshServeRead ==
    ASSUME TypeInv, FreshInv, ServeRead
    PROVE  FreshInv' /\ Untouched
  <1> DEFINE x == Head(net).oid
             last == \A q \in Range(Tail(net)) : q.op = "read" => q.oid # x
             answer == IF x \in DOMAIN store THEN store[x] ELSE "NoSuchID"
             hit == x \in DOMAIN cache /\ cache[x].future = "pending" /\ last
  <1>1. /\ net \in Seq(Requests) /\ net # <<>> /\ Head(net).op = "read"
        /\ net' = Tail(net) /\ store' = store /\ frame' = frame
    BY Zenon DEF ServeRead, TypeInv
  <1>2. cache' = IF hit THEN [cache EXCEPT ![x].future = answer] ELSE cache
    BY Zenon DEF ServeRead
  <1>3. Sound(cache, net, store, Putting) /\ Putting' = Putting
    BY <1>1, Zenon DEF FreshInv, Putting
  <1>4. QueueSound(net') /\ SameBelow(net, store, net', store)
    BY <1>1, <1>3, Served, Zenon DEF Sound
  <1>5. x \in ObjectID /\ net[1].op = "read" /\ net[1].oid = x
    BY <1>1, QueueTail DEF Requests
  <1>6. ASSUME NEW i \in DOMAIN net, LastRead(net, x, i), i # 1
        PROVE  ~last
    <2>1. i - 1 \in DOMAIN Tail(net) /\ Tail(net)[i - 1] = net[i]
      BY <1>1, <1>6, QueueTail
    <2>2. Tail(net)[i - 1] \in Range(Tail(net)) /\ net[i].op = "read" /\ net[i].oid = x
      BY <1>6, <2>1, Zenon DEF Range, LastRead
    <2> QED BY <2>1, <2>2, Zenon
  <1>7. ASSUME NEW o \in DOMAIN cache, o # x \/ ~last
        PROVE  EntrySound(cache[o], net', store, o, Putting)
    <2>1. o \in ObjectID
      BY Zenon DEF TypeInv, IsPartialMap
    <2>2. EntrySound(cache[o], net, store, o, Putting)
      BY <1>3, Zenon DEF Sound
    <2>3. ASSUME NEW i \in DOMAIN net, LastRead(net, o, i)
          PROVE  \E j \in DOMAIN net' : LastRead(net', o, j)
      <3>1. CASE o # x
        <4>1. i # 1
          BY <1>5, <2>3, <3>1, Zenon DEF LastRead
        <4> QED BY <1>1, <2>3, <4>1, LastReadTail, SMTT(30)
      <3>2. CASE o = x
        <4>1. PICK q \in Range(Tail(net)) : q.op = "read" /\ q.oid = x
          BY <1>7, <3>2, Zenon
        <4>2. PICK j \in DOMAIN Tail(net) : q = Tail(net)[j]
          BY <4>1, Zenon DEF Range
        <4>3. j \in Nat \ {0} /\ j + 1 \in DOMAIN net /\ net[j + 1].oid = x
          BY <1>1, <4>1, <4>2, QueueTail
        <4>4. i # 1
          BY <2>3, <3>2, <4>3, SMTT(30) DEF LastRead
        <4> QED BY <1>1, <2>3, <4>4, LastReadTail, SMTT(30)
      <3> QED BY <3>1, <3>2
    <2>4. ~cache[o].cached /\ cache[o].future = "pending" => \E i \in DOMAIN net' : LastRead(net', o, i)
      BY <2>2, <2>3, Zenon DEF EntrySound
    <2> QED BY <1>4, <2>1, <2>2, <2>4, Zenon DEF EntrySound, SameBelow
  <1>8. CASE ~hit
    <2>1. cache' = cache
      BY <1>2, <1>8, Zenon
    <2>2. ASSUME NEW o \in DOMAIN cache PROVE EntrySound(cache[o], net', store, o, Putting)
      <3>1. CASE o # x \/ ~last
        BY <1>7, <3>1, Zenon
      <3>2. CASE o = x /\ cache[o].future # "pending"
        <4>1. EntrySound(cache[o], net, store, o, Putting) /\ o \in ObjectID
          BY <1>3, <1>5, <3>2, SMTT(30) DEF Sound
        <4> QED BY <1>4, <3>2, <4>1, Zenon DEF EntrySound, SameBelow
      <3> QED BY <1>8, <3>1, <3>2
    <2>3. FreshInv'
      BY <1>1, <1>3, <1>4, <2>1, <2>2, SMTT(30) DEF FreshInv, Sound
    <2>4. Untouched
      BY <1>1, <1>4, <2>1, Zenon DEF Untouched, Gives, Dirty, SameBelow
    <2> QED BY <2>3, <2>4, Zenon
  <1>9. CASE hit
    <2> DEFINE e == cache'[x]
    <2>1. /\ DOMAIN cache' = DOMAIN cache
          /\ \A o \in DOMAIN cache \ {x} : cache'[o] = cache[o]
          /\ e = [cache[x] EXCEPT !.future = answer]
      BY <1>2, <1>9
    <2>2. x \in DOMAIN cache /\ cache[x].future = "pending" /\ cache[x] \in cache_entry
      BY <1>9, Zenon DEF TypeInv, IsPartialMap, GoodEntry
    <2>3. /\ e.cached = cache[x].cached /\ e.dirty = cache[x].dirty /\ e.obj = cache[x].obj
          /\ e.future = answer
      BY <2>1, <2>2, Zenon DEF cache_entry
    <2>4. EntrySound(cache[x], net, store, x, Putting)
      BY <1>3, <2>2, Zenon DEF Sound
    <2>5. answer \in Values \/ answer = "NoSuchID"
      BY Zenon DEF TypeInv, IsPartialMap
    <2>6. {"pending", "NoSuchID"} \cap Values = {}
      BY CacheAssumption, Zenon DEF Exceptions
    <2>7. ASSUME ~cache[x].cached
          PROVE  /\ answer \in Values => Below(net, store, x, answer)
                 /\ answer = "NoSuchID" => Absent(net, store, x)
      <3>1. PICK i \in DOMAIN net : LastRead(net, x, i)
        BY <2>2, <2>4, <2>7, Zenon DEF EntrySound
      <3>2. i = 1
        BY <1>6, <1>9, <3>1, Zenon
      <3>3. Writes(net, x) = {}
        <4>1. \A j \in DOMAIN net : net[j].oid = x => j = 1
          BY <1>1, <3>1, <3>2, QueueTail, SMTT(30) DEF LastRead
        <4> QED BY <1>5, <4>1 DEF Writes
      <3>4. x \in DOMAIN store => store[x] # "NoSuchID"
        BY <2>6, Zenon DEF TypeInv, IsPartialMap
      <3> QED BY <2>6, <3>3, <3>4, SMTT(30) DEF Below, Absent
    <2> HIDE DEF e, answer
    <2>8. EntrySound(e, net', store, x, Putting)
      BY <1>4, <1>5, <2>3, <2>4, <2>5, <2>6, <2>7, Zenon DEF EntrySound, SameBelow
    <2>9. \A o \in DOMAIN cache' : EntrySound(cache'[o], net', store, o, Putting)
      BY <1>7, <2>1, <2>8, Zenon DEF e
    <2>10. /\ frame.pc = "put" => /\ frame.oid \in DOMAIN cache'
                                  /\ cache'[frame.oid].dirty
                                  /\ cache'[frame.oid].obj = frame.val
           /\ frame.pc = "put" => ~DeferWrites
      BY <2>1, <2>3, Zenon DEF FreshInv, e
    <2>11. FreshInv'
      BY <1>1, <1>3, <1>4, <2>9, <2>10 DEF FreshInv, Sound
    <2>12. \A o \in ObjectID : /\ Dirty(cache', o) <=> Dirty(cache, o)
                               /\ Dirty(cache, o) => cache'[o].obj = cache[o].obj
      BY <2>1, <2>3, Zenon DEF Dirty, e
    <2>13. Untouched
      BY <1>1, <1>4, <2>12 DEF Untouched, Gives, SameBelow
    <2> QED BY <2>11, <2>13, Zenon
  <1> QED BY <1>8, <1>9, Zenon

-----------------------------------------------------------------------------
(* The entry get is about to copy from.                                    *)

\* The hypotheses: nothing is prefetched by get, or the policy is LRU and
\* less than its max_size is read ahead.
ReadAheadFits ==
    \/ \A m \in Modes : m.kind = "kNone"
    \/ /\ Policy = "LRU"
       /\ \A l \in CustomLists : Len(l) < PolicySize
       /\ \A m \in Modes : m.kind = "kOrdered" => \/ m.read_ahead < PolicySize
                                                  \/ m.last - m.first < PolicySize

\* The id of the get is so near the front of the list that what is still to
\* be prefetched cannot push it out.
Shielded(oid, q, todo) ==
    todo # <<>> =>
        /\ Policy = "LRU"
        /\ \E i \in 1 .. Len(q) : q[i] = oid /\ i + Len(todo) <= PolicySize

LiveInv ==
    /\ frame.pc = "get" /\ Policy = "LRU" => Len(order) > 0 /\ order[1] = frame.oid
    /\ frame.pc = "prefetch" => /\ frame.live
                                /\ cache[frame.oid].cached
                                /\ Shielded(frame.oid, order, frame.todo)

\* The lists the prefetching policies return are short enough.
LEMMA ListsFit ==
    ASSUME ReadAheadFits, TypeInv, frame.pc = "get", Policy = "LRU" => Len(order) > 0 /\ order[1] = frame.oid,
           ~(mode.kind = "kOrdered" /\ frame.oid \notin mode.first .. mode.last),
           NEW todo \in PrefetchLists(frame.oid)
    PROVE  Shielded(frame.oid, order, todo)
  <1>1. mode.kind \in {"kNone", "kOrdered", "kCustom"}
    BY CacheAssumption, SMTT(30) DEF TypeInv
  <1>2. PolicySize \in Nat \ {0} /\ Len(order) \in Nat
    BY PolicyAssumption, Indexed, Zenon DEF TypeInv, WellFormed, Lists
  <1>3. ASSUME Policy = "LRU", Len(todo) \in Nat, Len(todo) < PolicySize
        PROVE  Shielded(frame.oid, order, todo)
    <2>1. 1 \in 1 .. Len(order) /\ order[1] = frame.oid /\ 1 + Len(todo) <= PolicySize
      BY <1>2, <1>3
    <2> QED BY <1>3, <2>1, Zenon DEF Shielded
  <1>4. CASE mode.kind = "kNone"
    BY <1>4, Zenon DEF PrefetchLists, Shielded
  <1>5. CASE mode.kind = "kOrdered"
    <2>1. mode \in Modes
      BY <1>5 DEF TypeInv
    <2>2. /\ Policy = "LRU"
          /\ mode.read_ahead < PolicySize \/ mode.last - mode.first < PolicySize
      BY <1>5, <2>1, Zenon DEF ReadAheadFits
    <2>3. /\ mode.first \in Nat /\ mode.last \in Nat /\ mode.read_ahead \in Nat
          /\ frame.oid \in mode.first .. mode.last
      BY <1>5, <2>1, CacheAssumption, Zenon
    <2> DEFINE k == IF mode.read_ahead > mode.last - mode.first THEN mode.last - mode.first
                                                               ELSE mode.read_ahead
               at(i) == ((frame.oid + i - mode.first) % (mode.last - mode.first + 1)) + mode.first
    <2>4. k \in Nat /\ k < PolicySize
      BY <1>2, <2>2, <2>3
    <2>5. todo = [i \in 1 .. k |-> at(i)]
      BY <1>5, Zenon DEF PrefetchLists, OrderedList
    <2> HIDE DEF k, at
    <2>6. Len(todo) = k
      BY <2>4, <2>5
    <2> QED BY <1>3, <2>2, <2>4, <2>6, Zenon
  <1>6. CASE mode.kind = "kCustom"
    <2>1. mode \in Modes /\ todo \in CustomLists
      BY <1>6 DEF TypeInv, PrefetchLists
    <2>2. Policy = "LRU" /\ Len(todo) < PolicySize
      BY <1>6, <2>1, Zenon DEF ReadAheadFits
    <2>3. Len(todo) \in Nat
      BY <2>1, CacheAssumption, Indexed, Zenon
    <2> QED BY <1>3, <2>2, <2>3, Zenon
  <1> QED BY <1>1, <1>4, <1>5, <1>6, Zenon

\* get has found its object and consults the prefetching policy.
LEMMA LiveStart ==
    ASSUME ReadAheadFits, TypeInv, LiveInv, frame.pc = "get", StartPrefetching, order' = order,
           cache'[frame.oid].cached
    PROVE  LiveInv'
  <1>1. CASE mode.kind = "kOrdered" /\ frame.oid \notin mode.first .. mode.last
    BY <1>1, SMTT(30) DEF StartPrefetching, Fail, Idle, LiveInv
  <1>2. CASE ~(mode.kind = "kOrdered" /\ frame.oid \notin mode.first .. mode.last)
    <2>1. PICK todo \in PrefetchLists(frame.oid) :
             frame' = [pc |-> "prefetch", oid |-> frame.oid, todo |-> todo, live |-> TRUE]
      BY <1>2, Zenon DEF StartPrefetching
    <2>2. Shielded(frame.oid, order, todo)
      BY <1>2, ListsFit, Zenon DEF LiveInv
    <2>3. frame'.pc = "prefetch" /\ frame'.oid = frame.oid /\ frame'.todo = todo /\ frame'.live
      BY <2>1, Zenon
    <2>4. Shielded(frame.oid, order, frame.todo)'
      BY <2>2, <2>3, SMTT(30) DEF Shielded
    <2> QED BY <2>3, <2>4, Zenon DEF LiveInv
  <1> QED BY <1>1, <1>2, Zenon

\* The entries that evict and prefetch leave in the cache are left as they were.
LEMMA EntriesKept ==
    ASSUME NEW V, V = {} \/ \E v : V = {v}, NEW r \in evict_vector(V)
    PROVE  /\ \A o \in DOMAIN r.cache : o \in DOMAIN cache /\ r.cache[o] = cache[o]
           /\ \A oid : FetchAhead(oid, r) =>
                 \A o \in DOMAIN r.cache : o \in DOMAIN cache' /\ cache'[o] = r.cache[o]
  <1>1. \A o \in DOMAIN r.cache : o \in DOMAIN cache /\ r.cache[o] = cache[o]
    <2>1. r.cache = cache \/ \E v : r.cache = Erase(cache, v)
      <3>1. CASE V = {}
        BY <3>1, SMTT(30) DEF evict_vector, Evicted
      <3>2. CASE \E v : V = {v}
        <4>1. PICK v : r \in evict(v)
          BY <3>2, Zenon DEF evict_vector
        <4> QED BY <4>1 DEF evict, Evicted
      <3> QED BY <3>1, <3>2, Zenon
    <2> QED BY <2>1, Zenon DEF Erase
  <1>2. ASSUME NEW oid, FetchAhead(oid, r)
        PROVE  \A o \in DOMAIN r.cache : o \in DOMAIN cache' /\ cache'[o] = r.cache[o]
    <2> DEFINE e == [cached |-> FALSE, dirty |-> FALSE, obj |-> Default, future |-> "pending"]
    <2>1. CASE oid \in DOMAIN r.cache
      BY <1>2, <2>1, Zenon DEF FetchAhead
    <2>2. CASE oid \notin DOMAIN r.cache
      <3>1. cache' = Bind(r.cache, oid, e)
        BY <1>2, <2>2, SMTT(30) DEF FetchAhead
      <3> HIDE DEF e
      <3> QED BY <2>2, <3>1, Zenon DEF Bind
    <2> QED BY <2>1, <2>2
  <1> QED BY <1>1, <1>2, Zenon

\* A turn of the loop evicts another id, and the get's id moves back by at
\* most one place in the list.
LEMMA LivePrefetchNext ==
    ASSUME TypeInv, LiveInv, PrefetchNext
    PROVE  LiveInv'
  <1> DEFINE oid == Head(frame.todo)
             p == policy_prefetch(order, tracked, oid)
  <1>1. /\ frame.pc = "prefetch" /\ frame.todo # <<>>
        /\ frame.todo \in Seq(ObjectID) /\ frame.oid \in DOMAIN cache
        /\ frame.live
    BY FrameTypes, Zenon DEF PrefetchNext, LiveInv
  <1>2. /\ oid \in ObjectID
        /\ Len(frame.todo) \in Nat \ {0} /\ Len(Tail(frame.todo)) = Len(frame.todo) - 1
    BY <1>1
  <1>3. PICK r \in evict_vector(p.evicted) :
           /\ Apply(p, r)
           /\ \/ /\ r.status = "ok"
                 /\ FetchAhead(oid, r)
                 /\ frame' = [pc |-> "prefetch", oid |-> frame.oid, todo |-> Tail(frame.todo),
                              live |-> frame.live /\ frame.oid \in DOMAIN r.cache]
              \/ EvictionFails("get", frame.oid, r)
    BY Zenon DEF PrefetchNext
  <1>4. CASE EvictionFails("get", frame.oid, r)
    BY <1>4, SMTT(30) DEF EvictionFails, Fail, Idle, Crashed, LiveInv
  <1>5. CASE /\ r.status = "ok"
             /\ FetchAhead(oid, r)
             /\ frame' = [pc |-> "prefetch", oid |-> frame.oid, todo |-> Tail(frame.todo),
                          live |-> frame.live /\ frame.oid \in DOMAIN r.cache]
    <2>1. PICK i \in 1 .. Len(order) : order[i] = frame.oid /\ i + Len(frame.todo) <= PolicySize
      BY <1>1, Zenon DEF LiveInv, Shielded
    <2>2. Policy = "LRU" /\ WellFormed(ObjectID, order, tracked)
      BY <1>1, Zenon DEF LiveInv, Shielded, TypeInv
    <2>3. p = LRU_process_oid(order, tracked, oid)
      BY <2>2, Zenon DEF policy_prefetch
    <2>4. PolicySize \in Nat /\ Len(order) \in Nat /\ i < PolicySize
      BY <1>2, <2>1, <2>2, PolicyAssumption, Indexed, SMTT(30) DEF WellFormed, Lists
    <2>5. p.evicted = {} \/ \E v : p.evicted = {v}
      BY <1>2, PolicyAnswer, Zenon
    <2> HIDE DEF oid
    <2>6. /\ frame.oid \notin p.evicted
          /\ \E j \in 1 .. Len(p.order) : j <= i + 1 /\ p.order[j] = frame.oid
      <3> DEFINE u == LRU_process_oid(order, tracked, oid)
      <3>1. \A k \in 1 .. Len(order) : k < PolicySize =>
               /\ order[k] \notin u.evicted
               /\ \E j \in 1 .. Len(u.order) : j <= k + 1 /\ u.order[j] = order[k]
        BY <1>2, <2>2, LRUAges
      <3> HIDE DEF u, p
      <3>2. p = u
        BY <2>3, Zenon DEF u
      <3>3. /\ order[i] \notin u.evicted
            /\ \E j \in 1 .. Len(u.order) : j <= i + 1 /\ u.order[j] = order[i]
        BY <2>4, <3>1, Zenon
      <3> QED BY <2>1, <3>2, <3>3, Zenon
    <2> HIDE DEF p
    <2>7. DOMAIN r.cache = DOMAIN cache \ p.evicted
      BY <1>5, <2>5, EvictVector, Zenon
    <2>8. frame.oid \in DOMAIN r.cache
      BY <1>1, <2>6, <2>7, Zenon
    <2>9. cache'[frame.oid] = cache[frame.oid]
      BY <1>5, <2>5, <2>8, EntriesKept
    <2>10. frame'.pc = "prefetch" /\ frame'.oid = frame.oid /\ frame'.todo = Tail(frame.todo)
           /\ frame'.live
      BY <1>1, <1>5, <2>8, Zenon
    <2>11. order' = p.order
      BY <1>3, Zenon DEF Apply
    <2>12. PICK j \in 1 .. Len(p.order) : j <= i + 1 /\ p.order[j] = frame.oid
      BY <2>6, Zenon
    <2>13. j \in Int /\ j + Len(Tail(frame.todo)) <= PolicySize
      BY <1>2, <2>1, <2>4, <2>12, SMTT(30)
    <2>14. Shielded(frame'.oid, order', frame'.todo)
      BY <2>2, <2>10, <2>11, <2>12, <2>13, SMTT(30) DEF Shielded
    <2>15. cache'[frame'.oid].cached
      BY <1>1, <2>9, <2>10 DEF LiveInv
    <2> QED BY <2>10, <2>14, <2>15, Zenon DEF LiveInv
  <1> QED BY <1>3, <1>4, <1>5, Zenon

\* The other steps.
LEMMA LiveStep ==
    ASSUME ReadAheadFits
    PROVE  TypeInv /\ LiveInv /\ [Next]_vars => LiveInv'
  <1> SUFFICES ASSUME TypeInv, LiveInv, [Next]_vars PROVE LiveInv'
    BY Zenon
  <1>1. ASSUME frame'.pc \notin {"get", "prefetch"} PROVE LiveInv'
    BY <1>1, Zenon DEF LiveInv
  <1>2. ASSUME NEW oid \in ObjectID, GetCall(oid) PROVE LiveInv'
    <2> DEFINE p == policy_get(order, tracked, oid)
    <2>1. PICK r : /\ Apply(p, r)
                   /\ frame' = [pc |-> "get", oid |-> oid] \/ EvictionFails("get", oid, r)
      BY <1>2, Zenon DEF GetCall
    <2>2. CASE EvictionFails("get", oid, r)
      BY <1>1, <2>2, SMTT(30) DEF EvictionFails, Fail, Idle, Crashed
    <2>3. CASE frame' = [pc |-> "get", oid |-> oid]
      <3>1. Policy = "LRU" => Len(p.order) > 0 /\ p.order[1] = oid
        <4>1. WellFormed(ObjectID, order, tracked)
          BY Zenon DEF TypeInv
        <4> QED BY <4>1, LRUAges, PolicyAssumption DEF policy_get
      <3>2. frame'.pc = "get" /\ frame'.oid = oid
        BY <2>3, Zenon
      <3> HIDE DEF p
      <3> QED BY <2>1, <3>1, <3>2, Zenon DEF LiveInv, Apply
    <2> QED BY <2>1, <2>2, <2>3, Zenon
  <1>3. ASSUME NEW oid \in ObjectID, Prefetch(oid) PROVE LiveInv'
    BY <1>1, <1>3 DEF Prefetch, EvictionFails, Fail, Idle, Crashed
  <1>4. ASSUME NEW oid \in ObjectID, NEW v \in Values, PutCall(oid, v) PROVE LiveInv'
    BY <1>1, <1>4 DEF PutCall, EvictionFails, Fail, Idle, Crashed
  <1>5. ASSUME NEW oid \in ObjectID, RemoveCall(oid) PROVE LiveInv'
    BY <1>1, <1>5 DEF RemoveCall
  <1>6. ASSUME NEW m \in Modes, SetMode(m) PROVE LiveInv'
    BY <1>1, <1>6, Zenon DEF SetMode
  <1>7. CASE GetHit
    BY <1>7, LiveStart, Zenon DEF GetHit, policyVars
  <1>8. CASE GetPrefetched
    <2> DEFINE e == [cached |-> TRUE, dirty |-> cache[frame.oid].dirty,
                     obj |-> cache[frame.oid].future, future |-> "none"]
    <2>1. CASE cache[frame.oid].future = "NoSuchID"
      BY <1>1, <1>8, <2>1, SMTT(30) DEF GetPrefetched, Fail, Idle
    <2>2. CASE cache[frame.oid].future # "NoSuchID"
      <3>1. cache' = Bind(cache, frame.oid, e) /\ e.cached /\ StartPrefetching
        BY <1>8, <2>2, Zenon DEF GetPrefetched
      <3> HIDE DEF e
      <3>2. cache'[frame.oid].cached
        BY <3>1, Zenon DEF Bind
      <3>3. frame.pc = "get" /\ order' = order
        BY <1>8 DEF GetPrefetched, policyVars
      <3> QED BY <3>1, <3>2, <3>3, LiveStart, Zenon
    <2> QED BY <2>1, <2>2, SMTT(30)
  <1>9. CASE GetFull
    BY <1>1, <1>9 DEF GetFull, Fail, Idle
  <1>10. CASE GetMiss
    <2> DEFINE e(v) == [cached |-> TRUE, dirty |-> FALSE, obj |-> v, future |-> "none"]
    <2>1. CASE frame.oid \in DOMAIN store
      <3> DEFINE x == e(store[frame.oid])
      <3>1. cache' = Bind(cache, frame.oid, x) /\ x.cached /\ StartPrefetching
        BY <1>10, <2>1, SMTT(30) DEF GetMiss
      <3> HIDE DEF x
      <3>2. cache'[frame.oid].cached
        BY <3>1, Zenon DEF Bind
      <3>3. frame.pc = "get" /\ order' = order
        BY <1>10, Zenon DEF GetMiss, policyVars
      <3> QED BY <3>1, <3>2, <3>3, LiveStart, Zenon
    <2>2. CASE frame.oid \notin DOMAIN store
      BY <1>1, <1>10, <2>2 DEF GetMiss, Fail, Idle
    <2> QED BY <2>1, <2>2, Zenon
  <1>11. CASE PrefetchNext
    BY <1>11, LivePrefetchNext, Zenon
  <1>12. CASE GetReturn \/ PutReturn
    <2>1. frame'.pc = "idle"
      BY <1>12 DEF GetReturn, PutReturn, Idle
    <2> QED BY <1>1, <2>1, Zenon
  <1>13. CASE ServeWrite \/ UNCHANGED vars
    BY <1>13, Zenon DEF ServeWrite, vars, policyVars, LiveInv, Shielded
  <1>14. CASE ServeRead
    <2>1. order' = order /\ frame' = frame
      BY <1>14, Zenon DEF ServeRead, policyVars
    <2>2. ASSUME frame.pc = "prefetch" PROVE cache'[frame.oid].cached
      <3>1. frame.oid \in DOMAIN cache /\ cache[frame.oid].cached /\ cache[frame.oid] \in cache_entry
        BY <2>2 DEF LiveInv, TypeInv, LiveEntry, IsPartialMap, GoodEntry
      <3>2. \/ cache'[frame.oid] = cache[frame.oid]
            \/ \E a : cache'[frame.oid] = [cache[frame.oid] EXCEPT !.future = a]
        BY <1>14, <3>1, Zenon DEF ServeRead
      <3> QED BY <3>1, <3>2, Zenon DEF cache_entry
    <2> QED BY <2>1, <2>2, Zenon DEF LiveInv, Shielded
  <1> QED
    BY <1>2, <1>3, <1>4, <1>5, <1>6, <1>7, <1>8, <1>9, <1>10, <1>11, <1>12, <1>13, <1>14, Zenon
    DEF Next, Call, Continue, Serve

\* `return entry->obj' after the loop that prefetches: with the LRU policy and
\* a read-ahead shorter than the policy's list, for every mode and workload,
\* puts included, the loop never evicts the entry that get returns.
THEOREM EntryOutlivesPrefetch ==
    ASSUME ReadAheadFits
    PROVE  Spec => []ReturnsLiveEntry
  <1>1. Init => LiveInv
    BY DEF Init, LiveInv, Idle
  <1>2. LiveInv => ReturnsLiveEntry
    BY Zenon DEF LiveInv, ReturnsLiveEntry
  <1> QED BY <1>1, <1>2, LiveStep, TypeInit, TypeStep, PTL DEF Spec

-----------------------------------------------------------------------------
(* The cache is a map.                                                     *)

\* Every step keeps the cache in agreement with what lies below it.
LEMMA FreshStep ==
    ASSUME StoreFits, CarefulPuts
    PROVE  TypeInv /\ FreshInv /\ [Next]_vars => FreshInv'
  <1> SUFFICES ASSUME TypeInv, FreshInv, [Next]_vars PROVE FreshInv'
    BY Zenon
  <1>1. CASE Call
    <2>1. ASSUME NEW m \in Modes, SetMode(m) PROVE FreshInv'
      BY <2>1, FreshIdle, Zenon DEF SetMode
    <2> QED BY <1>1, <2>1, FreshAnnounce, FreshPut, FreshRemove, Zenon DEF Call
  <1>2. CASE Continue
    BY <1>2, FreshGet, FreshPrefetchNext, FreshPutReturn DEF Continue
  <1>3. CASE Serve
    BY <1>3, FreshServeWrite, FreshServeRead, Zenon DEF Serve
  <1>4. CASE UNCHANGED vars
    BY <1>4, Zenon DEF vars, FreshInv, Putting
  <1> QED BY <1>1, <1>2, <1>3, <1>4, Zenon DEF Next

\* A new cache has nothing to disagree with.
LEMMA FreshInit == Init => FreshInv
  <1> SUFFICES ASSUME Init PROVE FreshInv
    BY Zenon
  <1>1. frame.pc = "idle" /\ net = <<>> /\ DOMAIN cache = {}
    BY DEF Init, Idle
  <1> QED BY <1>1, EmptyQueue, Zenon DEF FreshInv, Sound

\* In a cached entry that the store agrees with, get finds the user's object.
LEMMA CachedIsFresh ==
    ASSUME TypeInv, Sound(cache, net, store, {}), NEW oid \in DOMAIN cache, cache[oid].cached
    PROVE  /\ oid \in ObjectID
           /\ oid \in DOMAIN Contents => Contents[oid] = cache[oid].obj
           /\ oid \notin DOMAIN Contents => cache[oid].obj = Default
  <1>1. oid \in ObjectID /\ net \in Seq(Requests)
    BY Zenon DEF TypeInv, IsPartialMap
  <1>2. /\ \A v : Gives(cache, net, store, oid, v) => oid \in DOMAIN Contents /\ Contents[oid] = v
        /\ oid \in DOMAIN Contents => Gives(cache, net, store, oid, Contents[oid])
    <2>1. QueueSound(net)
      BY Zenon DEF Sound
    <2> QED BY <1>1, <2>1, ContentsGives, ContentsIs, Zenon
  <1>3. EntrySound(cache[oid], net, store, oid, {})
    BY Zenon DEF Sound
  <1>4. CASE Gives(cache, net, store, oid, cache[oid].obj)
    BY <1>1, <1>2, <1>4, SMTT(30)
  <1>5. CASE ~Gives(cache, net, store, oid, cache[oid].obj)
    <2>1. ~cache[oid].dirty /\ Absent(net, store, oid) /\ cache[oid].obj = Default
      BY <1>3, <1>5, Zenon DEF EntrySound, Gives, Dirty
    <2>2. \A v : ~Below(net, store, oid, v)
      BY <2>1, Zenon DEF Absent, Below, LastWrite
    <2> QED BY <1>1, <1>2, <2>1, <2>2, SMTT(30) DEF Gives, Dirty
  <1> QED BY <1>4, <1>5, Zenon

\* An id that is absent below and not dirty is not in the map.
LEMMA AbsentGivesNothing ==
    ASSUME TypeInv, FreshInv, NEW o \in ObjectID, ~Dirty(cache, o), Absent(net, store, o)
    PROVE  o \notin DOMAIN Contents
  <1>1. Contents = ContentsOf(cache, net, store)
    BY ContentsIs, Zenon
  <1> QED BY <1>1, Zenon DEF ContentsOf, Absent

\* A get that throws NoSuchID found nothing of the id anywhere.
LEMMA NothingStored ==
    ASSUME TypeInv, FreshInv, GetPrefetched \/ GetMiss, ~StartPrefetching
    PROVE  Fail("get", frame.oid, "NoSuchID") /\ frame.oid \in ObjectID /\ frame.oid \notin DOMAIN Contents
  <1>1. frame.pc = "get"
    BY Zenon DEF GetPrefetched, GetMiss
  <1>2. frame.oid \in ObjectID /\ Sound(cache, net, store, {})
    BY <1>1, FrameTypes, Zenon DEF FreshInv, Putting
  <1>3. CASE GetPrefetched
    <2>1. /\ frame.oid \in DOMAIN cache /\ ~cache[frame.oid].cached
          /\ cache[frame.oid].future = "NoSuchID"
          /\ Fail("get", frame.oid, "NoSuchID")
      BY <1>3, Zenon DEF GetPrefetched
    <2>2. EntrySound(cache[frame.oid], net, store, frame.oid, {})
      BY <1>2, <2>1, Zenon DEF Sound
    <2>3. ~Dirty(cache, frame.oid) /\ Absent(net, store, frame.oid)
      BY <2>1, <2>2, SMTT(30) DEF EntrySound, Dirty
    <2> QED BY <1>2, <2>1, <2>3, AbsentGivesNothing, SMTT(30)
  <1>4. CASE GetMiss
    <2>1. /\ frame.oid \notin DOMAIN cache /\ net = <<>> /\ frame.oid \notin DOMAIN store
          /\ Fail("get", frame.oid, "NoSuchID")
      BY <1>4, Zenon DEF GetMiss
    <2>2. ~Dirty(cache, frame.oid) /\ Absent(net, store, frame.oid)
      BY <2>1, EmptyQueue DEF Dirty, Absent
    <2> QED BY <1>2, <2>1, <2>2, AbsentGivesNothing, Zenon
  <1> QED BY <1>3, <1>4

\* A get that is over has come to its return statement, has failed for want of
\* room or range, or has thrown NoSuchID and nothing was stored.
LEMMA GetEnding ==
    ASSUME TypeInv, FreshInv, [Next]_vars, frame.pc \in {"get", "prefetch"}, frame' = Idle
    PROVE  \/ GetReturn
           \/ ret'.out \in {"CacheCapacity", "EvictError", "OutOfRange"}
           \/ ret'.out = "NoSuchID" /\ frame.oid \notin DOMAIN Contents
  <1>1. frame # Idle
    BY DEF Idle
  <1>2. ASSUME StartPrefetching PROVE ret'.out = "OutOfRange"
    <2>1. frame'.pc # "prefetch"
      BY Zenon DEF Idle
    <2>2. Fail("get", frame.oid, "OutOfRange")
      BY <1>2, <2>1 DEF StartPrefetching
    <2> QED BY <2>2, Zenon DEF Fail, Ended
  <1>3. CASE GetHit
    BY <1>2, <1>3, Zenon DEF GetHit
  <1>4. CASE GetPrefetched
    BY <1>2, <1>4, NothingStored, SMTT(30) DEF Fail, Ended
  <1>5. CASE GetFull
    BY <1>5, Zenon DEF GetFull, Fail, Ended
  <1>6. CASE GetMiss
    BY <1>2, <1>6, NothingStored, SMTT(30) DEF Fail, Ended
  <1>7. CASE PrefetchNext
    <2> DEFINE oid == Head(frame.todo)
               p == policy_prefetch(order, tracked, oid)
    <2>1. PICK r \in evict_vector(p.evicted) :
             frame'.pc = "prefetch" \/ EvictionFails("get", frame.oid, r)
      BY <1>7 DEF PrefetchNext
    <2>2. oid \in ObjectID
      BY <1>7, HeadIsId, Zenon
    <2> HIDE DEF oid
    <2>3. p.evicted = {} \/ \E v : p.evicted = {v}
      BY <2>2, PolicyAnswer, Zenon
    <2> HIDE DEF p
    <2>4. r.status \in {"ok", "crash", "EvictError"}
      BY <2>3, EvictVector, Zenon
    <2> QED BY <2>1, <2>4, SMTT(30) DEF EvictionFails, Fail, Ended, Idle, Crashed
  <1>8. CASE PutReturn \/ Call
    BY <1>8, Zenon DEF PutReturn, Call, GetCall, Prefetch, RemoveCall, PutCall, SetMode
  <1>9. CASE Serve \/ UNCHANGED vars
    BY <1>1, <1>9, SMTT(30) DEF Serve, ServeWrite, ServeRead, vars
  <1> QED BY <1>3, <1>4, <1>5, <1>6, <1>7, <1>8, <1>9, SMTT(30) DEF Next, Continue

\* What get returns.
LEMMA ReturnIsFresh ==
    ASSUME TypeInv, FreshInv, LiveInv, GetReturn
    PROVE  /\ frame.oid \in ObjectID
           /\ ret' = Ended("get", frame.oid, cache[frame.oid].obj)
           /\ frame.oid \in DOMAIN Contents => Contents[frame.oid] = cache[frame.oid].obj
           /\ frame.oid \notin DOMAIN Contents => cache[frame.oid].obj = Default
  <1>1. frame.pc = "prefetch" /\ frame.live /\ cache[frame.oid].cached /\ frame.oid \in DOMAIN cache
    BY Zenon DEF GetReturn, LiveInv, TypeInv, LiveEntry
  <1>2. Sound(cache, net, store, {})
    BY <1>1, Zenon DEF FreshInv, Putting
  <1>3. ret' = Ended("get", frame.oid, cache[frame.oid].obj)
    BY <1>1, Zenon DEF GetReturn
  <1> QED BY <1>1, <1>2, <1>3, CachedIsFresh, Zenon

\* Steps that the user of the map does not see, or that only end a call.
LEMMA SameContents ==
    ASSUME TypeInv, TypeInv', FreshInv, FreshInv', Untouched
    PROVE  Contents' = Contents
  <1> DEFINE d == cache'
             m == net'
             t == store'
  <1>1. /\ net \in Seq(Requests) /\ m \in Seq(Requests)
        /\ QueueSound(net) /\ QueueSound(m)
    BY Zenon DEF TypeInv, FreshInv, Sound
  <1>2. GivesAlike({}, cache, net, store, d, m, t)
    BY Zenon DEF Untouched, GivesAlike
  <1>3. Contents = ContentsOf(cache, net, store) /\ Contents' = ContentsOf(d, m, t)
    BY ContentsIs
  <1> HIDE DEF d, m, t
  <1>4. ContentsOf(d, m, t) = ContentsOf(cache, net, store)
    <2>1. ContentsFollow({}, cache, net, store, d, m, t)
      BY <1>1, <1>2, ContentsStep, Zenon
    <2> QED BY <2>1, Zenon DEF ContentsFollow
  <1> QED BY <1>3, <1>4, Zenon

\* put and remove as the user sees them.
LEMMA ChangedContents ==
    ASSUME TypeInv, TypeInv', FreshInv, FreshInv', NEW oid \in ObjectID,
           GivesAlike({oid}, cache, net, store, cache', net', store')
    PROVE  /\ \A v : GivesOnly(cache', net', store', oid, v) => Contents' = Bind(Contents, oid, v)
           /\ GivesNothing(cache', net', store', oid) => Contents' = Erase(Contents, oid)
  <1> DEFINE d == cache'
             m == net'
             t == store'
  <1>1. /\ net \in Seq(Requests) /\ m \in Seq(Requests)
        /\ QueueSound(net) /\ QueueSound(m) /\ {oid} \in SUBSET ObjectID
    BY Zenon DEF TypeInv, FreshInv, Sound
  <1>2. GivesAlike({oid}, cache, net, store, d, m, t)
    BY Zenon
  <1>3. Contents = ContentsOf(cache, net, store) /\ Contents' = ContentsOf(d, m, t)
    BY ContentsIs
  <1>4. ASSUME NEW v, GivesOnly(d, m, t, oid, v)
        PROVE  Contents' = Bind(Contents, oid, v)
    <2> HIDE DEF d, m, t
    <2>1. ContentsOf(d, m, t) = Bind(ContentsOf(cache, net, store), oid, v)
      <3>1. ContentsFollow({oid}, cache, net, store, d, m, t)
        BY <1>1, <1>2, ContentsStep
      <3> QED BY <1>4, <3>1, Zenon DEF ContentsFollow
    <2> QED BY <1>3, <2>1, Zenon
  <1>5. ASSUME GivesNothing(d, m, t, oid)
        PROVE  Contents' = Erase(Contents, oid)
    <2> HIDE DEF d, m, t
    <2>1. ContentsOf(d, m, t) = Erase(ContentsOf(cache, net, store), oid)
      <3>1. ContentsFollow({oid}, cache, net, store, d, m, t)
        BY <1>1, <1>2, ContentsStep
      <3> QED BY <1>5, <3>1, Zenon DEF ContentsFollow
    <2> QED BY <1>3, <2>1, Zenon
  <1> QED BY <1>4, <1>5, Zenon

-----------------------------------------------------------------------------
(* What the user has put and not removed is what the cache, the connection *)
(* and the store hold together.                                            *)

\* Every step that keeps the agreement below the cache leaves the user, in the
\* cache, the connection and the store together, what they have put.
LEMMA GivenStep ==
    ASSUME StoreFits, CarefulPuts, TypeInv, TypeInv', FreshInv, FreshInv', [Next]_vars,
           given = Contents
    PROVE  given' = Contents'
  <1>1. ASSUME Untouched, given' = given PROVE given' = Contents'
    BY <1>1, SameContents, Zenon
  <1>2. ASSUME NEW oid \in ObjectID, NEW v \in Values, PutCall(oid, v) PROVE given' = Contents'
    <2>1. CASE Untouched /\ given' = given
      BY <1>1, <2>1, Zenon
    <2>2. CASE GivesOnly(cache', net', store', oid, v) /\ given' = Bind(given, oid, v)
      <3>1. GivesAlike({oid}, cache, net, store, cache', net', store')
        BY <1>2, FreshPut, SMTT(30) DEF GivesAlike
      <3>2. Contents' = Bind(Contents, oid, v)
        BY <2>2, <3>1, ChangedContents, SMTT(30)
      <3> QED BY <2>2, <3>2, Zenon
    <2> QED BY <1>2, <2>1, <2>2, FreshPut, Zenon DEF GivesOnly
  <1>3. ASSUME NEW oid \in ObjectID, RemoveCall(oid) PROVE given' = Contents'
    <2>1. /\ GivesAlike({oid}, cache, net, store, cache', net', store')
          /\ GivesNothing(cache', net', store', oid)
      BY <1>3, FreshRemove DEF GivesAlike, GivesNothing
    <2>2. Contents' = Erase(Contents, oid)
      BY <2>1, ChangedContents, Zenon
    <2>3. given' = Erase(given, oid)
      BY <1>3, Zenon DEF RemoveCall
    <2> QED BY <2>2, <2>3, Zenon
  <1>4. ASSUME NEW oid \in ObjectID, GetCall(oid) \/ Prefetch(oid) PROVE given' = Contents'
    BY <1>1, <1>4, QuietStep, FreshAnnounce, Zenon
  <1>5. ASSUME NEW m \in Modes, SetMode(m) PROVE given' = Contents'
    <2>1. Untouched
      BY <1>5, FreshIdle, Zenon DEF SetMode
    <2>2. given' = given
      BY <1>5 DEF SetMode
    <2> QED BY <1>1, <2>1, <2>2
  <1>6. CASE GetHit \/ GetPrefetched \/ GetFull \/ GetMiss \/ GetReturn
    BY <1>1, <1>6, QuietStep, FreshGet, Zenon
  <1>7. CASE PrefetchNext
    BY <1>1, <1>7, QuietStep, FreshPrefetchNext, Zenon
  <1>8. CASE PutReturn
    <2>1. given' = given
      BY <1>8, Zenon DEF PutReturn
    <2> QED BY <1>1, <1>8, <2>1, FreshPutReturn, Zenon
  <1>9. CASE Serve
    <2>1. Untouched
      BY <1>9, FreshServeWrite, FreshServeRead DEF Serve
    <2>2. given' = given
      BY <1>9, Zenon DEF Serve, ServeWrite, ServeRead
    <2> QED BY <1>1, <2>1, <2>2, Zenon
  <1>10. CASE UNCHANGED vars
    <2>1. Untouched
      BY <1>10, Zenon DEF vars, Untouched
    <2>2. given' = given
      BY <1>10 DEF vars
    <2> QED BY <1>1, <2>1, <2>2, Zenon
  <1>11. ASSUME Call PROVE given' = Contents'
    BY <1>2, <1>3, <1>4, <1>5, <1>11, Zenon DEF Call
  <1>12. ASSUME Continue PROVE given' = Contents'
    BY <1>6, <1>7, <1>8, <1>12, Zenon DEF Continue
  <1> QED BY <1>9, <1>10, <1>11, <1>12, Zenon DEF Next

\* At the start the store holds all there is.
LEMMA GivenInit == Init => given = Contents
  <1> SUFFICES ASSUME Init PROVE given = Contents
    BY Zenon
  <1>1. PICK S \in SUBSET ObjectID : store \in [S -> Values]
    BY Zenon DEF Init
  <1>2. \A o : ~Dirty(cache, o)
    BY DEF Init, Dirty
  <1>3. \A o : Writes(net, o) = {}
    <2>1. net = <<>>
      BY Zenon DEF Init
    <2>2. \A i : i \notin DOMAIN net
      BY <2>1, EmptyQueue, Zenon
    <2> QED BY <2>2, Zenon DEF Writes
  <1>4. Contents = ContentsOf(cache, net, store)
    BY ContentsIs, Zenon
  <1>5. Contents = [o \in S |-> store[o]]
    BY <1>1, <1>2, <1>3, <1>4, SMTT(30) DEF ContentsOf
  <1>6. given = store /\ store = [o \in S |-> store[o]]
    BY <1>1 DEF Init
  <1> QED BY <1>5, <1>6, Zenon

\* get returns the object last put, wherever it is at that moment (in the
\* cache, written back and on its way, in the store, or being prefetched),
\* also after calls that failed half way, with either policy and with
\* synchronous or deferred writes, and it throws NoSuchID only for an id that
\* was not put or has been removed since.
THEOREM GetReturnsLastPut ==
    ASSUME StoreFits, CarefulPuts, ReadAheadFits
    PROVE  Spec => GetsAreFresh
  <1> DEFINE Agree == given = Contents
  <1>1. TypeInv /\ FreshInv /\ LiveInv /\ Agree /\ [Next]_vars =>
           [\A oid \in ObjectID :
               GetEnds(oid) => ret'.out \in Owed(oid) \cup {"CacheCapacity", "EvictError", "OutOfRange"}]_vars
    <2> SUFFICES ASSUME TypeInv, FreshInv, LiveInv, Agree, [Next]_vars, NEW oid \in ObjectID,
                        GetEnds(oid)
                 PROVE  ret'.out \in Owed(oid) \cup {"CacheCapacity", "EvictError", "OutOfRange"}
      BY Zenon
    <2>1. frame.pc \in {"get", "prefetch"} /\ frame.oid = oid /\ frame' = Idle
      BY Zenon DEF GetEnds
    <2>2. CASE GetReturn
      BY <2>1, <2>2, ReturnIsFresh, SMTT(30) DEF Ended, Owed
    <2>3. CASE ret'.out = "NoSuchID" /\ frame.oid \notin DOMAIN Contents
      BY <2>1, <2>3, Zenon DEF Owed
    <2> QED BY <2>1, <2>2, <2>3, GetEnding, Zenon
  <1>2. Init => LiveInv
    BY DEF Init, LiveInv, Idle
  <1>3. TypeInv /\ TypeInv' /\ FreshInv /\ FreshInv' /\ Agree /\ [Next]_vars => Agree'
    BY GivenStep, Zenon
  <1>4. Init => Agree
    BY GivenInit, Zenon
  <1> HIDE DEF Agree
  <1> QED BY <1>1, <1>2, <1>3, <1>4, FreshInit, FreshStep, LiveStep, TypeInit, TypeStep, PTL DEF Spec, GetsAreFresh

\* The hypotheses of the refinement: ordered prefetching is told the range of
\* all ids.
RangeCovers == \A m \in Modes : m.kind = "kOrdered" => ObjectID \subseteq m.first .. m.last

\* The map's actions, on what the user has put.
Steps ==
    \/ given' = given /\ ret' = ret /\ Putting' = Putting
    \/ \E oid \in ObjectID : /\ given' = given
                             /\ Putting = {oid} /\ Putting' = {}
                             /\ ret' = Ended("put", oid, "ok")
    \/ \E oid \in ObjectID : /\ given' = given
                             /\ Putting = {} /\ Putting' = {}
                             /\ ret' = Ended("prefetch", oid, "ok")
    \/ \E oid \in ObjectID : \E v :
          /\ given' = given
          /\ Putting = {} /\ Putting' = {}
          /\ ret' = Ended("get", oid, v)
          /\ IF oid \in DOMAIN given THEN v = given[oid] ELSE v \in {"NoSuchID", Default}
    \/ \E oid \in ObjectID, v \in Values :
          /\ given' = Bind(given, oid, v)
          /\ Putting = {}
          /\ \/ ret' = Ended("put", oid, "ok") /\ Putting' = {}
             \/ ret' = ret /\ Putting' = {oid}
    \/ \E oid \in ObjectID : /\ given' = Erase(given, oid)
                             /\ Putting = {} /\ Putting' = {}
                             /\ ret' = Ended("remove", oid, "ok")

\* get up to its prefetching loop: it ends only where nothing is stored.
LEMMA GetMaps ==
    ASSUME RangeCovers, TypeInv, FreshInv, AgreeInv', given = Contents,
           GetHit \/ GetPrefetched \/ GetFull \/ GetMiss
    PROVE  Steps
  <1>1. given' = given /\ Putting = {} /\ Putting' = {}
    BY QuietStep, Zenon
  <1>2. frame.oid \in ObjectID
    <2>1. frame.pc = "get"
      BY DEF GetHit, GetPrefetched, GetFull, GetMiss
    <2> QED BY <2>1, FrameTypes, Zenon
  <1>3. ASSUME StartPrefetching PROVE ret' = ret
    <2>1. mode.kind = "kOrdered" => frame.oid \in mode.first .. mode.last
      BY <1>2, SMTT(30) DEF RangeCovers, TypeInv
    <2> QED BY <1>3, <2>1, Zenon DEF StartPrefetching
  <1>4. ~GetFull
    BY DEF GetFull, AgreeInv, NoSpuriousFailure, Fail, Ended
  <1>5. CASE StartPrefetching
    BY <1>1, <1>3, <1>5, Zenon DEF Steps
  <1>6. CASE (GetPrefetched \/ GetMiss) /\ ~StartPrefetching
    <2>1. ret' = Ended("get", frame.oid, "NoSuchID") /\ frame.oid \notin DOMAIN given
      BY <1>6, NothingStored, Zenon DEF Fail
    <2> QED BY <1>1, <1>2, <2>1, SMTT(30) DEF Steps
  <1> QED BY <1>4, <1>5, <1>6, Zenon DEF GetHit

\* The calls: their announcement to the policy never fails.
LEMMA CallMaps ==
    ASSUME CarefulPuts, TypeInv, FreshInv, AgreeInv', Call
    PROVE  Steps
  <1>1. ret'.out \notin {"CacheCapacity", "EvictError"}
    BY Zenon DEF AgreeInv, NoSpuriousFailure
  <1>2. ASSUME NEW op, NEW oid \in ObjectID, NEW p, NEW r \in evict_vector(p.evicted),
               EvictionFails(op, oid, r), p.evicted = {} \/ \E v : p.evicted = {v}
        PROVE  ret' = ret
    <2>1. r.status \in {"ok", "crash", "EvictError"}
      BY <1>2, EvictVector, SMTT(30)
    <2> QED BY <1>1, <1>2, <2>1, SMTT(30) DEF EvictionFails, Fail, Ended
  <1>3. ASSUME NEW oid \in ObjectID, GetCall(oid) PROVE Steps
    <2> DEFINE p == policy_get(order, tracked, oid)
    <2>1. PICK r \in evict_vector(p.evicted) : UNCHANGED ret \/ EvictionFails("get", oid, r)
      BY <1>3, Zenon DEF GetCall
    <2>2. p.evicted = {} \/ \E v : p.evicted = {v}
      BY PolicyAnswer
    <2> HIDE DEF p
    <2>3. ret' = ret
      BY <1>2, <2>1, <2>2, Zenon
    <2> QED BY <1>3, <2>3, QuietStep, Zenon DEF Steps
  <1>4. ASSUME NEW oid \in ObjectID, Prefetch(oid) PROVE Steps
    <2> DEFINE p == policy_prefetch(order, tracked, oid)
    <2>1. PICK r \in evict_vector(p.evicted) :
             ret' = Ended("prefetch", oid, "ok") \/ EvictionFails("prefetch", oid, r)
      BY <1>4, SMTT(30) DEF Prefetch
    <2>2. p.evicted = {} \/ \E v : p.evicted = {v}
      BY PolicyAnswer, Zenon
    <2> HIDE DEF p
    <2>3. ret' \in {ret, Ended("prefetch", oid, "ok")}
      BY <1>2, <2>1, <2>2, Zenon
    <2>4. given' = given /\ Putting = {} /\ Putting' = {}
      BY <1>4, QuietStep, Zenon
    <2> QED BY <2>3, <2>4, Zenon DEF Steps
  <1>5. ASSUME NEW oid \in ObjectID, RemoveCall(oid) PROVE Steps
    <2>1. /\ given' = Erase(given, oid)
          /\ frame.pc = "idle" /\ frame' = frame
          /\ ret' = Ended("remove", oid, "ok")
      BY <1>5, Zenon DEF RemoveCall
    <2>2. Putting = {} /\ Putting' = {}
      BY <2>1 DEF Putting
    <2> QED BY <2>1, <2>2, Zenon DEF Steps
  <1>6. ASSUME NEW oid \in ObjectID, NEW v \in Values, PutCall(oid, v) PROVE Steps
    <2>1. /\ Putting = {}
          /\ \/ given' = given /\ Putting' = {} /\ ret' = ret
             \/ /\ given' = Bind(given, oid, v)
                /\ \/ ret' = Ended("put", oid, "ok") /\ Putting' = {}
                   \/ ret' = ret /\ Putting' = {oid}
      BY <1>1, <1>6, FreshPut, Zenon
    <2> QED BY <2>1, Zenon DEF Steps
  <1>7. ASSUME NEW m \in Modes, SetMode(m) PROVE Steps
    <2>1. given' = given /\ Putting = {} /\ Putting' = {}
      BY <1>7, QuietStep, Zenon
    <2>2. ret' = ret
      BY <1>7, Zenon DEF SetMode
    <2> QED BY <2>1, <2>2, Zenon DEF Steps
  <1> QED BY <1>3, <1>4, <1>5, <1>6, <1>7, SMTT(30) DEF Call

\* Every step of the cache is a step of the map, or none.
LEMMA StepMaps ==
    ASSUME StoreFits, CarefulPuts, RangeCovers, TypeInv, FreshInv, LiveInv, AgreeInv',
           given = Contents, [Next]_vars
    PROVE  Steps
  <1>1. CASE Call
    BY <1>1, CallMaps, Zenon
  <1>2. CASE GetHit \/ GetPrefetched \/ GetFull \/ GetMiss
    BY <1>2, GetMaps, Zenon
  <1>3. CASE PrefetchNext
    <2> DEFINE oid == Head(frame.todo)
               p == policy_prefetch(order, tracked, oid)
    <2>1. PICK r \in evict_vector(p.evicted) :
             UNCHANGED ret \/ EvictionFails("get", frame.oid, r)
      BY <1>3, Zenon DEF PrefetchNext
    <2>2. oid \in ObjectID
      BY <1>3, HeadIsId, Zenon
    <2> HIDE DEF oid
    <2>3. p.evicted = {} \/ \E v : p.evicted = {v}
      BY <2>2, PolicyAnswer, SMTT(30)
    <2> HIDE DEF p
    <2>4. r.status \in {"ok", "crash", "EvictError"}
      BY <2>3, EvictVector, Zenon
    <2>5. ret' = ret
      BY <2>1, <2>4, SMTT(30) DEF EvictionFails, Fail, Ended, AgreeInv, NoSpuriousFailure
    <2> QED BY <1>3, <2>5, QuietStep, Zenon DEF Steps
  <1>4. CASE GetReturn
    <2>1. given' = given /\ Putting = {} /\ Putting' = {}
      BY <1>4, QuietStep, Zenon
    <2> DEFINE v == cache[frame.oid].obj
    <2>2. /\ frame.oid \in ObjectID /\ ret' = Ended("get", frame.oid, v)
          /\ frame.oid \in DOMAIN given => given[frame.oid] = v
          /\ frame.oid \notin DOMAIN given => v = Default
      BY <1>4, ReturnIsFresh, SMTT(30)
    <2> HIDE DEF v
    <2> QED BY <2>1, <2>2, Zenon DEF Steps
  <1>5. CASE PutReturn
    <2>1. given' = given /\ frame.pc = "put" /\ frame' = Idle
      BY <1>5, Zenon DEF PutReturn
    <2>2. Putting = {frame.oid} /\ Putting' = {}
      BY <2>1 DEF Putting, Idle
    <2>3. ret' = Ended("put", frame.oid, "ok") /\ frame.oid \in ObjectID
      BY <1>5, FreshPutReturn, Zenon
    <2> QED BY <2>1, <2>2, <2>3, Zenon DEF Steps
  <1>6. CASE Serve
    <2>1. given' = given /\ ret' = ret /\ frame' = frame
      BY <1>6, Zenon DEF Serve, ServeWrite, ServeRead
    <2> QED BY <2>1, Zenon DEF Steps, Putting
  <1>7. CASE UNCHANGED vars
    BY <1>7 DEF vars, Steps, Putting
  <1> QED BY <1>1, <1>2, <1>3, <1>4, <1>5, <1>6, <1>7, SMTT(30) DEF Next, Continue

\* These are the map's steps.
LEMMA StepsAreMap ==
    ASSUME Steps
    PROVE  [User!Next]_(User!vars)
  <1> USE DEF Ended
  <1>1. CASE given' = given /\ ret' = ret /\ Putting' = Putting
    BY <1>1 DEF User!vars, Putting
  <1>2. ASSUME NEW oid \in ObjectID, given' = given, Putting = {oid}, Putting' = {},
               ret' = Ended("put", oid, "ok")
        PROVE  User!Next
    <2>1. User!PutReturns(oid)
      BY <1>2, Zenon DEF User!PutReturns, User!Done, Putting
    <2> QED BY <2>1, Zenon DEF User!Next
  <1>3. ASSUME NEW oid \in ObjectID, given' = given, Putting = {}, Putting' = {},
               ret' = Ended("prefetch", oid, "ok")
        PROVE  User!Next
    <2>1. User!Prefetch(oid)
      BY <1>3, Zenon DEF User!Prefetch, User!Done, Putting
    <2> QED BY <2>1 DEF User!Next
  <1>4. ASSUME NEW oid \in ObjectID, NEW v, given' = given, Putting = {}, Putting' = {},
               ret' = Ended("get", oid, v),
               IF oid \in DOMAIN given THEN v = given[oid] ELSE v \in {"NoSuchID", Default}
        PROVE  User!Next
    <2>1. User!Get(oid)
      BY <1>4 DEF User!Get, Putting
    <2> QED BY <2>1, Zenon DEF User!Next
  <1>5. ASSUME NEW oid \in ObjectID, NEW v \in Values, given' = Bind(given, oid, v), Putting = {},
               \/ ret' = Ended("put", oid, "ok") /\ Putting' = {}
               \/ ret' = ret /\ Putting' = {oid}
        PROVE  User!Next
    <2>1. User!Put(oid, v)
      BY <1>5, Zenon DEF User!Put, User!Done, Bind, Putting
    <2> QED BY <2>1, Zenon DEF User!Next
  <1>6. ASSUME NEW oid \in ObjectID, given' = Erase(given, oid), Putting = {}, Putting' = {},
               ret' = Ended("remove", oid, "ok")
        PROVE  User!Next
    <2>1. User!Remove(oid)
      BY <1>6, SMTT(30) DEF User!Remove, User!Done, Erase, Putting
    <2> QED BY <2>1 DEF User!Next
  <1> QED BY <1>1, <1>2, <1>3, <1>4, <1>5, <1>6, Zenon DEF Steps

\* The map starts with what the store holds.
LEMMA InitMaps == Init => User!Init
  <1> SUFFICES ASSUME Init PROVE User!Init
    BY Zenon
  <1>1. PICK S \in SUBSET ObjectID : store \in [S -> Values]
    BY Zenon DEF Init
  <1>2. given \in User!Maps
    BY <1>1 DEF Init, User!Maps
  <1>3. frame.pc # "put"
    BY DEF Init, Idle
  <1> QED BY <1>2, <1>3, Zenon DEF Init, User!Init, Ended

\* The cache implements the map of its user: through hits, misses, prefetches,
\* evictions with synchronous or deferred writes, removals and the writes and
\* reads in flight, get returns what was last put, a removed id is gone, and
\* the only call that fails is a get of an absent id.  Each hypothesis excludes
\* one of the code's ways to break the promise: a policy that forgets or
\* evicts too late (PolicySuits), a full remote pool, a put over a prefetch
\* that is under way, a read-ahead that evicts the entry get returns, and a get
\* outside the range of ordered prefetching.
THEOREM CacheImplementsMap ==
    ASSUME PolicySuits, StoreFits, CarefulPuts, ReadAheadFits, RangeCovers
    PROVE  Spec => ImplementsMap
  <1>1. Init => LiveInv
    BY SMTT(30) DEF Init, LiveInv, Idle
  <1>2. Init => AgreeInv
    BY DEF Init, AgreeInv, PolicyTracksCache, Announced, NoSpuriousFailure, Idle, Ended
  <1>3. TypeInv /\ FreshInv /\ LiveInv /\ AgreeInv' /\ given = Contents /\ [Next]_vars
        => [User!Next]_(User!vars)
    BY StepMaps, StepsAreMap, Zenon
  <1>4. /\ TypeInv /\ TypeInv' /\ FreshInv /\ FreshInv' /\ given = Contents /\ [Next]_vars
        => (given = Contents)'
    BY GivenStep, Zenon
  <1> QED BY <1>1, <1>2, <1>3, <1>4, InitMaps, GivenInit, FreshInit, FreshStep, LiveStep, AgreeStep,
             TypeInit, TypeStep, PTL
          DEF Spec, ImplementsMap, User!Spec
=============================================================================
