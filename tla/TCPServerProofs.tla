--------------------------- MODULE TCPServerProofs ---------------------------
(***************************************************************************)
(* TCPServer's byte counter and its table of descriptors, for every number *)
(* of clients, ids and slots, every request, every way a client can fail   *)
(* and every moment at which the server can stop.                          *)
(*                                                                         *)
(* The code discounts the old object before it asks whether the new one    *)
(* fits, and a rejected overwrite by a larger object loses those bytes to  *)
(* the counter, as a restart of a storage server loses all of them.  That  *)
(* is the only drift there is; without it, as when an id keeps the size of *)
(* its object, the counter is the number of bytes in the pool.             *)
(***************************************************************************)
EXTENDS TCPServer, FiniteSetTheorems, WellFoundedInduction, TLAPS

-----------------------------------------------------------------------------
(* The accounting.                                                         *)

\* A client may ask for obj to be stored under oid.
Written(oid, obj) ==
    \E m \in Requests :
        \/ m.op = "Write" /\ m.oid = oid /\ m.data = obj
        \/ m.op = "WriteBulk" /\ \E i \in DOMAIN m.units : m.units[i] = <<oid, obj>>

\* Whatever is written under an id has one size.
SizesKept ==
    \A oid \in ObjectIDs : \A x, y \in Objects :
        Written(oid, x) /\ Written(oid, y) => Size[x] = Size[y]

\* What the accounting needs to know of the rest of the state.
GoodUnits(s) ==
    /\ s \in Seq(ObjectIDs \X Objects)
    /\ \A i \in DOMAIN s : Written(s[i][1], s[i][2])

PoolTypes ==
    /\ IsFiniteSet(DOMAIN mem)
    /\ \A o \in DOMAIN mem : mem[o] \in Objects /\ o \in ObjectIDs /\ Written(o, mem[o])
    /\ inbox \in [Clients -> Seq(Requests \cup {Torn})]
    /\ GoodUnits(job.todo)

\* The bytes of the objects that f has under the ids of S.
Held(f, S) == UNION {{o} \X (1 .. Size[f[o]]) : o \in S}

Accounts == /\ curr_size = Cardinality(Held(mem, DOMAIN mem))
            /\ curr_size <= pool_size

\* No write is rejected for its size only, and no restart leaves data behind.
Steady == SizesKept /\ (Backend = "Memory" \/ ~Restarts)

\* The counter and what it has lost are words that add up to the bytes held.
Drift == /\ curr_size \in 0 .. WordSize - 1
         /\ lost \in 0 .. WordSize - 1
         /\ (curr_size + lost) % WordSize = Cardinality(Held(mem, DOMAIN mem)) % WordSize

PoolInv == PoolTypes /\ Drift /\ (Steady => Accounts)

\* No unsigned operation on the counter wraps as long as its result is in range.
LEMMA InRange ==
    ASSUME NEW a \in Nat, NEW w \in Nat, a < w
    PROVE  a % w = a
  OBVIOUS

\* Division with remainder.
LEMMA Divides ==
    ASSUME NEW w \in Nat, w > 0, NEW a \in Int
    PROVE  a = w * (a \div w) + (a % w) /\ a \div w \in Int
  OBVIOUS

\* Words that differ by a multiple of the word size are the same.
LEMMA SameWord ==
    ASSUME NEW w \in Nat, NEW r \in 0 .. w - 1, NEW s \in 0 .. w - 1, NEW k \in Int,
           r = s + w * k
    PROVE  r = s
  <1>1. CASE k = 0
    BY <1>1
  <1>2. CASE k > 0
    <2>1. w * k >= w
      BY <1>2
    <2> QED BY <2>1
  <1>3. CASE k < 0
    <2>1. w * (-k) >= w
      BY <1>3
    <2>2. w * k = -(w * (-k))
      OBVIOUS
    <2> QED BY <2>1, <2>2
  <1> QED BY <1>1, <1>2, <1>3

\* Unsigned arithmetic may reduce to a word at any point.
LEMMA WordPlus ==
    ASSUME NEW w \in Nat, w > 0, NEW a \in Int, NEW b \in Int
    PROVE  /\ ((a % w) + b) % w = (a + b) % w
           /\ a % w \in 0 .. w - 1
  <1>1. PICK q \in Int : a = w * q + (a % w)
    BY Divides
  <1>2. PICK r \in Int : r = a % w
    OBVIOUS
  <1>3. a + b = w * q + (r + b)
    BY <1>1, <1>2
  <1>4. PICK p \in Int : r + b = w * p + ((r + b) % w)
    BY <1>2, Divides
  <1>5. PICK s \in Int : a + b = w * s + ((a + b) % w)
    BY Divides
  <1>6. PICK x \in 0 .. w - 1 : x = (r + b) % w
    BY <1>2
  <1>7. PICK y \in 0 .. w - 1 : y = (a + b) % w
    BY <1>2
  <1>8. y = x + w * (q + p - s)
    <2>1. w * s + y = w * q + (w * p + x)
      BY <1>1, <1>2, <1>3, <1>4, <1>5, <1>6, <1>7
    <2>2. w * (q + p - s) = w * q + w * p - w * s
      OBVIOUS
    <2> QED BY <2>1, <2>2
  <1>9. x = y
    BY <1>8, SameWord
  <1>10. a % w \in 0 .. w - 1
    OBVIOUS
  <1> QED BY <1>2, <1>6, <1>7, <1>9, <1>10

\* A counter c that has lost l against b bytes goes on doing so when n bytes
\* are added or taken off on both sides, or lost.
LEMMA DriftArith ==
    ASSUME NEW w \in Nat, w > 0, NEW c \in 0 .. w - 1, NEW l \in 0 .. w - 1,
           NEW b \in Int, (c + l) % w = b % w, NEW n \in Int
    PROVE  /\ (c + n) % w \in 0 .. w - 1 /\ (l + n) % w \in 0 .. w - 1
           /\ (((c + n) % w) + l) % w = (b + n) % w
           /\ (c + ((l + n) % w)) % w = (b + n) % w
  <1>0. c \in Int /\ l \in Int /\ c + n \in Int /\ l + n \in Int /\ c + l \in Int
    OBVIOUS
  <1>1. (c + n) % w \in 0 .. w - 1 /\ (l + n) % w \in 0 .. w - 1
    BY <1>0, WordPlus, Zenon
  <1>2. (((c + n) % w) + l) % w = ((c + n) + l) % w
    BY <1>0, WordPlus, Zenon
  <1>3. (((l + n) % w) + c) % w = ((l + n) + c) % w
    BY <1>0, WordPlus, Zenon
  <1>4. (((c + l) % w) + n) % w = ((c + l) + n) % w /\ ((b % w) + n) % w = (b + n) % w
    BY <1>0, WordPlus, Zenon
  <1>5. (c + n) + l = (c + l) + n /\ (l + n) + c = (c + l) + n
    OBVIOUS
  <1>6. ((c + l) + n) % w = (b + n) % w
    BY <1>4, Zenon
  <1>7. ((l + n) % w) + c = c + ((l + n) % w)
    BY <1>1
  <1> QED BY <1>1, <1>2, <1>3, <1>5, <1>6, <1>7, Zenon

\* Bytes are bytes of an object, below its size.
LEMMA HeldBytes ==
    ASSUME NEW f, NEW S
    PROVE  \A p : p \in Held(f, S) <=> \E o \in S : \E b \in 1 .. Size[f[o]] : p = <<o, b>>
  BY DEF Held

\* Finitely many objects have finitely many bytes.
LEMMA HeldFinite ==
    ASSUME NEW f, NEW S, IsFiniteSet(S), \A o \in S : f[o] \in Objects
    PROVE  IsFiniteSet(Held(f, S)) /\ Cardinality(Held(f, S)) \in Nat
  <1>1. IsFiniteSet(1 .. WordSize)
    BY FS_Interval, ServerAssumption
  <1>2. IsFiniteSet(S \X (1 .. WordSize))
    BY <1>1, FS_Product, Zenon
  <1>3. \A o \in S : Size[f[o]] \in Nat /\ Size[f[o]] <= WordSize
    BY ServerAssumption
  <1>4. Held(f, S) \subseteq S \X (1 .. WordSize)
    <2> SUFFICES ASSUME NEW p \in Held(f, S) PROVE p \in S \X (1 .. WordSize)
      BY Zenon
    <2>1. PICK o \in S : \E b \in 1 .. Size[f[o]] : p = <<o, b>>
      BY HeldBytes
    <2>2. PICK b \in 1 .. Size[f[o]] : p = <<o, b>>
      BY <2>1, Zenon
    <2>3. b \in 1 .. WordSize
      BY <1>3, ServerAssumption
    <2> QED BY <2>2, <2>3, Zenon
  <1>5. IsFiniteSet(Held(f, S))
    BY <1>2, <1>4, FS_Subset, Zenon
  <1> QED BY <1>5, FS_CardinalityType, Zenon

\* The bytes of an object and those of the others.
LEMMA HeldSplit ==
    ASSUME NEW f, NEW S, IsFiniteSet(S), \A o \in S : f[o] \in Objects, NEW x \in S
    PROVE  Cardinality(Held(f, S)) = Cardinality(Held(f, S \ {x})) + Size[f[x]]
  <1> DEFINE n == Size[f[x]]
             mine == {x} \X (1 .. n)
             rest == Held(f, S \ {x})
  <1>1. n \in Nat
    BY ServerAssumption, Zenon
  <1>2. IsFiniteSet(rest) /\ Cardinality(rest) \in Nat
    <2>1. IsFiniteSet(S \ {x})
      BY FS_Difference, Zenon
    <2> QED BY <2>1, HeldFinite, Zenon
  <1>3. IsFiniteSet(mine) /\ Cardinality(mine) = n
    <2>1. IsFiniteSet({x}) /\ Cardinality({x}) = 1
      BY FS_Singleton, Zenon
    <2>2. IsFiniteSet(1 .. n) /\ Cardinality(1 .. n) = n
      <3> HIDE DEF n
      <3> QED BY <1>1, FS_Interval
    <2>3. IsFiniteSet(mine) /\ Cardinality(mine) = 1 * n
      <3>1. PICK one, many : one = {x} /\ many = 1 .. n
        BY Zenon
      <3>2. IsFiniteSet(one \X many) /\ Cardinality(one \X many) = Cardinality(one) * Cardinality(many)
        BY <2>1, <2>2, <3>1, FS_Product, Zenon
      <3>3. mine = one \X many
        BY <3>1, Zenon
      <3> QED BY <2>1, <2>2, <3>1, <3>2, <3>3, Zenon
    <2> QED BY <1>1, <2>3
  <1>4. Held(f, S) = rest \cup mine
    <2>1. ASSUME NEW p PROVE p \in Held(f, S) <=> p \in rest \/ p \in mine
      <3>1. p \in mine <=> \E b \in 1 .. Size[f[x]] : p = <<x, b>>
        OBVIOUS
      <3>2. p \in rest <=> \E o \in S \ {x} : \E b \in 1 .. Size[f[o]] : p = <<o, b>>
        BY HeldBytes
      <3>3. p \in Held(f, S) <=> \E o \in S : \E b \in 1 .. Size[f[o]] : p = <<o, b>>
        BY HeldBytes
      <3> HIDE DEF mine, rest
      <3> QED BY <3>1, <3>2, <3>3, Zenon
    <2> QED BY <2>1, Zenon
  <1>5. rest \cap mine = {}
    <2> SUFFICES ASSUME NEW p \in rest, p \in mine PROVE FALSE
      BY Zenon
    <2>1. PICK o \in S \ {x} : \E b \in 1 .. Size[f[o]] : p = <<o, b>>
      BY HeldBytes
    <2>2. p[1] = x
      BY Zenon
    <2> QED BY <2>1, <2>2
  <1> HIDE DEF rest, mine
  <1>6. Cardinality(rest \cup mine) = Cardinality(rest) + n
    BY <1>1, <1>2, <1>3, <1>5, FS_Union, FS_EmptySet
  <1> QED BY <1>4, <1>6, Zenon DEF rest

\* The objects of S are all that counts.
LEMMA HeldSame ==
    ASSUME NEW f, NEW g, NEW S, \A o \in S : f[o] = g[o]
    PROVE  Held(f, S) = Held(g, S)
  BY Zenon DEF Held

\* Discounting an object that is there leaves the bytes of the others.
LEMMA Discount ==
    ASSUME PoolTypes, Accounts, NEW oid
    PROVE  /\ Discounted(oid) = Cardinality(Held(mem, DOMAIN mem \ {oid}))
           /\ Discounted(oid) \in Nat
           /\ Discounted(oid) <= pool_size
           /\ oid \in DOMAIN mem => curr_size = Discounted(oid) + Size[mem[oid]]
  <1> DEFINE a == Cardinality(Held(mem, DOMAIN mem \ {oid}))
  <1>1. a \in Nat
    <2>1. IsFiniteSet(DOMAIN mem \ {oid})
      BY FS_Difference, Zenon DEF PoolTypes
    <2> QED BY <2>1, HeldFinite, Zenon DEF PoolTypes
  <1>2. CASE oid \in DOMAIN mem
    <2>1. curr_size = a + Size[mem[oid]]
      BY <1>2, HeldSplit, Zenon DEF PoolTypes, Accounts
    <2>2. mem[oid] \in Objects /\ Size[mem[oid]] \in Nat
      BY <1>2, ServerAssumption, Zenon DEF PoolTypes
    <2>3. pool_size \in Nat /\ WordSize \in Nat /\ pool_size < WordSize
      BY <2>2, ServerAssumption
    <2> HIDE DEF a
    <2>4. curr_size - Size[mem[oid]] = a /\ a <= pool_size /\ a < WordSize
      BY <1>1, <2>1, <2>2, <2>3 DEF Accounts
    <2>5. a % WordSize = a
      BY <1>1, <2>3, <2>4, InRange, Zenon
    <2>6. Discounted(oid) = a
      BY <1>2, <2>4, <2>5, Zenon DEF Discounted, exists, minus
    <2> QED BY <1>1, <2>1, <2>4, <2>6, Zenon DEF a
  <1>3. CASE oid \notin DOMAIN mem
    <2>1. DOMAIN mem \ {oid} = DOMAIN mem /\ Discounted(oid) = curr_size
      BY <1>3, Zenon DEF Discounted, exists
    <2> QED BY <1>1, <1>3, <2>1, Zenon DEF Accounts
  <1> QED BY <1>2, <1>3, Zenon

\* Discounting an object takes its bytes off on both sides.
LEMMA DriftDiscount ==
    ASSUME PoolTypes, Drift, NEW oid
    PROVE  /\ Cardinality(Held(mem, DOMAIN mem \ {oid})) \in Nat
           /\ Discounted(oid) \in 0 .. WordSize - 1
           /\ (Discounted(oid) + lost) % WordSize =
                  Cardinality(Held(mem, DOMAIN mem \ {oid})) % WordSize
           /\ Cardinality(Held(mem, DOMAIN mem)) =
                  Cardinality(Held(mem, DOMAIN mem \ {oid}))
                      + (IF exists(oid) THEN Size[mem[oid]] ELSE 0)
  <1> DEFINE a == Cardinality(Held(mem, DOMAIN mem \ {oid}))
             b == Cardinality(Held(mem, DOMAIN mem))
  <1>1. a \in Nat /\ b \in Nat
    <2>1. IsFiniteSet(DOMAIN mem \ {oid})
      BY FS_Difference, Zenon DEF PoolTypes
    <2> QED BY <2>1, HeldFinite, Zenon DEF PoolTypes
  <1>2. CASE oid \in DOMAIN mem
    <2> DEFINE n == Size[mem[oid]]
    <2>1. b = a + n
      BY <1>2, HeldSplit, Zenon DEF PoolTypes
    <2>2. n \in Nat
      BY <1>2, ServerAssumption, Zenon DEF PoolTypes
    <2>3. Discounted(oid) = (curr_size - n) % WordSize /\ exists(oid)
      BY <1>2, Zenon DEF Discounted, exists, minus
    <2>4. curr_size \in 0 .. WordSize - 1 /\ lost \in 0 .. WordSize - 1
          /\ (curr_size + lost) % WordSize = b % WordSize
          /\ WordSize \in Nat /\ WordSize > 0
      BY ServerAssumption DEF Drift
    <2> HIDE DEF a, b, n
    <2>5. -n \in Int /\ curr_size - n = curr_size + (-n) /\ b + (-n) = a
      BY <1>1, <2>1, <2>2, <2>4
    <2>6. /\ (curr_size + (-n)) % WordSize \in 0 .. WordSize - 1
          /\ (((curr_size + (-n)) % WordSize) + lost) % WordSize = (b + (-n)) % WordSize
      <3>1. PICK k \in Int : k = -n
        BY <2>5, Zenon
      <3>2. b \in Int
        BY <1>1
      <3>3. /\ (curr_size + k) % WordSize \in 0 .. WordSize - 1
            /\ (((curr_size + k) % WordSize) + lost) % WordSize = (b + k) % WordSize
        BY <2>4, <3>2, DriftArith, Zenon
      <3> QED BY <3>1, <3>3, Zenon
    <2>7. /\ Discounted(oid) \in 0 .. WordSize - 1
          /\ (Discounted(oid) + lost) % WordSize = a % WordSize
      BY <2>3, <2>5, <2>6, Zenon
    <2> QED BY <1>1, <2>1, <2>3, <2>7, Zenon DEF a, b, n
  <1>3. CASE oid \notin DOMAIN mem
    <2>1. DOMAIN mem \ {oid} = DOMAIN mem /\ Discounted(oid) = curr_size /\ ~exists(oid)
      BY <1>3, Zenon DEF Discounted, exists
    <2>2. a = b /\ b = b + 0
      <3>1. a = b
        BY <2>1, Zenon
      <3> HIDE DEF a, b
      <3> QED BY <1>1, <3>1
    <2> QED BY <1>1, <2>1, <2>2, Zenon DEF Drift
  <1> QED BY <1>2, <1>3, Zenon

\* One object of a Write or a WriteBulk, accepted or rejected.
LEMMA Storing ==
    ASSUME PoolTypes, NEW oid \in ObjectIDs, NEW obj \in Objects, Written(oid, obj),
           StoreObject(oid, obj)
    PROVE  /\ IsFiniteSet(DOMAIN mem')
           /\ \A o \in DOMAIN mem' : mem'[o] \in Objects /\ o \in ObjectIDs /\ Written(o, mem'[o])
           /\ SizesKept /\ Accounts => Accounts'
           /\ Drift => Drift'
  <1> DEFINE d == Discounted(oid)
             n == Size[obj]
  <1>0. /\ n \in Nat /\ pool_size \in Nat /\ WordSize \in Nat /\ pool_size + n < WordSize
    BY ServerAssumption, Zenon
  <1>w. WordSize > 0
    BY ServerAssumption
  <1>1. ASSUME Accounts
        PROVE  d \in Nat /\ d <= pool_size /\ (d + n) % WordSize = d + n
    <2>1. d \in Nat /\ d <= pool_size
      BY <1>1, Discount, Zenon
    <2> HIDE DEF d, n
    <2>2. d + n \in Nat /\ d + n < WordSize
      BY <1>0, <2>1
    <2> QED BY <1>0, <2>1, <2>2, InRange, Zenon
  <1>2. CASE Fits(oid, obj)
    <2>1. /\ DOMAIN mem' = DOMAIN mem \cup {oid}
          /\ mem'[oid] = obj
          /\ \A o \in DOMAIN mem \ {oid} : mem'[o] = mem[o]
          /\ curr_size' = (d + n) % WordSize
          /\ lost' = lost
      BY <1>2, Zenon DEF StoreObject, mem_put
    <2>2. IsFiniteSet(DOMAIN mem')
      BY <2>1, FS_AddElement DEF PoolTypes
    <2>3. \A o \in DOMAIN mem' : mem'[o] \in Objects /\ o \in ObjectIDs /\ Written(o, mem'[o])
      BY <2>1, Zenon DEF PoolTypes
    <2> DEFINE b == Cardinality(Held(mem, DOMAIN mem \ {oid}))
    <2>h. Cardinality(Held(mem', DOMAIN mem')) = b + n
      <3>2. DOMAIN mem' \ {oid} = DOMAIN mem \ {oid}
        BY <2>1, Zenon
      <3>3. Held(mem', DOMAIN mem' \ {oid}) = Held(mem, DOMAIN mem \ {oid})
        <4>1. Held(mem', DOMAIN mem \ {oid}) = Held(mem, DOMAIN mem \ {oid})
          BY <2>1, HeldSame, Zenon
        <4> QED BY <3>2, <4>1, Zenon
      <3>4. oid \in DOMAIN mem'
        BY <2>1, Zenon
      <3> DEFINE f == mem'
                 S == DOMAIN mem'
      <3>5. IsFiniteSet(S) /\ (\A o \in S : f[o] \in Objects) /\ oid \in S
        BY <2>2, <2>3, <3>4, Zenon
      <3>6. Cardinality(Held(f, S)) = Cardinality(Held(f, S \ {oid})) + Size[f[oid]]
        <4> HIDE DEF f, S
        <4> QED BY <3>5, HeldSplit, Zenon
      <3> QED BY <2>1, <3>3, <3>6, Zenon
    <2>4. ASSUME Accounts PROVE Accounts'
      <3>7. Cardinality(Held(mem', DOMAIN mem')) = d + n
        BY <2>4, <2>h, Discount, Zenon
      <3>8. curr_size' = d + n
        BY <1>1, <2>1, <2>4, Zenon
      <3>9. d + n <= pool_size
        BY <1>1, <1>2, <2>4, Zenon DEF Fits
      <3> QED BY <3>7, <3>8, <3>9, Zenon DEF Accounts
    <2>5. ASSUME Drift PROVE Drift'
      <3>1. /\ b \in Nat /\ d \in 0 .. WordSize - 1
            /\ (d + lost) % WordSize = b % WordSize
        BY <2>5, DriftDiscount, Zenon
      <3>2. lost \in 0 .. WordSize - 1
        BY <2>5, Zenon DEF Drift
      <3>3. /\ (d + n) % WordSize \in 0 .. WordSize - 1
            /\ (((d + n) % WordSize) + lost) % WordSize = (b + n) % WordSize
        <4> HIDE DEF d, n, b
        <4>1. b \in Int /\ n \in Int
          BY <1>0, <3>1
        <4> QED BY <1>0, <1>w, <3>1, <3>2, <4>1, DriftArith, Zenon
      <3> QED BY <2>1, <2>h, <3>2, <3>3, Zenon DEF Drift
    <2> QED BY <2>2, <2>3, <2>4, <2>5, Zenon
  <1>3. CASE ~Fits(oid, obj)
    <2> DEFINE s == IF exists(oid) THEN Size[mem[oid]] ELSE 0
    <2>1. mem' = mem /\ curr_size' = d /\ lost' = (lost + s) % WordSize
      BY <1>3, Zenon DEF StoreObject
    <2>2. ASSUME SizesKept, Accounts PROVE Accounts'
      <3>1. ~(d + n <= pool_size)
        BY <1>1, <1>3, <2>2, Zenon DEF Fits
      <3>2. CASE oid \in DOMAIN mem
        <4>1. Size[mem[oid]] = n /\ curr_size = d + n
          BY <2>2, <3>2, Discount, Zenon DEF SizesKept, PoolTypes
        <4> QED BY <2>2, <3>1, <4>1, Zenon DEF Accounts
      <3>3. CASE oid \notin DOMAIN mem
        <4>1. d = curr_size
          BY <3>3, Zenon DEF Discounted, exists
        <4> QED BY <2>1, <2>2, <4>1, Zenon DEF Accounts
      <3> QED BY <3>2, <3>3, Zenon
    <2>3. ASSUME Drift PROVE Drift'
      <3> DEFINE b == Cardinality(Held(mem, DOMAIN mem \ {oid}))
      <3>1. /\ b \in Nat /\ d \in 0 .. WordSize - 1
            /\ (d + lost) % WordSize = b % WordSize
            /\ Cardinality(Held(mem, DOMAIN mem)) = b + s
        BY <2>3, DriftDiscount, Zenon
      <3>2. lost \in 0 .. WordSize - 1
        BY <2>3, Zenon DEF Drift
      <3>3. s \in Int
        <4>1. exists(oid) => Size[mem[oid]] \in Nat
          BY ServerAssumption, Zenon DEF PoolTypes, exists
        <4>2. 0 \in Int /\ \A k \in Nat : k \in Int
          OBVIOUS
        <4> QED BY <4>1, <4>2, Zenon
      <3>4. /\ (lost + s) % WordSize \in 0 .. WordSize - 1
            /\ (d + ((lost + s) % WordSize)) % WordSize = (b + s) % WordSize
        <4> HIDE DEF d, s, b
        <4>1. b \in Int
          BY <3>1
        <4> QED BY <1>0, <1>w, <3>1, <3>2, <3>3, <4>1, DriftArith, Zenon
      <3> HIDE DEF s, d, b
      <3> QED BY <2>1, <3>1, <3>4, Zenon DEF Drift
    <2> QED BY <2>1, <2>2, <2>3, Zenon DEF PoolTypes
  <1> QED BY <1>2, <1>3, Zenon

\* Remove of an object that is there.
LEMMA Removing ==
    ASSUME PoolTypes, NEW oid, oid \in DOMAIN mem,
           curr_size' = Discounted(oid), lost' = lost, mem_delet(oid)
    PROVE  /\ IsFiniteSet(DOMAIN mem')
           /\ \A o \in DOMAIN mem' : mem'[o] \in Objects /\ o \in ObjectIDs /\ Written(o, mem'[o])
           /\ Accounts => Accounts'
           /\ Drift => Drift'
  <1>1. /\ DOMAIN mem' = DOMAIN mem \ {oid}
        /\ \A o \in DOMAIN mem \ {oid} : mem'[o] = mem[o]
    BY Zenon DEF mem_delet
  <1>2. \A o \in DOMAIN mem' : mem'[o] \in Objects /\ o \in ObjectIDs /\ Written(o, mem'[o])
    BY <1>1, Zenon DEF PoolTypes
  <1>3. IsFiniteSet(DOMAIN mem')
    BY <1>1, FS_RemoveElement DEF PoolTypes
  <1>4. Held(mem', DOMAIN mem') = Held(mem, DOMAIN mem \ {oid})
    BY <1>1, HeldSame
  <1>5. ASSUME Accounts PROVE Accounts'
    <2>1. /\ Discounted(oid) = Cardinality(Held(mem, DOMAIN mem \ {oid}))
          /\ Discounted(oid) <= pool_size
      BY <1>5, Discount, Zenon
    <2> QED BY <1>4, <2>1, Zenon DEF Accounts
  <1>6. ASSUME Drift PROVE Drift'
    <2>1. /\ Discounted(oid) \in 0 .. WordSize - 1
          /\ (Discounted(oid) + lost) % WordSize =
                 Cardinality(Held(mem, DOMAIN mem \ {oid})) % WordSize
      BY <1>6, DriftDiscount, Zenon
    <2> QED BY <1>4, <1>6, <2>1, Zenon DEF Drift
  <1> QED BY <1>2, <1>3, <1>5, <1>6, Zenon

\* Taking a request off a connection, and what it may contain.
LEMMA Taking ==
    ASSUME PoolTypes, NEW op, Request(op)
    PROVE  /\ here \in Clients
           /\ inbox' \in [Clients -> Seq(Requests \cup {Torn})]
           /\ op # "torn" => Head(inbox[here]) \in Requests \cap AllRequests
           /\ Head(inbox[here]).op = op
  <1>1. here \in Clients /\ inbox[here] # <<>> /\ Head(inbox[here]).op = op
        /\ inbox' = [inbox EXCEPT ![here] = Tail(@)]
    BY Zenon DEF Request, readable
  <1> DEFINE c == here
  <1>2. inbox[c] \in Seq(Requests \cup {Torn})
    BY <1>1, Zenon DEF PoolTypes
  <1>3. Head(inbox[c]) \in Requests \cup {Torn} /\ Tail(inbox[c]) \in Seq(Requests \cup {Torn})
    <2>1. inbox[c] # <<>>
      BY <1>1, Zenon
    <2> HIDE DEF c
    <2> QED BY <1>2, <2>1
  <1>4. inbox' \in [Clients -> Seq(Requests \cup {Torn})]
    <2> HIDE DEF c
    <2>1. inbox' = [inbox EXCEPT ![c] = Tail(inbox[c])] /\ c \in Clients
      BY <1>1, Zenon DEF c
    <2> QED BY <1>3, <2>1, Zenon DEF PoolTypes
  <1>5. op # "torn" => Head(inbox[c]) \in Requests \cap AllRequests
    BY <1>1, <1>3, ServerAssumption DEF Torn
  <1> QED BY <1>1, <1>4, <1>5, Zenon

\* A step that leaves the pool and the bulk write alone.
LEMMA Aside ==
    ASSUME PoolInv, UNCHANGED <<mem, curr_size, lost>>,
           inbox' \in [Clients -> Seq(Requests \cup {Torn})],
           GoodUnits(job'.todo)
    PROVE  PoolInv'
  BY Zenon DEF PoolInv, PoolTypes, Drift, Accounts

\* A step that changes the pool and keeps its accounts.
LEMMA Accounted ==
    ASSUME PoolInv,
           IsFiniteSet(DOMAIN mem'),
           \A o \in DOMAIN mem' : mem'[o] \in Objects /\ o \in ObjectIDs /\ Written(o, mem'[o]),
           SizesKept /\ Accounts => Accounts', Drift => Drift',
           inbox' \in [Clients -> Seq(Requests \cup {Torn})],
           GoodUnits(job'.todo)
    PROVE  PoolInv'
  BY Zenon DEF PoolInv, PoolTypes, Steady

\* The units of a WriteBulk, and what is left of them.
LEMMA Units ==
    ASSUME NEW s, GoodUnits(s), s # <<>>
    PROVE  /\ Head(s)[1] \in ObjectIDs /\ Head(s)[2] \in Objects
           /\ Written(Head(s)[1], Head(s)[2])
           /\ GoodUnits(Tail(s))
  <1>1. s \in Seq(ObjectIDs \X Objects) /\ Head(s) = s[1] /\ 1 \in DOMAIN s
        /\ s[1] \in ObjectIDs \X Objects
    BY DEF GoodUnits
  <1>2. Tail(s) \in Seq(ObjectIDs \X Objects)
        /\ \A i \in DOMAIN Tail(s) : Tail(s)[i] = s[i + 1] /\ i + 1 \in DOMAIN s
    BY <1>1
  <1> QED BY <1>1, <1>2, Zenon DEF GoodUnits

\* The requests that process() serves.
LEMMA PoolProcess ==
    ASSUME PoolInv, process
    PROVE  PoolInv'
  <1> USE DEF PoolInv
  <1>0. GoodUnits(job.todo)
    BY Zenon DEF PoolTypes
  <1>1. CASE Write
    <2> DEFINE m == Head(inbox[here])
    <2>1. m \in Requests \cap AllRequests /\ m.op = "Write"
          /\ inbox' \in [Clients -> Seq(Requests \cup {Torn})]
      BY <1>1, Taking DEF Write
    <2>2. m.oid \in ObjectIDs /\ m.data \in Objects /\ Written(m.oid, m.data)
      <3> HIDE DEF m
      <3> QED BY <2>1, Zenon DEF AllRequests, Written
    <2>3. StoreObject(m.oid, m.data) /\ job' = job
      BY <1>1, Zenon DEF Write
    <2> HIDE DEF m
    <2>4. /\ IsFiniteSet(DOMAIN mem')
          /\ \A o \in DOMAIN mem' : mem'[o] \in Objects /\ o \in ObjectIDs /\ Written(o, mem'[o])
          /\ SizesKept /\ Accounts => Accounts'
          /\ Drift => Drift'
      BY <2>2, <2>3, Storing, Zenon
    <2> QED BY <1>0, <2>1, <2>3, <2>4, Accounted, Zenon
  <1>2. CASE WriteBulk
    <2> DEFINE m == Head(inbox[here])
    <2>1. m \in Requests \cap AllRequests /\ m.op = "WriteBulk"
          /\ inbox' \in [Clients -> Seq(Requests \cup {Torn})]
      BY <1>2, Taking DEF WriteBulk
    <2>2. GoodUnits(m.units)
      <3> HIDE DEF m
      <3>1. m.units \in Seq(ObjectIDs \X Objects)
        BY <2>1, Zenon DEF AllRequests
      <3>2. \A i \in DOMAIN m.units : m.units[i] = <<m.units[i][1], m.units[i][2]>>
        BY <3>1
      <3> QED BY <2>1, <3>1, <3>2, Zenon DEF GoodUnits, Written
    <2>3. job'.todo = m.units /\ UNCHANGED <<mem, curr_size, lost>>
      BY <1>2, Zenon DEF WriteBulk, store
    <2> HIDE DEF m
    <2> QED BY <2>1, <2>2, <2>3, Aside, Zenon
  <1>3. CASE WriteBulkNext
    <2> DEFINE u == Head(job.todo)
    <2>1. /\ u[1] \in ObjectIDs /\ u[2] \in Objects /\ Written(u[1], u[2])
          /\ GoodUnits(Tail(job.todo))
      BY <1>0, <1>3, Units, Zenon DEF WriteBulkNext
    <2>2. StoreObject(u[1], u[2])
      BY <1>3, Zenon DEF WriteBulkNext
    <2>3. GoodUnits(job'.todo)
      <3>1. job'.todo = Tail(job.todo) \/ job'.todo = <<>>
        BY <1>3, Zenon DEF WriteBulkNext
      <3>2. GoodUnits(<<>>)
        BY DEF GoodUnits
      <3> QED BY <2>1, <3>1, <3>2, Zenon
    <2>4. inbox' \in [Clients -> Seq(Requests \cup {Torn})]
      BY <1>3, Zenon DEF WriteBulkNext, sockets, PoolTypes
    <2> HIDE DEF u
    <2>5. /\ IsFiniteSet(DOMAIN mem')
          /\ \A o \in DOMAIN mem' : mem'[o] \in Objects /\ o \in ObjectIDs /\ Written(o, mem'[o])
          /\ SizesKept /\ Accounts => Accounts'
          /\ Drift => Drift'
      BY <2>1, <2>2, Storing, Zenon
    <2> QED BY <2>3, <2>4, <2>5, Accounted, Zenon
  <1>4. CASE WriteBulkAck
    BY <1>0, <1>4, Aside, Zenon DEF WriteBulkAck, store, PoolTypes
  <1>5. CASE Read
    <2>1. Request("Read") /\ UNCHANGED <<mem, curr_size, lost, job>>
      BY <1>5, Zenon DEF Read, store
    <2> QED BY <1>0, <2>1, Taking, Aside, Zenon
  <1>6. CASE ReadBulk
    <2>1. Request("ReadBulk") /\ UNCHANGED <<mem, curr_size, lost, job>>
      BY <1>6, Zenon DEF ReadBulk, store
    <2> QED BY <1>0, <2>1, Taking, Aside, Zenon
  <1>7. CASE Remove
    <2> DEFINE oid == Head(inbox[here]).oid
    <2>1. Request("Remove") /\ UNCHANGED job
      BY <1>7, Zenon DEF Remove
    <2>2. inbox' \in [Clients -> Seq(Requests \cup {Torn})]
      BY <2>1, Taking, Zenon
    <2>3. CASE exists(oid)
      <3>1. curr_size' = Discounted(oid) /\ lost' = lost /\ mem_delet(oid) /\ oid \in DOMAIN mem
        BY <1>7, <2>3, Zenon DEF Remove, exists
      <3> HIDE DEF oid
      <3>2. /\ IsFiniteSet(DOMAIN mem')
            /\ \A o \in DOMAIN mem' : mem'[o] \in Objects /\ o \in ObjectIDs /\ Written(o, mem'[o])
            /\ Accounts => Accounts'
            /\ Drift => Drift'
        BY <3>1, Removing, Zenon
      <3> QED BY <1>0, <2>1, <2>2, <3>2, Accounted, Zenon
    <2>4. CASE ~exists(oid)
      <3>1. UNCHANGED <<mem, curr_size, lost>>
        BY <1>7, <2>4, Zenon DEF Remove, store
      <3> QED BY <1>0, <2>1, <2>2, <3>1, Aside, Zenon
    <2> QED BY <2>3, <2>4, Zenon
  <1>8. CASE ReadTorn
    <2>1. Request("torn") /\ UNCHANGED <<mem, curr_size, lost, job>>
      BY <1>8, Zenon DEF ReadTorn, store
    <2> QED BY <1>0, <2>1, Taking, Aside, Zenon
  <1>9. CASE Disconnected
    BY <1>0, <1>9, Aside, Zenon DEF Disconnected, store, PoolTypes
  <1> QED BY <1>1, <1>2, <1>3, <1>4, <1>5, <1>6, <1>7, <1>8, <1>9, Zenon DEF process

\* The pool starts empty, after a restart too.
LEMMA EmptyPool ==
    /\ Cardinality(Held(<<>>, DOMAIN <<>>)) = 0
    /\ IsFiniteSet(DOMAIN <<>>)
    /\ DOMAIN <<>> = {}
    /\ GoodUnits(<<>>)
  <1>1. DOMAIN <<>> = {} /\ GoodUnits(<<>>)
    BY DEF GoodUnits
  <1>2. Held(<<>>, {}) = {}
    BY Zenon DEF Held
  <1> QED BY <1>1, <1>2, FS_EmptySet, Zenon

\* A server that has just started has stored nothing and counts nothing.
LEMMA PoolInit == InitServer => PoolInv
  <1> SUFFICES ASSUME InitServer PROVE PoolInv
    BY Zenon
  <1>1. mem = <<>> /\ curr_size = 0 /\ lost = 0 /\ job.todo = <<>>
        /\ inbox = [c \in Clients |-> <<>>]
    BY Zenon DEF InitServer, NoJob
  <1>2. PoolTypes
    BY <1>1, EmptyPool DEF PoolTypes
  <1>3. Accounts
    BY <1>1, EmptyPool, ServerAssumption DEF Accounts
  <1>4. Drift
    BY <1>1, EmptyPool, ServerAssumption DEF Drift
  <1> QED BY <1>2, <1>3, <1>4, Zenon DEF PoolInv

\* Every step keeps the accounts: exactly, as long as a restart loses the data
\* along with the counter and ids keep their sizes, and up to what is lost
\* otherwise.
LEMMA PoolStep == PoolInv /\ [NextServer]_serverVars => PoolInv'
  <1> SUFFICES ASSUME PoolInv, [NextServer]_serverVars PROVE PoolInv'
    BY Zenon
  <1>0. PoolTypes /\ GoodUnits(job.todo)
    BY Zenon DEF PoolInv, PoolTypes
  <1>1. CASE process
    BY <1>1, PoolProcess, Zenon
  <1>2. CASE loop
    BY <1>0, <1>2, Aside, Zenon
       DEF loop, Poll, Skip, HangUp, Accept, EndOfRound, store, sockets, PoolTypes
  <1>3. ASSUME NEW c \in Clients, Connect(c) \/ Receive(c) \/ Bounce(c) PROVE PoolInv'
    BY <1>0, <1>3, Aside, Zenon DEF Connect, Receive, Bounce, store, PoolTypes
  <1>4. ASSUME NEW c \in Clients, GiveUp(c) \/ Leave(c) \/ \E m \in Requests : Send(c, m)
        PROVE  PoolInv'
    <2>1. UNCHANGED <<mem, curr_size, lost, job>>
      BY <1>4, Zenon DEF GiveUp, Leave, Send, store
    <2>2. \/ inbox' = inbox
          \/ inbox' = [inbox EXCEPT ![c] = <<>>]
          \/ \E m \in Requests \cup {Torn} : inbox' = [inbox EXCEPT ![c] = Append(@, m)]
      BY <1>4, Zenon DEF GiveUp, Leave, Send
    <2>3. inbox[c] \in Seq(Requests \cup {Torn})
      BY <1>0, Zenon DEF PoolTypes
    <2>4. inbox' \in [Clients -> Seq(Requests \cup {Torn})]
      <3> DEFINE M == Requests \cup {Torn}
      <3>1. \A m \in M : Append(inbox[c], m) \in Seq(M)
        <4> HIDE DEF M
        <4> QED BY <2>3 DEF M
      <3>2. inbox \in [Clients -> Seq(M)] /\ <<>> \in Seq(M)
        BY <1>0 DEF PoolTypes
      <3> HIDE DEF M
      <3>3. \A q \in Seq(M) : [inbox EXCEPT ![c] = q] \in [Clients -> Seq(M)]
        BY <3>2, Zenon
      <3> QED BY <2>2, <3>1, <3>2, <3>3, Zenon DEF M
    <2> QED BY <1>0, <2>1, <2>4, Aside, Zenon
  <1>5. CASE Restart
    <2>1. curr_size' = 0 /\ job'.todo = <<>> /\ inbox' = inbox
      BY <1>5, Zenon DEF Restart, NoJob
    <2>2. CASE Backend = "Memory"
      <3>1. mem' = <<>> /\ lost' = 0
        BY <1>5, <2>2 DEF Restart
      <3>2. PoolTypes'
        BY <1>0, <2>1, <3>1, EmptyPool, Zenon DEF PoolTypes
      <3>3. Accounts' /\ Drift'
        BY <2>1, <3>1, EmptyPool, ServerAssumption DEF Accounts, Drift
      <3> QED BY <3>2, <3>3, Zenon DEF PoolInv
    <2>3. CASE Backend = "Storage"
      <3> DEFINE b == Cardinality(Held(mem, DOMAIN mem))
      <3>1. mem' = mem /\ lost' = b % WordSize /\ Restarts
        BY <1>5, <2>3, Zenon DEF Restart, Bytes, Held
      <3>2. PoolTypes'
        BY <1>0, <2>1, <3>1, EmptyPool, Zenon DEF PoolTypes
      <3>3. b \in Nat /\ WordSize \in Nat /\ WordSize > 0
        <4>1. b \in Nat
          BY <1>0, HeldFinite, Zenon DEF PoolTypes
        <4> QED BY <4>1, ServerAssumption
      <3>4. b % WordSize \in 0 .. WordSize - 1 /\ (0 + (b % WordSize)) % WordSize = b % WordSize
        <4> HIDE DEF b
        <4>1. b % WordSize \in 0 .. WordSize - 1
          BY <3>3
        <4>2. PICK r \in 0 .. WordSize - 1 : r = b % WordSize
          BY <4>1, Zenon
        <4>3. r \in Nat /\ r < WordSize /\ 0 + r = r
          BY <3>3
        <4>4. r % WordSize = r
          BY <3>3, <4>3, InRange, Zenon
        <4> QED BY <4>1, <4>2, <4>3, <4>4, Zenon
      <3>5. 0 \in 0 .. WordSize - 1
        BY <3>3
      <3>6. Drift'
        BY <2>1, <3>1, <3>4, <3>5, Zenon DEF Drift
      <3>7. ~Steady
        BY <2>3, <3>1 DEF Steady
      <3> QED BY <3>2, <3>6, <3>7, Zenon DEF PoolInv, Steady
    <2> QED BY <2>2, <2>3, ServerAssumption
  <1>6. CASE UNCHANGED serverVars
    BY <1>0, <1>6, Aside, Zenon DEF serverVars, PoolTypes
  <1> QED BY <1>1, <1>2, <1>3, <1>4, <1>5, <1>6, Zenon DEF NextServer, Server, Environment

\* The byte counter is the bytes in the pool but for those that a rejected
\* overwrite or a restart has lost to it (TCPServer.cpp:413-419), and a counter
\* that wraps below zero comes back: for every request, bulk writes cut short,
\* removals, clients that die at any moment, and either backend.
THEOREM CounterIsExact == ServerSpec => []AccountingExact
  <1>1. PoolInv => AccountingExact
    BY Zenon DEF PoolInv, Drift, AccountingExact, Bytes, Held
  <1> QED BY <1>1, PoolInit, PoolStep, PTL DEF ServerSpec

\* The counter is the number of bytes in the pool and never exceeds its size,
\* for ids that keep the size of their object, and a backend that does not
\* survive a restart (or no restarts).
THEOREM PoolIsCounted ==
    ASSUME Backend = "Memory" \/ ~Restarts, SizesKept
    PROVE  ServerSpec => [](CountsThePool /\ PoolBounded)
  <1>1. PoolInv => CountsThePool /\ PoolBounded
    BY Zenon DEF PoolInv, Steady, Accounts, CountsThePool, PoolBounded, Bytes, Held
  <1> QED BY <1>1, PoolInit, PoolStep, PTL DEF ServerSpec

\* With objects of one size the counter is that size times the number of
\* objects, whatever the clients write where.
THEOREM PoolIsSound ==
    ASSUME Backend = "Memory" \/ ~Restarts
    PROVE  ServerSpec => []UniformPool
  <1>1. PoolInv => UniformPool
    <2> SUFFICES ASSUME PoolInv, NEW n \in Nat, \A o \in Objects : Size[o] = n
                 PROVE  curr_size = n * Cardinality(DOMAIN mem) /\ curr_size <= pool_size
      BY Zenon DEF UniformPool
    <2>1. SizesKept
      BY Zenon DEF SizesKept
    <2>2. Accounts /\ PoolTypes
      BY <2>1, Zenon DEF PoolInv, Steady
    <2> DEFINE D == DOMAIN mem
    <2>3. IsFiniteSet(D) /\ Cardinality(D) \in Nat /\ \A o \in D : Size[mem[o]] = n
      BY <2>2, FS_CardinalityType, Zenon DEF PoolTypes
    <2>4. Held(mem, D) = D \X (1 .. n)
      <3>1. \A p : p \in Held(mem, D) <=> \E o \in D : \E b \in 1 .. n : p = <<o, b>>
        BY <2>3, HeldBytes
      <3> HIDE DEF D
      <3> QED BY <3>1
    <2>5. IsFiniteSet(1 .. n) /\ Cardinality(1 .. n) = n
      BY FS_Interval
    <2>6. Cardinality(D \X (1 .. n)) = Cardinality(D) * n
      BY <2>3, <2>5, FS_Product
    <2>7. Cardinality(D) * n = n * Cardinality(D)
      <3> HIDE DEF D
      <3> QED BY <2>3
    <2> QED BY <2>2, <2>4, <2>6, <2>7, Zenon DEF Accounts
  <1> QED BY <1>1, PoolInit, PoolStep, PTL DEF ServerSpec

\* Replies are queued on sequences.
IsSeq(q) == \E R : q \in Seq(R)

Outboxes == /\ outbox = [c \in Clients |-> outbox[c]]
            /\ \A c \in Clients : IsSeq(outbox[c])

\* What a client is being sent stays a sequence of answers.
LEMMA OutboxStep ==
    ASSUME Outboxes, [NextServer]_serverVars
    PROVE  Outboxes'
  <1>1. \/ outbox' = outbox
        \/ \E c \in Clients : \E r : outbox' = [outbox EXCEPT ![c] = Append(@, r)]
        \/ \E c \in Clients : outbox[c] # <<>> /\ outbox' = [outbox EXCEPT ![c] = Tail(@)]
        \/ \E c \in Clients : outbox' = [outbox EXCEPT ![c] = <<>>]
    <2>1. ASSUME NEW c, NEW r, Answer(c, r)
          PROVE  outbox' = outbox \/ outbox' = [outbox EXCEPT ![c] = Append(@, r)]
      BY <2>1, Zenon DEF Answer
    <2>2. CASE process
      <3>1. CASE WriteBulk \/ WriteBulkNext \/ ReadTorn \/ Disconnected
        BY <3>1, Zenon DEF WriteBulk, WriteBulkNext, ReadTorn, Disconnected, sockets
      <3>2. CASE Write \/ WriteBulkAck \/ Read \/ ReadBulk \/ Remove
        <4>1. PICK r : Answer(here, r)
          BY <3>2, Zenon DEF Write, WriteBulkAck, Read, ReadBulk, Remove
        <4>2. outbox' = outbox \/ outbox' = [outbox EXCEPT ![here] = Append(@, r)]
          BY <2>1, <4>1, Zenon
        <4>3. here \notin Clients => [outbox EXCEPT ![here] = Append(@, r)] = outbox
          BY Zenon DEF Outboxes
        <4> QED BY <4>2, <4>3, Zenon
      <3> QED BY <2>2, <3>1, <3>2, Zenon DEF process
    <2>3. CASE loop \/ Restart \/ UNCHANGED serverVars
      BY <2>3, Zenon DEF loop, Poll, Skip, HangUp, Accept, EndOfRound, sockets, Restart, serverVars
    <2>4. CASE Environment
      BY <2>4, Zenon DEF Environment, Connect, Receive, Leave, Bounce, GiveUp, Send
    <2> QED BY <2>2, <2>3, <2>4, Zenon DEF NextServer, Server
  <1>2. ASSUME NEW c \in Clients, NEW q, IsSeq(q), outbox' = [outbox EXCEPT ![c] = q]
        PROVE  Outboxes'
    BY <1>2, Zenon DEF Outboxes
  <1>3. ASSUME NEW q, IsSeq(q), NEW r
        PROVE  IsSeq(Append(q, r)) /\ (q # <<>> => IsSeq(Tail(q)))
    <2>1. PICK R : q \in Seq(R)
      BY <1>3, Zenon DEF IsSeq
    <2> DEFINE T == R \cup {r}
    <2>2. q \in Seq(T) /\ r \in T
      BY <2>1
    <2> HIDE DEF T
    <2>3. Append(q, r) \in Seq(T) /\ (q # <<>> => Tail(q) \in Seq(T))
      BY <2>2
    <2> QED BY <2>3, Zenon DEF IsSeq
  <1>4. IsSeq(<<>>)
    BY DEF IsSeq
  <1>5. ASSUME NEW c \in Clients PROVE IsSeq(outbox[c])
    BY Zenon DEF Outboxes
  <1> QED BY <1>1, <1>2, <1>3, <1>4, <1>5, Zenon DEF Outboxes

\* A Write is answered with kServerMemoryError only when the object really
\* does not fit beside the others: the room asked for an overwrite is the
\* difference, as long as no earlier rejection or restart has taken bytes off
\* the counter.
THEOREM RejectsOnlyIfFull == ServerSpec => RejectedOnlyIfFull
  <1> DEFINE Rejection(oid, obj) ==
          /\ Write
          /\ lost = 0
          /\ Head(inbox[here]) = [op |-> "Write", oid |-> oid, data |-> obj]
          /\ Len(outbox'[here]) > Len(outbox[here])
          /\ outbox'[here][Len(outbox'[here])].error = "kServerMemoryError"
  <1>1. ASSUME PoolInv, Outboxes, NEW oid \in ObjectIDs, NEW obj \in Objects, Rejection(oid, obj)
        PROVE  Bytes(DOMAIN mem \ {oid}) + Size[obj] > pool_size
    <2> DEFINE m == Head(inbox[here])
               e == IF Fits(m.oid, m.data) THEN "kOk" ELSE "kServerMemoryError"
               r == Reply(m, e, <<>>)
               c == here
    <2>1. m.oid = oid /\ m.data = obj
      BY <1>1
    <2>2. Answer(c, r) /\ c \in Clients
      BY <1>1, Zenon DEF Write, Request, readable
    <2>3. Len(outbox'[c]) > Len(outbox[c]) /\ outbox'[c][Len(outbox'[c])].error = "kServerMemoryError"
      BY <1>1, Zenon
    <2>4. r.error = e
      BY Zenon DEF Reply
    <2>5. PICK R : outbox[c] \in Seq(R)
      <3> HIDE DEF c
      <3> QED BY <1>1, <2>2, Zenon DEF Outboxes, IsSeq
    <2> HIDE DEF c, r, e, m
    <2>6. outbox' = [outbox EXCEPT ![c] = Append(@, r)]
      <3>1. Len(outbox[c]) \in Nat
        BY <2>5
      <3> QED BY <2>2, <2>3, <3>1 DEF Answer
    <2>7. outbox'[c] = Append(outbox[c], r)
      BY <1>1, <2>2, <2>6, Zenon DEF Outboxes
    <2>8. outbox'[c][Len(outbox'[c])] = r
      <3> DEFINE q == outbox[c]
                 T == R \cup {r}
      <3>1. q \in Seq(T) /\ r \in T
        BY <2>5
      <3> HIDE DEF q, T
      <3>2. Append(q, r)[Len(Append(q, r))] = r
        BY <3>1
      <3> QED BY <2>7, <3>2, Zenon DEF q
    <2>9. ~Fits(oid, obj)
      BY <2>1, <2>3, <2>4, <2>8, Zenon DEF e
    <2> DEFINE d == Discounted(oid)
               n == Size[obj]
               b == Bytes(DOMAIN mem \ {oid})
    <2>10. /\ b \in Nat /\ d \in 0 .. WordSize - 1 /\ lost = 0
           /\ (d + lost) % WordSize = b % WordSize
      BY <1>1, DriftDiscount, Zenon DEF PoolInv, Bytes, Held
    <2>11. n \in Nat /\ pool_size \in Nat /\ WordSize \in Nat /\ pool_size + n < WordSize
      BY ServerAssumption, Zenon
    <2>12. ~((d + n) % WordSize <= pool_size)
      BY <2>9, Zenon DEF Fits
    <2> HIDE DEF d, n, b
    <2>13. ~(b + n > pool_size) => d = b
      <3> SUFFICES ASSUME ~(b + n > pool_size) PROVE d = b
        BY Zenon
      <3>1. b < WordSize /\ d \in Nat /\ d < WordSize /\ d + lost = d
        BY <2>10, <2>11
      <3>2. b % WordSize = b /\ d % WordSize = d
        BY <2>10, <2>11, <3>1, InRange, Zenon
      <3> QED BY <2>10, <3>1, <3>2, Zenon
    <2>14. b + n > pool_size
      <3> SUFFICES ASSUME ~(b + n > pool_size) PROVE FALSE
        BY Zenon
      <3>1. d = b /\ d + n \in Nat /\ d + n <= pool_size /\ d + n < WordSize
        BY <2>10, <2>11, <2>13
      <3>2. (d + n) % WordSize = d + n
        BY <2>11, <3>1, InRange, Zenon
      <3> QED BY <2>12, <3>1, <3>2, Zenon
    <2> QED BY <2>14, Zenon DEF b, n
  <1>2. PoolInv /\ Outboxes /\ [NextServer]_serverVars =>
           [\A oid \in ObjectIDs, obj \in Objects :
               Rejection(oid, obj) => Bytes(DOMAIN mem \ {oid}) + Size[obj] > pool_size]_serverVars
    BY <1>1, Zenon
  <1>3. InitServer => Outboxes
    BY DEF InitServer, Outboxes, IsSeq
  <1>4. Outboxes /\ [NextServer]_serverVars => Outboxes'
    BY OutboxStep, Zenon
  <1> QED BY <1>2, <1>3, <1>4, PoolInit, PoolStep, PTL DEF ServerSpec, RejectedOnlyIfFull

-----------------------------------------------------------------------------
(* Compacting the table (std::remove_if).                                  *)

\* Slots kept among the first i, of a table f.
PlaceIn(f, i) == Cardinality({j \in 1 .. i : f[j] # "-1"})

\* Each slot adds one to the place of the next, if it is kept.
LEMMA PlaceStep ==
    ASSUME NEW f, NEW i \in Nat
    PROVE  /\ PlaceIn(f, i) \in 0 .. i
           /\ PlaceIn(f, 0) = 0
           /\ f[i + 1] # "-1" => PlaceIn(f, i + 1) = PlaceIn(f, i) + 1
           /\ f[i + 1] = "-1" => PlaceIn(f, i + 1) = PlaceIn(f, i)
  <1> DEFINE K(n) == {j \in 1 .. n : f[j] # "-1"}
  <1>1. IsFiniteSet(K(i)) /\ Cardinality(K(i)) \in Nat /\ Cardinality(K(i)) <= i
    <2>1. IsFiniteSet(1 .. i) /\ Cardinality(1 .. i) = i
      BY FS_Interval
    <2>2. K(i) \in SUBSET (1 .. i)
      BY Zenon
    <2> HIDE DEF K
    <2> QED BY <2>1, <2>2, FS_Subset, FS_CardinalityType
  <1>2. K(0) = {}
    OBVIOUS
  <1>3. f[i + 1] # "-1" => K(i + 1) = K(i) \cup {i + 1}
    OBVIOUS
  <1>4. f[i + 1] = "-1" => K(i + 1) = K(i)
    OBVIOUS
  <1>5. i + 1 \notin K(i)
    OBVIOUS
  <1>6. PlaceIn(f, i) = Cardinality(K(i)) /\ PlaceIn(f, 0) = Cardinality(K(0))
        /\ PlaceIn(f, i + 1) = Cardinality(K(i + 1))
    BY Zenon DEF PlaceIn
  <1> HIDE DEF K
  <1>7. Cardinality(K(0)) = 0
    BY <1>2, FS_EmptySet, Zenon
  <1>8. Cardinality(K(i) \cup {i + 1}) = Cardinality(K(i)) + 1
    BY <1>1, <1>5, FS_AddElement, Zenon
  <1>9. f[i + 1] # "-1" => PlaceIn(f, i + 1) = PlaceIn(f, i) + 1
    BY <1>3, <1>6, <1>8, Zenon
  <1>10. f[i + 1] = "-1" => PlaceIn(f, i + 1) = PlaceIn(f, i)
    BY <1>4, <1>6, Zenon
  <1>11. PlaceIn(f, i) \in 0 .. i
    BY <1>1, <1>6
  <1> QED BY <1>6, <1>7, <1>9, <1>10, <1>11, Zenon

\* A kept slot has a place after all the slots before it.
LEMMA PlaceOrder ==
    ASSUME NEW f, NEW i \in Nat, NEW j \in Nat
    PROVE  /\ i <= j => PlaceIn(f, i) <= PlaceIn(f, j)
           /\ i < j /\ f[j] # "-1" => PlaceIn(f, i) < PlaceIn(f, j)
  <1> DEFINE K(n) == {k \in 1 .. n : f[k] # "-1"}
  <1>1. ASSUME NEW a \in Nat, NEW b \in Nat, a <= b PROVE PlaceIn(f, a) <= PlaceIn(f, b)
    <2>1. IsFiniteSet(1 .. b) /\ K(b) \in SUBSET (1 .. b)
      BY FS_Interval
    <2>2. K(a) \in SUBSET K(b)
      BY <1>1
    <2> HIDE DEF K
    <2>3. IsFiniteSet(K(b))
      BY <2>1, FS_Subset, Zenon
    <2>4. Cardinality(K(a)) <= Cardinality(K(b))
      BY <2>2, <2>3, FS_Subset, Zenon
    <2> QED BY <2>4, Zenon DEF PlaceIn, K
  <1>2. ASSUME i < j, f[j] # "-1" PROVE PlaceIn(f, i) < PlaceIn(f, j)
    <2> DEFINE k == j - 1
    <2>1. k \in Nat /\ i <= k /\ k + 1 = j
      BY <1>2
    <2> HIDE DEF k
    <2>2. PlaceIn(f, k + 1) = PlaceIn(f, k) + 1 /\ PlaceIn(f, k) \in Nat /\ PlaceIn(f, i) \in Nat
      BY <1>2, <2>1, PlaceStep
    <2>3. PlaceIn(f, i) <= PlaceIn(f, k)
      BY <1>1, <2>1, Zenon
    <2> QED BY <2>1, <2>2, <2>3
  <1> QED BY <1>1, <1>2, Zenon

\* Natural numbers are well ordered.
LEMMA Least ==
    ASSUME NEW T \in SUBSET Nat, T # {}
    PROVE  \E x \in T : \A y \in T : x <= y
  <1>1. PICK x \in T : \A y \in T : ~(<<y, x>> \in OpToRel(<, Nat))
    BY NatLessThanWellFounded, WFMin, Zenon
  <1>2. ASSUME NEW y \in T PROVE x <= y
    <2>1. x \in Nat /\ y \in Nat
      BY Zenon
    <2>2. ~(y < x)
      BY <1>1, <2>1, Zenon DEF OpToRel
    <2> QED BY <2>1, <2>2
  <1> QED BY <1>2, Zenon

\* Every place up to the number of slots kept is taken by exactly one of them.
LEMMA PlaceTaken ==
    ASSUME NEW f, NEW N \in Nat, NEW k \in 1 .. PlaceIn(f, N)
    PROVE  \E i \in 1 .. N : f[i] # "-1" /\ PlaceIn(f, i) = k
  <1> DEFINE T == {i \in 0 .. N : PlaceIn(f, i) >= k}
  <1>0. PlaceIn(f, N) \in Nat /\ PlaceIn(f, 0) = 0
    BY PlaceStep
  <1>1. PICK i \in T : \A j \in T : i <= j
    <2>1. N \in T /\ T \in SUBSET Nat
      BY <1>0
    <2> HIDE DEF T
    <2> QED BY <2>1, Least, Zenon
  <1>2. i # 0
    BY <1>0
  <1> DEFINE p == i - 1
  <1>3. p \in 0 .. N /\ p + 1 = i /\ p \in Nat
    BY <1>2
  <1>4. p \notin T
    BY <1>1, <1>3
  <1>5. PlaceIn(f, p) \in Nat /\ PlaceIn(f, p) < k
    BY <1>0, <1>3, <1>4, PlaceStep
  <1>6. /\ f[p + 1] # "-1" => PlaceIn(f, p + 1) = PlaceIn(f, p) + 1
        /\ f[p + 1] = "-1" => PlaceIn(f, p + 1) = PlaceIn(f, p)
    <2> HIDE DEF p
    <2> QED BY <1>3, PlaceStep, Zenon
  <1>7. PlaceIn(f, p + 1) >= k /\ p + 1 \in 1 .. N
    BY <1>1, <1>2, <1>3
  <1> HIDE DEF p
  <1> QED BY <1>0, <1>3, <1>5, <1>6, <1>7

\* Two slots in use never come to the same place when the table is compacted.
LEMMA PlaceUnique ==
    ASSUME NEW f, NEW i \in Nat, NEW j \in Nat, f[i] # "-1", f[j] # "-1",
           PlaceIn(f, i) = PlaceIn(f, j)
    PROVE  i = j
  <1>1. PlaceIn(f, i) \in Nat
    BY PlaceStep
  <1>2. ~(i < j) /\ ~(j < i)
    BY <1>1, PlaceOrder
  <1> QED BY <1>2

\* The slots kept and the slots given up make up the table.
LEMMA PlaceCount ==
    ASSUME NEW f, NEW N \in Nat
    PROVE  N - Cardinality({i \in 1 .. N : f[i] = "-1"}) = PlaceIn(f, N)
  <1> DEFINE G == {i \in 1 .. N : f[i] = "-1"}
             K == {i \in 1 .. N : f[i] # "-1"}
  <1>1. IsFiniteSet(1 .. N) /\ Cardinality(1 .. N) = N
    BY FS_Interval
  <1>2. G \in SUBSET (1 .. N) /\ K = (1 .. N) \ G /\ (1 .. N) \cap G = G
    BY Zenon
  <1>3. PlaceIn(f, N) = Cardinality(K)
    BY Zenon DEF PlaceIn
  <1> HIDE DEF G, K
  <1>4. IsFiniteSet(G) /\ Cardinality(G) \in Nat
    BY <1>1, <1>2, FS_Subset, FS_CardinalityType
  <1>5. Cardinality(K) = N - Cardinality(G)
    <2> DEFINE I == 1 .. N
    <2>1. IsFiniteSet(I) /\ Cardinality(I) = N /\ K = I \ G /\ I \cap G = G
      BY <1>1, <1>2, Zenon
    <2> HIDE DEF I
    <2>2. Cardinality(I \ G) = Cardinality(I) - Cardinality(I \cap G)
      BY <2>1, FS_Difference, Zenon
    <2> QED BY <2>1, <2>2, Zenon
  <1> QED BY <1>3, <1>5, Zenon DEF G

\* What remove_if does to the table: the slots kept are all there, in order,
\* in the slots still in use.
LEMMA Compaction ==
    ASSUME fds \in [1 .. max_fds -> Clients \cup {"listen", "-1", "0"}],
           fds[1] = "listen"
    PROVE  /\ Place(max_fds) \in 1 .. max_fds
           /\ Place(max_fds) = max_fds - Cardinality({i \in DOMAIN fds : fds[i] = "-1"})
           /\ Compacted(fds) \in [1 .. max_fds -> Clients \cup {"listen", "-1", "0"}]
           /\ Compacted(fds)[1] = "listen"
           /\ \A k \in 1 .. Place(max_fds) :
                 Kept(k) \in 1 .. max_fds /\ fds[Kept(k)] # "-1" /\ Compacted(fds)[k] = fds[Kept(k)]
           /\ \A k, l \in 1 .. Place(max_fds) : Kept(k) = Kept(l) => k = l
           /\ \A i \in 1 .. max_fds : fds[i] # "-1" =>
                 \E k \in 1 .. Place(max_fds) : Kept(k) = i
           /\ \A k \in 1 .. Place(max_fds) : Kept(k) = 1 => k = 1
  <1> DEFINE N == max_fds
  <1>0. N \in Nat /\ N >= 2
    BY ServerAssumption
  <1>1. ASSUME NEW i PROVE Place(i) = PlaceIn(fds, i)
    BY Zenon DEF Place, PlaceIn
  <1>2. Place(N) \in Nat /\ Place(N) <= N /\ Place(0) = 0 /\ Place(1) = 1
    <2>1. PlaceIn(fds, N) \in 0 .. N /\ PlaceIn(fds, 0) = 0
      BY <1>0, PlaceStep, Zenon
    <2>2. PlaceIn(fds, 1) = PlaceIn(fds, 0) + 1
      <3> DEFINE z == 0
      <3>1. z \in Nat /\ fds[z + 1] # "-1" /\ z + 1 = 1
        OBVIOUS
      <3> HIDE DEF z
      <3>2. PlaceIn(fds, z + 1) = PlaceIn(fds, z) + 1
        BY <3>1, PlaceStep, Zenon
      <3> QED BY <3>1, <3>2, Zenon DEF z
    <2> QED BY <1>0, <1>1, <2>1, <2>2
  <1>3. Place(N) >= 1
    <2>1. PlaceIn(fds, 1) <= PlaceIn(fds, N)
      BY <1>0, PlaceOrder
    <2> QED BY <1>1, <1>2, <2>1, Zenon
  <1>4. Place(N) = N - Cardinality({i \in DOMAIN fds : fds[i] = "-1"})
    <2>1. DOMAIN fds = 1 .. N
      BY Zenon
    <2> QED BY <1>0, <1>1, <2>1, PlaceCount, Zenon
  <1>5. ASSUME NEW k \in 1 .. Place(N)
        PROVE  Kept(k) \in 1 .. N /\ fds[Kept(k)] # "-1" /\ Place(Kept(k)) = k
    <2>1. \E i \in 1 .. N : fds[i] # "-1" /\ Place(i) = k
      BY <1>0, <1>1, PlaceTaken
    <2> QED BY <2>1, Zenon DEF Kept
  <1>6. ASSUME NEW i \in 1 .. N, fds[i] # "-1" PROVE Place(i) \in 1 .. Place(N) /\ Kept(Place(i)) = i
    <2>1. Place(i) <= Place(N) /\ Place(i) \in Nat
      BY <1>0, <1>1, PlaceOrder, PlaceStep
    <2>2. Place(0) < Place(i)
      <3>1. 0 \in Nat /\ i \in Nat /\ 0 < i
        BY <1>0
      <3>2. PlaceIn(fds, 0) < PlaceIn(fds, i)
        BY <1>6, <3>1, PlaceOrder, Zenon
      <3> QED BY <1>1, <3>2, Zenon
    <2>3. Place(i) \in 1 .. Place(N)
      BY <1>2, <2>1, <2>2
    <2>4. Kept(Place(i)) \in 1 .. N /\ fds[Kept(Place(i))] # "-1" /\ Place(Kept(Place(i))) = Place(i)
      BY <1>5, <2>3, Zenon
    <2> DEFINE j == Kept(Place(i))
    <2>5. j \in Nat /\ i \in Nat /\ fds[j] # "-1" /\ PlaceIn(fds, j) = PlaceIn(fds, i)
      BY <1>0, <1>1, <2>4
    <2> HIDE DEF j
    <2>6. j = i
      BY <1>6, <2>5, PlaceUnique, Zenon
    <2> QED BY <2>3, <2>6, Zenon DEF j
  <1>7. \A k \in 1 .. Place(N) : Compacted(fds)[k] = fds[Kept(k)]
    BY <1>0, <1>2 DEF Compacted
  <1>8. Kept(1) = 1
    BY <1>0, <1>2, <1>6
  <1>9. Compacted(fds) \in [1 .. N -> Clients \cup {"listen", "-1", "0"}]
    <2>1. ASSUME NEW k \in 1 .. N
          PROVE  (IF k <= Place(N) THEN fds[Kept(k)] ELSE fds[k]) \in Clients \cup {"listen", "-1", "0"}
      <3>1. CASE k <= Place(N)
        <4>1. Kept(k) \in 1 .. N
          BY <1>2, <1>5, <3>1
        <4> QED BY <3>1, <4>1
      <3>2. CASE ~(k <= Place(N))
        BY <3>2, Zenon
      <3> QED BY <3>1, <3>2
    <2> QED BY <2>1, Zenon DEF Compacted
  <1>10. Compacted(fds)[1] = "listen"
    BY <1>2, <1>3, <1>7, <1>8
  <1> HIDE DEF N
  <1>11. \A k, l \in 1 .. Place(N) : Kept(k) = Kept(l) => k = l
    BY <1>5
  <1>12. \A i \in 1 .. N : fds[i] # "-1" => \E k \in 1 .. Place(N) : Kept(k) = i
    BY <1>6, Zenon
  <1>13. 1 \in 1 .. Place(N)
    BY <1>2, <1>3
  <1> QED BY <1>2, <1>3, <1>4, <1>5, <1>7, <1>8, <1>9, <1>10, <1>11, <1>12, <1>13 DEF N

-----------------------------------------------------------------------------
(* The table of descriptors.                                               *)

Fds == Clients \cup {"listen", "-1", "0"}

\* A table f with n slots in use polls the open connections, once each, and
\* nothing else.
Polled(f, n, cn) ==
    /\ f \in [1 .. max_fds -> Fds]
    /\ n \in 1 .. max_fds
    /\ cn \in [Clients -> {"none", "backlog", "open", "closed", "leaked"}]
    /\ f[1] = "listen"
    /\ \A i \in 2 .. n : f[i] \in Clients \cup {"-1"} /\ (f[i] \in Clients => cn[f[i]] = "open")
    /\ \A i, j \in 2 .. n : f[i] = f[j] /\ f[i] \in Clients => i = j
    /\ \A c \in Clients : cn[c] = "open" => \E i \in 2 .. n : f[i] = c

\* The connections that wait for accept, each once.
Waiting(b, cn) ==
    /\ b \in Seq(Clients)
    /\ \A i \in DOMAIN b : cn[b[i]] = "backlog"
    /\ \A i, j \in DOMAIN b : b[i] = b[j] => i = j

\* Where the round is.  Once the listening socket's slot has been passed the
\* table may hold slots given up, and they are purged before the next poll.
Cursor ==
    /\ at \in Nat \ {0}
    /\ pc = "bulk" => at \in 2 .. curr_index /\ fds[at] \in Clients
    /\ DOMAIN revents = 1 .. max_fds
    /\ pc = "scan" /\ at = 1 /\ revents[1] = "in" => backlog # <<>>
    /\ (pc = "poll" \/ (pc = "scan" /\ at = 1)) /\ curr_index = max_fds
          => \A i \in 1 .. max_fds : fds[i] # "-1"

TableInv == Polled(fds, curr_index, conn) /\ Waiting(backlog, conn) /\ Cursor

\* At the start the table holds the listening socket only.
LEMMA TableInit == InitServer => TableInv
  <1> SUFFICES ASSUME InitServer PROVE TableInv
    BY Zenon
  <1>1. max_fds \in Nat /\ max_fds >= 2
    BY ServerAssumption
  <1>2. Polled(fds, curr_index, conn)
    BY <1>1 DEF InitServer, NewTable, Polled, Fds
  <1>3. Waiting(backlog, conn)
    BY DEF InitServer, Waiting
  <1>4. Cursor
    BY <1>1 DEF InitServer, Cursor, NoEvents
  <1> QED BY <1>2, <1>3, <1>4 DEF TableInv

\* A client's slot is not the listening socket's.
LEMMA ClientSlot ==
    ASSUME TableInv, at <= curr_index, here \in Clients
    PROVE  at \in 2 .. curr_index /\ conn[here] = "open" /\ at \in 1 .. max_fds
  <1>1. at \in Nat \ {0} /\ curr_index \in 1 .. max_fds /\ fds[1] = "listen" /\ max_fds \in Nat
    BY ServerAssumption, Zenon DEF TableInv, Cursor, Polled
  <1>2. at # 1
    BY <1>1, ServerAssumption DEF here
  <1>3. at \in 2 .. curr_index
    BY <1>1, <1>2
  <1> QED BY <1>1, <1>3 DEF TableInv, Polled, here

\* A slot is given up together with its connection.
LEMMA Leaving ==
    ASSUME TableInv, at <= curr_index, here \in Clients,
           NEW s \in {"closed", "leaked"}, conn' = [conn EXCEPT ![here] = s],
           Abandon, UNCHANGED <<curr_index, backlog>>
    PROVE  TableInv'
  <1> DEFINE c == here
             k == at
             n == curr_index
  <1>1. /\ k \in 2 .. n /\ k \in 1 .. max_fds /\ c \in Clients /\ conn[c] = "open"
        /\ fds[k] = c /\ conn' = [conn EXCEPT ![c] = s]
        /\ fds' = [fds EXCEPT ![k] = "-1"] /\ pc' = "scan" /\ at' = k + 1
        /\ DOMAIN revents' = DOMAIN revents
        /\ n \in 1 .. max_fds /\ max_fds \in Nat
    BY ClientSlot, ServerAssumption DEF Abandon, NextSlot, here, TableInv, Polled
  <1> HIDE DEF c, k
  <1>2. "-1" \notin Clients /\ "-1" \in Fds
    BY ServerAssumption DEF Fds
  <1>3. Polled(fds, n, conn)
    BY Zenon DEF TableInv
  <1>4. /\ fds'[k] = "-1" /\ \A i \in 1 .. max_fds : i # k => fds'[i] = fds[i]
        /\ conn'[c] = s /\ \A d \in Clients : d # c => conn'[d] = conn[d]
    BY <1>1, <1>3 DEF Polled
  <1>5. Polled(fds', n, conn')
    <2>1. fds' \in [1 .. max_fds -> Fds] /\ fds'[1] = "listen"
          /\ conn' \in [Clients -> {"none", "backlog", "open", "closed", "leaked"}]
      BY <1>1, <1>2, <1>3 DEF Polled
    <2>2. ASSUME NEW i \in 2 .. n
          PROVE  fds'[i] \in Clients \cup {"-1"} /\ (fds'[i] \in Clients => conn'[fds'[i]] = "open")
      BY <1>1, <1>2, <1>3, <1>4 DEF Polled
    <2>3. ASSUME NEW i \in 2 .. n, NEW j \in 2 .. n, fds'[i] = fds'[j], fds'[i] \in Clients
          PROVE  i = j
      BY <1>1, <1>2, <1>3, <1>4, <2>3 DEF Polled
    <2>4. ASSUME NEW d \in Clients, conn'[d] = "open"
          PROVE  \E i \in 2 .. n : fds'[i] = d
      <3>1. d # c
        BY <1>4, <2>4
      <3>2. PICK i \in 2 .. n : fds[i] = d
        BY <1>3, <1>4, <2>4, <3>1 DEF Polled
      <3> QED BY <1>1, <1>4, <3>1, <3>2
    <2> QED BY <1>3, <2>1, <2>2, <2>3, <2>4 DEF Polled
  <1>6. Waiting(backlog', conn')
    <2>1. Waiting(backlog, conn) /\ backlog' = backlog
      BY Zenon DEF TableInv
    <2>2. \A i \in DOMAIN backlog : backlog[i] \in Clients /\ backlog[i] # c
      BY <1>1, <2>1 DEF Waiting
    <2> QED BY <1>4, <2>1, <2>2 DEF Waiting
  <1>7. Cursor'
    BY <1>1 DEF TableInv, Cursor
  <1> QED BY <1>5, <1>6, <1>7 DEF TableInv

\* The round moves on, and the table is left alone.
LEMMA Moving ==
    ASSUME TableInv, UNCHANGED <<fds, curr_index, conn, backlog>>,
           at' \in Nat \ {0, 1}, DOMAIN revents' = DOMAIN revents,
           pc' \in {"scan", "spinning", "down"} \/ (pc' = "bulk" /\ at' <= curr_index /\ fds[at'] \in Clients)
    PROVE  TableInv'
  <1>1. curr_index \in 1 .. max_fds /\ max_fds \in Nat
    BY ServerAssumption, Zenon DEF TableInv, Polled
  <1>2. Cursor'
    BY <1>1 DEF TableInv, Cursor
  <1> QED BY <1>2 DEF TableInv

\* send_all: the reply goes out, the connection is given up, or the process
\* dies.
LEMMA Answering ==
    ASSUME TableInv, at <= curr_index, here \in Clients, NEW r, Answer(here, r),
           UNCHANGED <<curr_index, backlog>>
    PROVE  TableInv'
  <1>1. at \in 2 .. curr_index /\ at \in 1 .. max_fds /\ max_fds \in Nat
    BY ClientSlot, ServerAssumption
  <1>2. CASE NextSlot /\ UNCHANGED <<fds, conn>>
    BY <1>1, <1>2, Moving DEF NextSlot
  <1>3. CASE Abandon /\ conn' = [conn EXCEPT ![here] = "leaked"]
    BY <1>3, Leaving
  <1>4. CASE pc' = "down" /\ UNCHANGED <<fds, revents, at, conn>>
    BY <1>1, <1>4, Moving
  <1> QED BY <1>2, <1>3, <1>4, Zenon DEF Answer

\* process().
LEMMA TableProcess ==
    ASSUME TableInv, process
    PROVE  TableInv'
  <1>1. ASSUME NEW op, Request(op)
        PROVE  /\ at <= curr_index /\ here \in Clients /\ at \in Nat \ {0, 1}
               /\ UNCHANGED <<curr_index, backlog>>
    BY <1>1, ClientSlot, ServerAssumption DEF Request, readable, TableInv, Polled
  <1>2. CASE Write \/ Read \/ ReadBulk \/ Remove
    <2>1. \E op : Request(op)
      BY <1>2, Zenon DEF Write, Read, ReadBulk, Remove
    <2>2. PICK r : Answer(here, r)
      BY <1>2, Zenon DEF Write, Read, ReadBulk, Remove
    <2> QED BY <1>1, <2>1, <2>2, Answering
  <1>3. CASE WriteBulk
    BY <1>1, <1>3, Moving DEF WriteBulk, here
  <1>4. CASE WriteBulkNext
    <2>1. /\ pc' = pc /\ at' = at /\ UNCHANGED <<fds, revents, curr_index, conn, backlog>>
          /\ pc = "bulk"
      BY <1>4 DEF WriteBulkNext, table, sockets
    <2> QED BY <2>1 DEF TableInv, Cursor
  <1>5. CASE WriteBulkAck
    <2>1. at \in 2 .. curr_index /\ fds[at] \in Clients /\ curr_index \in 1 .. max_fds /\ max_fds \in Nat
      BY <1>5, ServerAssumption DEF WriteBulkAck, TableInv, Cursor, Polled
    <2>2. at <= curr_index /\ here \in Clients
      BY <2>1 DEF here
    <2>3. PICK r : Answer(here, r)
      BY <1>5, Zenon DEF WriteBulkAck
    <2> QED BY <1>5, <2>2, <2>3, Answering DEF WriteBulkAck
  <1>6. CASE ReadTorn
    BY <1>1, <1>6, Moving DEF ReadTorn
  <1>7. CASE Disconnected
    <2>1. at <= curr_index /\ here \in Clients
      BY <1>7 DEF Disconnected, readable
    <2>2. at \in Nat \ {0, 1}
      BY <2>1, ClientSlot, ServerAssumption DEF TableInv, Polled
    <2>3. CASE peer[here] = "reset"
      BY <1>7, <2>2, <2>3, Moving DEF Disconnected, table
    <2>4. CASE peer[here] # "reset"
      BY <1>7, <2>1, <2>4, Leaving DEF Disconnected
    <2> QED BY <2>3, <2>4
  <1> QED BY <1>2, <1>3, <1>4, <1>5, <1>6, <1>7 DEF process

\* The slot of the listening socket: the oldest connection is taken, or turned
\* away when the table is full.
LEMMA Accepting ==
    ASSUME TableInv, Accept
    PROVE  /\ TableInv'
           /\ backlog # <<>> /\ Head(backlog) \in Clients /\ at = 1
  <1> DEFINE c == Head(backlog)
             n == curr_index
  <1>1. /\ n \in 1 .. max_fds /\ max_fds \in Nat /\ at \in Nat \ {0} /\ at <= n
        /\ Polled(fds, n, conn) /\ Waiting(backlog, conn)
    BY ServerAssumption DEF TableInv, Polled, Cursor, Accept
  <1>2. at = 1
    <2>1. at \in 2 .. n => fds[at] \in Clients \cup {"-1"}
      BY <1>1 DEF Polled
    <2>2. fds[at] = "listen" /\ "listen" \notin Clients
      BY ServerAssumption DEF Accept, here
    <2> QED BY <1>1, <2>1, <2>2
  <1>3. backlog # <<>>
    BY <1>2 DEF TableInv, Cursor, Accept
  <1>4. /\ c \in Clients /\ conn[c] = "backlog"
        /\ Tail(backlog) \in Seq(Clients)
        /\ \A i \in DOMAIN Tail(backlog) : i + 1 \in DOMAIN backlog /\ Tail(backlog)[i] = backlog[i + 1]
        /\ 1 \in DOMAIN backlog /\ backlog[1] = c
        /\ DOMAIN backlog \subseteq Nat /\ DOMAIN Tail(backlog) \subseteq Nat
    BY <1>1, <1>3 DEF Waiting
  <1>5. \A i \in DOMAIN Tail(backlog) : Tail(backlog)[i] # c /\ i # 0
    BY <1>1, <1>4 DEF Waiting
  <1>6. \A i, j \in DOMAIN Tail(backlog) : Tail(backlog)[i] = Tail(backlog)[j] => i = j
    <2> SUFFICES ASSUME NEW i \in DOMAIN Tail(backlog), NEW j \in DOMAIN Tail(backlog),
                        Tail(backlog)[i] = Tail(backlog)[j]
                 PROVE  i = j
      OBVIOUS
    <2>1. i + 1 = j + 1
      BY <1>1, <1>4 DEF Waiting
    <2>2. i \in Nat /\ j \in Nat
      BY <1>4, Zenon
    <2> QED BY <2>1, <2>2
  <1>7. /\ backlog' = Tail(backlog) /\ pc' = "scan" /\ at' = at + 1 /\ DOMAIN revents' = DOMAIN revents
        /\ \/ conn' = [conn EXCEPT ![c] = "closed"] /\ UNCHANGED <<fds, curr_index>>
           \/ /\ n # max_fds
              /\ conn' = [conn EXCEPT ![c] = "open"]
              /\ fds' = [fds EXCEPT ![n + 1] = c]
              /\ curr_index' = n + 1
    BY Zenon DEF Accept, NextSlot
  <1> HIDE DEF c
  <1>8. /\ conn'[c] \in {"open", "closed"} /\ \A d \in Clients : d # c => conn'[d] = conn[d]
        /\ conn' \in [Clients -> {"none", "backlog", "open", "closed", "leaked"}]
    BY <1>1, <1>4, <1>7, SMTT(40) DEF Polled
  <1>9. Waiting(backlog', conn')
    <2>1. \A i \in DOMAIN Tail(backlog) : Tail(backlog)[i] \in Clients /\ conn[Tail(backlog)[i]] = "backlog"
      BY <1>1, <1>4 DEF Waiting
    <2> QED BY <1>4, <1>5, <1>6, <1>7, <1>8, <2>1 DEF Waiting
  <1>10. Polled(fds', curr_index', conn')
    <2>1. CASE conn' = [conn EXCEPT ![c] = "closed"] /\ UNCHANGED <<fds, curr_index>>
      <3>1. conn'[c] = "closed"
        BY <1>1, <1>4, <2>1 DEF Polled
      <3>2. \A i \in 2 .. n : fds[i] # c
        BY <1>1, <1>4 DEF Polled
      <3> QED BY <1>1, <1>8, <2>1, <3>1, <3>2 DEF Polled
    <2>2. CASE /\ n # max_fds
               /\ conn' = [conn EXCEPT ![c] = "open"]
               /\ fds' = [fds EXCEPT ![n + 1] = c]
               /\ curr_index' = n + 1
      <3>1. /\ conn'[c] = "open" /\ n + 1 \in 1 .. max_fds /\ n \in Nat
            /\ fds'[n + 1] = c /\ \A i \in 1 .. max_fds : i # n + 1 => fds'[i] = fds[i]
            /\ fds' \in [1 .. max_fds -> Fds] /\ fds'[1] = "listen"
        BY <1>1, <1>4, <2>2 DEF Polled, Fds
      <3>2. \A i \in 2 .. n + 1 : i \in 1 .. max_fds /\ (i # n + 1 => i \in 2 .. n)
        BY <1>1, <3>1
      <3>3. \A i \in 2 .. n : fds[i] # c
        BY <1>1, <1>4, Zenon DEF Polled
      <3>4. ASSUME NEW i \in 2 .. n + 1
            PROVE  /\ fds'[i] \in Clients \cup {"-1"}
                   /\ fds'[i] \in Clients => conn'[fds'[i]] = "open"
        <4>1. CASE i = n + 1
          BY <1>4, <3>1, <4>1
        <4>2. CASE i # n + 1
          <5>1. i \in 2 .. n /\ fds'[i] = fds[i] /\ fds[i] # c
            BY <3>1, <3>2, <3>3, <4>2
          <5>2. fds[i] \in Clients \cup {"-1"} /\ (fds[i] \in Clients => conn[fds[i]] = "open")
            BY <1>1, <5>1 DEF Polled
          <5> QED BY <1>8, <5>1, <5>2
        <4> QED BY <4>1, <4>2
      <3>5. ASSUME NEW i \in 2 .. n + 1, NEW j \in 2 .. n + 1, fds'[i] = fds'[j], fds'[i] \in Clients
            PROVE  i = j
        <4>1. CASE i = n + 1 \/ j = n + 1
          BY <3>1, <3>2, <3>3, <3>5, <4>1
        <4>2. CASE i # n + 1 /\ j # n + 1
          <5>1. i \in 2 .. n /\ j \in 2 .. n /\ fds[i] = fds[j] /\ fds[i] \in Clients
            BY <3>1, <3>2, <3>5, <4>2
          <5> QED BY <1>1, <5>1 DEF Polled
        <4> QED BY <4>1, <4>2
      <3>6. ASSUME NEW d \in Clients, conn'[d] = "open" PROVE \E i \in 2 .. n + 1 : fds'[i] = d
        <4>1. CASE d = c
          BY <1>1, <3>1, <4>1
        <4>2. CASE d # c
          <5>1. PICK i \in 2 .. n : fds[i] = d
            BY <1>1, <1>8, <3>6, <4>2 DEF Polled
          <5> QED BY <1>1, <3>1, <5>1
        <4> QED BY <4>1, <4>2
      <3> QED BY <1>8, <2>2, <3>1, <3>4, <3>5, <3>6 DEF Polled
    <2> QED BY <1>7, <2>1, <2>2, Zenon
  <1>11. Cursor'
    BY <1>2, <1>7 DEF TableInv, Cursor
  <1> QED BY <1>2, <1>3, <1>4, <1>9, <1>10, <1>11 DEF TableInv, c

\* The end of a round: a full table is purged of the slots given up.
LEMMA Purging ==
    ASSUME TableInv, EndOfRound
    PROVE  TableInv'
  <1>1. /\ pc' = "poll" /\ at' = at /\ UNCHANGED <<conn, backlog>>
        /\ Polled(fds, curr_index, conn) /\ Waiting(backlog, conn)
        /\ max_fds \in Nat /\ max_fds >= 2 /\ at \in Nat \ {0} /\ DOMAIN revents = 1 .. max_fds
    BY ServerAssumption DEF EndOfRound, TableInv, sockets, Cursor
  <1>2. CASE curr_index # max_fds
    <2>1. UNCHANGED <<fds, revents, curr_index>>
      BY <1>2 DEF EndOfRound, table
    <2> QED BY <1>1, <1>2, <2>1 DEF TableInv, Cursor
  <1>3. CASE curr_index = max_fds
    <2> DEFINE N == max_fds
               P == Place(N)
               g == Compacted(fds)
    <2>1. fds \in [1 .. N -> Clients \cup {"listen", "-1", "0"}] /\ fds[1] = "listen"
      BY <1>1 DEF Polled, Fds
    <2>2. /\ P \in 1 .. N
          /\ P = N - Cardinality({i \in DOMAIN fds : fds[i] = "-1"})
          /\ g \in [1 .. N -> Clients \cup {"listen", "-1", "0"}]
          /\ g[1] = "listen"
          /\ \A k \in 1 .. P : Kept(k) \in 1 .. N /\ fds[Kept(k)] # "-1" /\ g[k] = fds[Kept(k)]
          /\ \A k, l \in 1 .. P : Kept(k) = Kept(l) => k = l
          /\ \A i \in 1 .. N : fds[i] # "-1" => \E k \in 1 .. P : Kept(k) = i
          /\ \A k \in 1 .. P : Kept(k) = 1 => k = 1
      BY <2>1, Compaction
    <2>3. fds' = g /\ curr_index' = P /\ DOMAIN revents' = 1 .. N
      BY <1>3, <2>2 DEF EndOfRound, Compacted
    <2> HIDE DEF P, g
    <2>4. \A k \in 2 .. P : k \in 1 .. P /\ Kept(k) \in 2 .. N
      BY <1>1, <2>2
    <2>5. Kept(1) = 1
      <3>1. PICK k \in 1 .. P : Kept(k) = 1
        BY <1>1, <2>1, <2>2
      <3> QED BY <2>2, <3>1, Zenon
    <2>6. \A k \in 2 .. P : g[k] \in Clients /\ conn[g[k]] = "open"
      BY <1>1, <1>3, <2>2, <2>4 DEF Polled
    <2>7. ASSUME NEW k \in 2 .. P, NEW l \in 2 .. P, g[k] = g[l] PROVE k = l
      <3>1. Kept(k) = Kept(l)
        BY <1>1, <1>3, <2>2, <2>4, <2>6, <2>7 DEF Polled
      <3> QED BY <2>2, <2>4, <3>1
    <2>8. ASSUME NEW c \in Clients, conn[c] = "open" PROVE \E k \in 2 .. P : g[k] = c
      <3>1. PICK i \in 2 .. N : fds[i] = c
        BY <1>1, <1>3, <2>8 DEF Polled
      <3>2. c # "-1" /\ i \in 1 .. N /\ i # 1
        BY <1>1, ServerAssumption
      <3>3. PICK k \in 1 .. P : Kept(k) = i
        BY <2>2, <3>1, <3>2, Zenon
      <3>4. k \in 2 .. P
        BY <2>2, <2>5, <3>2, <3>3
      <3> QED BY <2>2, <3>1, <3>3, <3>4
    <2>9. Polled(fds', curr_index', conn')
      <3>1. Polled(g, P, conn)
        <4>1. conn \in [Clients -> {"none", "backlog", "open", "closed", "leaked"}]
          BY <1>1 DEF Polled
        <4> QED BY <2>2, <2>6, <2>7, <2>8, <4>1 DEF Polled, Fds
      <3> QED BY <1>1, <2>3, <3>1
    <2>10. P = N => \A i \in 1 .. N : g[i] # "-1"
      BY <2>2, SMTT(40)
    <2>11. Cursor'
      BY <1>1, <2>3, <2>10 DEF Cursor
    <2> QED BY <1>1, <2>9, <2>11 DEF TableInv
  <1> QED BY <1>2, <1>3, Zenon

\* loop().
LEMMA TableLoop ==
    ASSUME TableInv, loop
    PROVE  TableInv'
  <1>0. at \in Nat \ {0} /\ curr_index \in 1 .. max_fds /\ max_fds \in Nat
    BY ServerAssumption DEF TableInv, Cursor, Polled
  <1>1. CASE Poll
    <2>1. /\ UNCHANGED <<fds, curr_index, conn, backlog>> /\ pc = "poll" /\ pc' = "scan" /\ at' = 1
          /\ revents' = [i \in DOMAIN revents |->
                            IF i <= curr_index THEN Event(fds[i]) ELSE revents[i]]
      BY <1>1 DEF Poll, sockets
    <2>2. fds[1] = "listen" /\ 1 \in DOMAIN revents /\ DOMAIN revents = 1 .. max_fds
      BY <1>0 DEF TableInv, Polled, Cursor
    <2>3. revents'[1] = Event("listen")
      BY <1>0, <2>1, <2>2
    <2>4. Event("listen") = "in" => backlog # <<>>
      BY Zenon DEF Event
    <2>5. Cursor'
      BY <1>0, <2>1, <2>2, <2>3, <2>4 DEF TableInv, Cursor
    <2> QED BY <2>1, <2>5 DEF TableInv
  <1>2. CASE Skip
    BY <1>0, <1>2, Moving DEF Skip, table, sockets
  <1>3. CASE HangUp
    BY <1>3, Leaving DEF HangUp
  <1>4. CASE Accept
    BY <1>4, Accepting
  <1>5. CASE EndOfRound
    BY <1>5, Purging
  <1> QED BY <1>1, <1>2, <1>3, <1>4, <1>5 DEF loop

\* The clients: a connection is queued once, and one that the server still
\* has cannot be given up for another.
LEMMA TableClients ==
    ASSUME TableInv, Environment
    PROVE  TableInv'
  <1> PICK c \in Clients : \/ Connect(c) \/ Receive(c) \/ Leave(c) \/ Bounce(c) \/ GiveUp(c)
                           \/ \E m \in Requests : Send(c, m)
    BY Zenon DEF Environment
  <1>0. UNCHANGED <<fds, revents, curr_index, pc, at>>
    BY Zenon DEF Connect, Receive, Leave, Bounce, GiveUp, Send, table
  <1>1. Polled(fds, curr_index, conn) /\ Waiting(backlog, conn) /\ Cursor
    BY Zenon DEF TableInv
  <1>2. CASE Connect(c)
    <2>1. conn[c] = "none" /\ conn' = [conn EXCEPT ![c] = "backlog"] /\ backlog' = Append(backlog, c)
      BY <1>2, Zenon DEF Connect
    <2>2. /\ conn'[c] = "backlog" /\ \A d \in Clients : d # c => conn'[d] = conn[d]
          /\ conn' \in [Clients -> {"none", "backlog", "open", "closed", "leaked"}]
      BY <1>1, <2>1 DEF Polled
    <2>3. Polled(fds, curr_index, conn')
      BY <1>1, <2>1, <2>2, SMTT(40) DEF Polled
    <2> DEFINE b == Append(backlog, c)
               n == Len(backlog)
    <2>4. /\ b \in Seq(Clients) /\ n \in Nat /\ DOMAIN backlog = 1 .. n /\ DOMAIN b = 1 .. n + 1
          /\ b[n + 1] = c /\ \A i \in 1 .. n : b[i] = backlog[i] /\ backlog[i] \in Clients
      BY <1>1 DEF Waiting
    <2> HIDE DEF b, n
    <2>5. \A i \in 1 .. n : conn[backlog[i]] = "backlog" /\ backlog[i] # c
      BY <1>1, <2>1, <2>4, Zenon DEF Waiting
    <2>6. \A i \in 1 .. n + 1 : i = n + 1 \/ i \in 1 .. n
      BY <2>4
    <2>7. \A i \in DOMAIN b : conn'[b[i]] = "backlog"
      BY <2>2, <2>4, <2>5, <2>6, SMTT(40)
    <2>8. \A i, j \in DOMAIN b : b[i] = b[j] => i = j
      BY <1>1, <2>4, <2>5, <2>6 DEF Waiting
    <2>9. Waiting(b, conn') /\ b # <<>>
      BY <2>4, <2>7, <2>8 DEF Waiting
    <2>10. backlog' = b
      BY <2>1 DEF b
    <2> QED BY <1>0, <1>1, <2>3, <2>9, <2>10 DEF TableInv, Cursor
  <1>3. CASE GiveUp(c)
    <2>1. conn[c] \in {"closed", "leaked"} /\ conn' = [conn EXCEPT ![c] = "none"] /\ backlog' = backlog
      BY <1>3, Zenon DEF GiveUp
    <2>2. /\ conn'[c] = "none" /\ \A d \in Clients : d # c => conn'[d] = conn[d]
          /\ conn' \in [Clients -> {"none", "backlog", "open", "closed", "leaked"}]
      BY <1>1, <2>1 DEF Polled
    <2>3. Polled(fds, curr_index, conn')
      BY <1>1, <2>1, <2>2 DEF Polled
    <2>4. Waiting(backlog, conn')
      BY <1>1, <2>1, <2>2 DEF Waiting
    <2> QED BY <1>0, <1>1, <2>1, <2>3, <2>4 DEF TableInv, Cursor
  <1>4. CASE UNCHANGED <<conn, backlog>>
    BY <1>0, <1>1, <1>4, Zenon DEF TableInv, Cursor
  <1> QED BY <1>2, <1>3, <1>4, Zenon DEF Receive, Leave, Bounce, Send

\* Every step of the loop keeps the table in order.
LEMMA TableStep == TableInv /\ [NextServer]_serverVars => TableInv'
  <1> SUFFICES ASSUME TableInv, [NextServer]_serverVars PROVE TableInv'
    BY Zenon
  <1>1. CASE Restart
    <2>1. max_fds \in Nat /\ max_fds >= 2
      BY ServerAssumption
    <2>2. /\ fds' = NewTable /\ curr_index' = 1 /\ pc' = "poll" /\ at' = 1 /\ backlog' = <<>>
          /\ revents' = NoEvents
          /\ conn' = [c \in Clients |-> IF conn[c] = "none" THEN "none" ELSE "closed"]
      BY <1>1, Zenon DEF Restart
    <2>3. Polled(fds', curr_index', conn')
      <3>1. \A c \in Clients : conn'[c] # "open"
        BY <2>2, Zenon
      <3>2. conn' \in [Clients -> {"none", "backlog", "open", "closed", "leaked"}]
        BY <2>2, Zenon
      <3> QED BY <2>1, <2>2, <3>1, <3>2 DEF NewTable, Polled, Fds
    <2>4. Waiting(backlog', conn')
      BY <2>2 DEF Waiting
    <2>5. Cursor'
      BY <2>1, <2>2 DEF Cursor, NoEvents
    <2> QED BY <2>3, <2>4, <2>5, Zenon DEF TableInv
  <1>2. CASE UNCHANGED serverVars
    BY <1>2, Zenon DEF serverVars, TableInv, Cursor
  <1> QED BY <1>1, <1>2, TableProcess, TableLoop, TableClients, Zenon DEF NextServer, Server

\* Every connection the server has accepted and not closed is polled, in
\* exactly one slot, and no other descriptor is: for any number of clients and
\* slots, whatever slots are given up during a round, purged or not at its end.
THEOREM EveryClientIsPolled == ServerSpec => []EveryClientPolled
  <1>1. TableInv => EveryClientPolled
    <2> SUFFICES ASSUME TableInv PROVE EveryClientPolled
      BY Zenon
    <2>1. /\ Polled(fds, curr_index, conn) /\ curr_index \in Nat
          /\ \A i \in 1 .. curr_index : i = 1 \/ i \in 2 .. curr_index
      BY ServerAssumption DEF TableInv, Polled
    <2>2. ASSUME NEW c \in Clients
          PROVE  Cardinality({i \in 1 .. curr_index : fds[i] = c}) = IF conn[c] = "open" THEN 1 ELSE 0
      <3> DEFINE S == {i \in 1 .. curr_index : fds[i] = c}
      <3>0. \A i \in S : i \in 2 .. curr_index /\ fds[i] = c
        BY <2>1, ServerAssumption DEF Polled
      <3>1. CASE conn[c] = "open"
        <4>1. PICK i \in 2 .. curr_index : fds[i] = c
          BY <2>1, <3>1, Zenon DEF Polled
        <4>2. i \in S
          BY <2>1, <4>1
        <4>3. S = {i}
          BY <2>1, <3>0, <4>1, <4>2 DEF Polled
        <4> HIDE DEF S
        <4>4. Cardinality(S) = 1
          BY <4>3, FS_Singleton, Zenon
        <4> QED BY <3>1, <4>4, Zenon DEF S
      <3>2. CASE conn[c] # "open"
        <4>1. S = {}
          BY <2>1, <3>0, <3>2 DEF Polled
        <4> HIDE DEF S
        <4>2. Cardinality(S) = 0
          BY <4>1, FS_EmptySet, Zenon
        <4> QED BY <3>2, <4>2, Zenon DEF S
      <3> QED BY <3>1, <3>2, Zenon
    <2> QED BY <2>1, <2>2, Zenon DEF EveryClientPolled, Polled
  <1> QED BY <1>1, TableInit, TableStep, PTL DEF ServerSpec

\* Only accept turns a waiting connection away, and only with a full table.
LEMMA Refusing ==
    ASSUME TableInv, [NextServer]_serverVars, NEW c \in Clients, conn[c] = "backlog", conn'[c] = "closed",
           ~Restart
    PROVE  Accept /\ curr_index = max_fds
  <1>0. conn \in [Clients -> {"none", "backlog", "open", "closed", "leaked"}]
    BY Zenon DEF TableInv, Polled
  <1>1. ASSUME NEW s, at <= curr_index, here \in Clients, conn' = [conn EXCEPT ![here] = s]
        PROVE  FALSE
    <2>1. conn[here] = "open"
      BY <1>1, ClientSlot, Zenon
    <2> QED BY <1>0, <1>1, <2>1, Zenon
  <1>2. conn' # conn
    BY Zenon
  <1>3. ASSUME NEW r, Answer(here, r), at <= curr_index, here \in Clients PROVE FALSE
    BY <1>1, <1>2, <1>3, Zenon DEF Answer
  <1>4. ~process
    <2>1. CASE Write \/ Read \/ ReadBulk \/ Remove
      <3>1. at <= curr_index /\ here \in Clients
        BY <2>1, Zenon DEF Write, Read, ReadBulk, Remove, Request, readable
      <3>2. \E r : Answer(here, r)
        BY <2>1, Zenon DEF Write, Read, ReadBulk, Remove
      <3> QED BY <1>3, <3>1, <3>2, Zenon
    <2>2. CASE WriteBulkAck
      <3>1. at \in 2 .. curr_index /\ fds[at] \in Clients /\ curr_index \in 1 .. max_fds /\ max_fds \in Nat
        BY <2>2, ServerAssumption, Zenon DEF WriteBulkAck, TableInv, Cursor, Polled
      <3>2. at <= curr_index /\ here \in Clients
        BY <3>1 DEF here
      <3>3. \E r : Answer(here, r)
        BY <2>2, Zenon DEF WriteBulkAck
      <3> QED BY <1>3, <3>2, <3>3, Zenon
    <2>3. CASE Disconnected
      BY <1>1, <1>2, <2>3, Zenon DEF Disconnected, readable
    <2> QED BY <1>2, <2>1, <2>2, <2>3, Zenon DEF process, WriteBulk, WriteBulkNext, ReadTorn, sockets
  <1>5. ~Environment
    <2>1. ASSUME NEW d \in Clients, Connect(d) \/ GiveUp(d) PROVE FALSE
      BY <1>0, <2>1, Zenon DEF Connect, GiveUp
    <2> QED BY <1>2, <2>1, Zenon DEF Environment, Receive, Leave, Bounce, Send
  <1>6. ~(Poll \/ Skip \/ EndOfRound) /\ ~UNCHANGED serverVars
    BY <1>2, Zenon DEF Poll, Skip, EndOfRound, sockets, serverVars
  <1>7. ~HangUp
    BY <1>1, Zenon DEF HangUp
  <1>8. Accept
    BY <1>4, <1>5, <1>6, <1>7, Zenon DEF NextServer, Server, loop
  <1>9. CASE curr_index # max_fds
    <2>1. conn' = [conn EXCEPT ![Head(backlog)] = "open"]
      BY <1>8, <1>9, Zenon DEF Accept
    <2> QED BY <1>0, <2>1, Zenon
  <1> QED BY <1>8, <1>9, Zenon

\* A connection is turned away only while max_fds - 1 others are being served:
\* at the moment of accept a full table holds no slot that was given up, because
\* the previous round purged it.
THEOREM RefusesOnlyWhenFull == ServerSpec => RefusedOnlyWhenFull
  <1>1. ASSUME TableInv, [NextServer]_serverVars, NEW c \in Clients, conn[c] = "backlog", conn'[c] = "closed",
               ~Restart
        PROVE  Cardinality({d \in Clients : conn[d] = "open"}) = max_fds - 1
    <2> DEFINE N == max_fds
               Open == {d \in Clients : conn[d] = "open"}
               I == 2 .. N
               f == [i \in I |-> fds[i]]
    <2>1. Accept /\ curr_index = N /\ at = 1
      BY <1>1, Refusing, Accepting, Zenon
    <2>2. N \in Nat /\ N >= 2 /\ Polled(fds, N, conn) /\ \A i \in 1 .. N : fds[i] # "-1"
      BY <1>1, <2>1, ServerAssumption DEF Accept, TableInv, Cursor
    <2>3. \A i \in I : fds[i] \in Open
      BY <2>2 DEF Polled
    <2>4. \A i, j \in I : fds[i] = fds[j] => i = j
      BY <2>2, <2>3, Zenon DEF Polled
    <2>5. \A d \in Open : \E i \in I : fds[i] = d
      BY <2>2, Zenon DEF Polled
    <2>6. f \in Bijection(I, Open)
      <3> HIDE DEF I, Open
      <3> QED BY <2>3, <2>4, <2>5, Zenon DEF Bijection, Injection, Surjection, IsInjective
    <2>7. IsFiniteSet(I) /\ Cardinality(I) = N - 1
      BY <2>2, FS_Interval
    <2> HIDE DEF I, Open, f
    <2>8. Cardinality(Open) = Cardinality(I)
      BY <2>6, <2>7, FS_Bijection, Zenon DEF ExistsBijection
    <2> QED BY <2>7, <2>8, Zenon DEF Open
  <1>2. TableInv /\ [NextServer]_serverVars =>
           [\A c \in Clients :
               conn[c] = "backlog" /\ conn'[c] = "closed" /\ ~Restart
               => Cardinality({d \in Clients : conn[d] = "open"}) = max_fds - 1]_serverVars
    BY <1>1, Zenon
  <1> QED BY <1>2, TableInit, TableStep, PTL DEF ServerSpec, RefusedOnlyWhenFull
=============================================================================
