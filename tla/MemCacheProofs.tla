--------------------------- MODULE MemCacheProofs ---------------------------
(***************************************************************************)
(* Proofs about the slab cache for any set of slabs, any object size of at *)
(* least two bytes and any slab size the word can address.                 *)
(***************************************************************************)
EXTENDS MemCache, FiniteSetTheorems, SequenceTheorems, TLAPS

(***************************************************************************)
(* Index arithmetic.                                                       *)
(***************************************************************************)

LEMMA DivUnique ==
    ASSUME NEW a \in Nat, NEW b \in Nat, b > 0, NEW q \in Nat,
           q * b <= a, a < q * b + b
    PROVE  a \div b = q
<1> DEFINE d == a \div b
<1>1. d \in Nat /\ d * b <= a /\ a < d * b + b
  OBVIOUS
<1>2. CASE d < q
  <2>1. (d + 1) * b <= q * b
    BY <1>1, <1>2
  <2>2. (d + 1) * b = d * b + b
    BY <1>1
  <2> QED
    BY <2>1, <2>2, <1>1
<1>3. CASE d > q
  <2>1. (q + 1) * b <= d * b
    BY <1>1, <1>3
  <2>2. (q + 1) * b = q * b + b
    OBVIOUS
  <2> QED
    BY <2>1, <2>2, <1>1
<1> QED
  BY <1>1, <1>2, <1>3

\* obj_to_index undoes index_to_obj: the 32-bit reciprocal division is exact
\* for every index of a slab.
LEMMA IndexRoundTrip ==
    ASSUME NEW i \in Index
    PROVE  IndexToObj(i) = i * ObjSize /\ ObjToIndex(i * ObjSize) = i
<1> DEFINE k == ObjSize
           R == (Word + (k - 1)) \div k
<1> USE SizesAssumption
<1>0. i \in Nat /\ i < CacheSize /\ CacheSize \in Nat /\ k \in Nat /\ k >= 2 /\ Word \in Nat
  BY DEF Index
<1>1. i * k < CacheSize * k /\ i * k \in Nat
  BY <1>0
<1>2. i * k < Word
  BY <1>0, <1>1
<1>3. IndexToObj(i) = i * k
  BY <1>1, <1>2 DEF IndexToObj
<1>4. R \in Nat /\ Word <= R * k /\ R * k <= Word + (k - 1)
  BY <1>0
<1>5. R < Word
  <2>1. SUFFICES ASSUME R >= Word PROVE FALSE
    BY <1>4, <1>0
  <2>2. Word * k <= R * k
    BY <2>1, <1>4, <1>0
  <2>3. Word * 2 <= Word * k
    BY <1>0
  <2> QED
    BY <2>2, <2>3, <1>4, <1>0
<1>6. ReciprocalValue(k) = R
  BY <1>4, <1>5, <1>0 DEF ReciprocalValue
<1>7. (i * k) * R = i * (R * k)
  BY <1>0, <1>4
<1>8. i * Word <= (i * k) * R
  BY <1>7, <1>4, <1>0
<1>9. (i * k) * R < i * Word + Word
  <2>1. i * (R * k) <= i * (Word + (k - 1))
    BY <1>4, <1>0
  <2>2. i * (Word + (k - 1)) = i * Word + i * k - i
    BY <1>0
  <2> HIDE DEF R
  <2> QED
    BY <2>1, <2>2, <1>7, <1>2, <1>0, <1>1, <1>4
<1>10. (i * k) * R \in Nat
  BY <1>1, <1>4
<1>11. ((i * k) * R) \div Word = i
  <2> HIDE DEF R
  <2>1. Word > 0
    BY <1>0
  <2> QED
    BY <1>8, <1>9, <1>10, <1>0, <2>1, DivUnique
<1>12. i % Word = i
  <2>1. i < Word
    <3>1. i <= i * k
      BY <1>0
    <3> QED
      BY <3>1, <1>2, <1>1, <1>0
  <2> QED
    BY <2>1, <1>0
<1>13. ObjToIndex(i * k) = i
  BY <1>6, <1>11, <1>12 DEF ObjToIndex, ReciprocalDivide
<1> QED
  BY <1>3, <1>13

(***************************************************************************)
(* The chain of free objects.                                              *)
(***************************************************************************)

LEMMA ChainFresh ==
    ChainExists(CacheSize, 0, FreshCtl, Index)
<1> DEFINE f == [j \in 1 .. CacheSize |-> j - 1]
<1>1. f \in [1 .. CacheSize -> Index]
  BY SizesAssumption DEF Index
<1>2. IsChain(f, CacheSize, 0, FreshCtl, Index)
  <2>1. \A j \in 1 .. CacheSize - 1 : f[j + 1] = FreshCtl[f[j]]
    BY SizesAssumption DEF Index, FreshCtl
  <2>2. {f[j] : j \in 1 .. CacheSize} = Index
    <3>1. ASSUME NEW i \in Index PROVE i \in {f[j] : j \in 1 .. CacheSize}
      <4>1. i + 1 \in 1 .. CacheSize /\ f[i + 1] = i
        BY SizesAssumption DEF Index
      <4> QED
        BY <4>1
    <3> QED
      BY <3>1, <1>1
  <2>3. CacheSize > 0 => f[1] = 0
    BY SizesAssumption
  <2>4. \A j, k \in 1 .. CacheSize : f[j] = f[k] => j = k
    BY SizesAssumption
  <2> HIDE DEF f
  <2> QED
    BY <1>1, <2>1, <2>2, <2>3, <2>4 DEF IsChain
<1> QED
  BY <1>1, <1>2 DEF ChainExists

\* Taking the first object leaves the rest of the chain.
LEMMA ChainPop ==
    ASSUME NEW n \in Nat, n > 0, NEW first, NEW ctl, NEW free \in SUBSET Index,
           ChainExists(n, first, ctl, free)
    PROVE  /\ first \in free
           /\ ChainExists(n - 1, ctl[first], ctl, free \ {first})
<1>1. PICK f \in [1 .. n -> Index] : IsChain(f, n, first, ctl, free)
  BY DEF ChainExists
<1> DEFINE g == [j \in 1 .. n - 1 |-> f[j + 1]]
<1>2. g \in [1 .. n - 1 -> Index]
  BY <1>1
<1>3. f[1] = first /\ first \in free
  BY <1>1 DEF IsChain
<1>4. {g[j] : j \in 1 .. n - 1} = free \ {first}
  <2>1. ASSUME NEW j \in 1 .. n - 1 PROVE g[j] \in free \ {first}
    BY <1>1, <1>3 DEF IsChain
  <2>2. ASSUME NEW x \in free \ {first} PROVE \E j \in 1 .. n - 1 : g[j] = x
    <3>1. PICK k \in 1 .. n : f[k] = x
      BY <1>1, <2>2 DEF IsChain
    <3>2. k # 1
      BY <3>1, <1>3
    <3>3. k - 1 \in 1 .. n - 1 /\ g[k - 1] = x
      BY <3>1, <3>2
    <3> QED
      BY <3>3
  <2> QED
    BY <2>1, <2>2
<1>5. n - 1 > 0 => g[1] = ctl[first]
  BY <1>1, <1>3 DEF IsChain
<1>6. \A j \in 1 .. (n - 1) - 1 : g[j + 1] = ctl[g[j]]
  BY <1>1 DEF IsChain
<1>7. \A j, k \in 1 .. n - 1 : g[j] = g[k] => j = k
  BY <1>1 DEF IsChain
<1>8. IsChain(g, n - 1, ctl[first], ctl, free \ {first})
  BY <1>2, <1>4, <1>5, <1>6, <1>7 DEF IsChain
<1> QED
  BY <1>2, <1>3, <1>8 DEF ChainExists

\* Giving an object back puts it in front of the chain.
LEMMA ChainPush ==
    ASSUME NEW n \in Nat, NEW first, NEW ctl \in [Index -> 0 .. CacheSize],
           NEW free \in SUBSET Index, ChainExists(n, first, ctl, free),
           NEW i \in Index \ free
    PROVE  ChainExists(n + 1, i, [ctl EXCEPT ![i] = first], free \cup {i})
<1>1. PICK f \in [1 .. n -> Index] : IsChain(f, n, first, ctl, free)
  BY DEF ChainExists
<1> DEFINE g == [j \in 1 .. n + 1 |-> IF j = 1 THEN i ELSE f[j - 1]]
           c == [ctl EXCEPT ![i] = first]
<1>2. g \in [1 .. n + 1 -> Index]
  BY <1>1
<1>3. \A j \in 1 .. n : f[j] \in free /\ f[j] # i
  BY <1>1 DEF IsChain
<1>4. {g[j] : j \in 1 .. n + 1} = free \cup {i}
  <2>1. ASSUME NEW j \in 1 .. n + 1 PROVE g[j] \in free \cup {i}
    BY <1>3
  <2>2. ASSUME NEW x \in free \cup {i} PROVE \E j \in 1 .. n + 1 : g[j] = x
    <3>1. CASE x = i
      BY <3>1
    <3>2. CASE x # i
      <4>1. PICK k \in 1 .. n : f[k] = x
        BY <1>1, <2>2, <3>2 DEF IsChain
      <4>2. k + 1 \in 1 .. n + 1 /\ g[k + 1] = x
        BY <4>1
      <4> QED
        BY <4>2
    <3> QED
      BY <3>1, <3>2
  <2> QED
    BY <2>1, <2>2
<1>5. \A j \in 1 .. (n + 1) - 1 : g[j + 1] = c[g[j]]
  <2>1. TAKE j \in 1 .. (n + 1) - 1
  <2>2. CASE j = 1
    BY <2>2, <1>1 DEF IsChain
  <2>3. CASE j # 1
    <3>1. j - 1 \in 1 .. n - 1 /\ g[j] = f[j - 1] /\ g[j + 1] = f[(j - 1) + 1]
      BY <2>3
    <3>2. f[(j - 1) + 1] = ctl[f[j - 1]]
      BY <3>1, <1>1 DEF IsChain
    <3>3. f[j - 1] # i /\ f[j - 1] \in Index
      BY <3>1, <1>3
    <3> QED
      BY <3>1, <3>2, <3>3
  <2> QED
    BY <2>2, <2>3
<1>6. \A j, k \in 1 .. n + 1 : g[j] = g[k] => j = k
  <2>1. TAKE j, k \in 1 .. n + 1
  <2>2. CASE j = 1 /\ k # 1
    BY <2>2, <1>3
  <2>3. CASE j # 1 /\ k = 1
    BY <2>3, <1>3
  <2>4. CASE j # 1 /\ k # 1
    <3>1. j - 1 \in 1 .. n /\ k - 1 \in 1 .. n
      BY <2>4
    <3>2. f[j - 1] = f[k - 1] => j - 1 = k - 1
      BY <3>1, <1>1 DEF IsChain
    <3> QED
      BY <3>1, <3>2, <2>4
  <2> QED
    BY <2>2, <2>3, <2>4
<1>7. IsChain(g, n + 1, i, c, free \cup {i})
  BY <1>2, <1>4, <1>5, <1>6 DEF IsChain
<1> QED
  BY <1>2, <1>7 DEF ChainExists

\* A chain as long as the slab visits every index: nothing of it is held.
LEMMA ChainFull ==
    ASSUME NEW first, NEW ctl, NEW free,
           ChainExists(CacheSize, first, ctl, free)
    PROVE  free = Index
<1>1. PICK f \in [1 .. CacheSize -> Index] :
         IsChain(f, CacheSize, first, ctl, free)
  BY DEF ChainExists
<1>2. f \in Injection(1 .. CacheSize, Index)
  BY <1>1 DEF IsChain, Injection, IsInjective
<1>3. /\ IsFiniteSet(Index) /\ Cardinality(Index) = CacheSize
      /\ Cardinality(1 .. CacheSize) = CacheSize
  <2>1. IsFiniteSet(0 .. CacheSize - 1)
    BY SizesAssumption, FS_Interval
  <2>2. Cardinality(0 .. CacheSize - 1) =
           IF 0 > CacheSize - 1 THEN 0 ELSE (CacheSize - 1) - 0 + 1
    BY SizesAssumption, FS_Interval
  <2>3. Cardinality(1 .. CacheSize) =
           IF 1 > CacheSize THEN 0 ELSE CacheSize - 1 + 1
    BY SizesAssumption, FS_Interval
  <2> QED
    BY <2>1, <2>2, <2>3, SizesAssumption DEF Index
<1>4. f \in Surjection(1 .. CacheSize, Index)
  BY <1>2, <1>3, FS_Injection
<1>5. \A i \in Index : \E j \in 1 .. CacheSize : f[j] = i
  BY <1>4 DEF Surjection
<1>6. free = {f[j] : j \in 1 .. CacheSize}
  BY <1>1 DEF IsChain
<1>7. \A j \in 1 .. CacheSize : f[j] \in Index
  BY <1>1
<1> QED
  BY <1>5, <1>6, <1>7

(***************************************************************************)
(* The list of slabs.                                                      *)
(***************************************************************************)

LEMMA Prepend ==
    ASSUME NEW S, NEW q \in Seq(S), NEW e \in S, e \notin ToSet(q),
           IsInjective(q)
    PROVE  LET r == <<e>> \o q
           IN /\ r \in Seq(S) /\ r # <<>> /\ Head(r) = e
              /\ DOMAIN r = 1 .. Len(q) + 1
              /\ r[1] = e /\ \A j \in DOMAIN r : j # 1 => r[j] = q[j - 1]
              /\ ToSet(r) = ToSet(q) \cup {e}
              /\ IsInjective(r)
<1> DEFINE r == <<e>> \o q
<1>1. /\ r \in Seq(S) /\ r # <<>> /\ Head(r) = e
      /\ DOMAIN r = 1 .. Len(q) + 1 /\ DOMAIN q = 1 .. Len(q) /\ Len(q) \in Nat
      /\ r[1] = e /\ \A j \in DOMAIN r : j # 1 => r[j] = q[j - 1]
  OBVIOUS
<1> HIDE DEF r
<1>2. ToSet(r) = ToSet(q) \cup {e}
  <2>1. ASSUME NEW x \in ToSet(q) PROVE x \in ToSet(r)
    <3>1. PICK j \in 1 .. Len(q) : q[j] = x
      BY <1>1 DEF ToSet
    <3>2. j + 1 \in DOMAIN r /\ r[j + 1] = x
      BY <1>1, <3>1
    <3> QED
      BY <3>2 DEF ToSet
  <2>2. ASSUME NEW x \in ToSet(r), x # e PROVE x \in ToSet(q)
    <3>1. PICK j \in DOMAIN r : r[j] = x
      BY DEF ToSet
    <3>2. j - 1 \in DOMAIN q /\ q[j - 1] = x
      BY <1>1, <3>1, <2>2
    <3> QED
      BY <3>2 DEF ToSet
  <2>3. e \in ToSet(r)
    BY <1>1 DEF ToSet
  <2> QED
    BY <2>1, <2>2, <2>3
<1>3. IsInjective(r)
  <2>1. \A j \in 1 .. Len(q) : q[j] # e
    BY <1>1 DEF ToSet
  <2> QED
    BY <1>1, <2>1 DEF IsInjective
<1> QED
  BY <1>1, <1>2, <1>3 DEF r

LEMMA Unlink ==
    ASSUME NEW S, NEW q \in Seq(S), NEW p \in DOMAIN q, IsInjective(q)
    PROVE  LET r == RemoveAt(q, p)
           IN /\ r \in Seq(S)
              /\ ToSet(r) = ToSet(q) \ {q[p]}
              /\ IsInjective(r)
              /\ DOMAIN r \subseteq DOMAIN q
<1> DEFINE r == RemoveAt(q, p)
<1>0. DOMAIN q = 1 .. Len(q) /\ Len(q) \in Nat /\ p \in 1 .. Len(q)
  OBVIOUS
<1>1. /\ r \in Seq(S) /\ DOMAIN r = 1 .. Len(q) - 1
      /\ \A j \in 1 .. Len(q) - 1 : r[j] = IF j < p THEN q[j] ELSE q[j + 1]
  <2> DEFINE a == SubSeq(q, 1, p - 1)
             b == SubSeq(q, p + 1, Len(q))
  <2>1. a \in Seq(S) /\ Len(a) = p - 1 /\ \A j \in 1 .. p - 1 : a[j] = q[j]
    BY <1>0
  <2>2. /\ b \in Seq(S) /\ Len(b) = Len(q) - p
        /\ \A j \in 1 .. Len(q) - p : b[j] = q[p + j]
    BY <1>0
  <2>3. r = a \o b
    BY DEF RemoveAt
  <2> HIDE DEF a, b, r
  <2>4. r \in Seq(S) /\ Len(r) = Len(q) - 1
    <3>1. a \o b \in Seq(S) /\ Len(a \o b) = Len(a) + Len(b)
      BY <2>1, <2>2, ConcatProperties
    <3>2. (p - 1) + (Len(q) - p) = Len(q) - 1
      BY <1>0
    <3> QED
      BY <2>1, <2>2, <2>3, <3>1, <3>2
  <2>5. \A j \in 1 .. Len(q) - 1 : r[j] = IF j < p THEN a[j] ELSE b[j - (p - 1)]
    BY <2>1, <2>2, <2>3, <1>0
  <2>6. ASSUME NEW j \in 1 .. Len(q) - 1, j >= p
        PROVE  j - (p - 1) \in 1 .. Len(q) - p /\ p + (j - (p - 1)) = j + 1
    BY <1>0, <2>6
  <2>7. ASSUME NEW j \in 1 .. Len(q) - 1
        PROVE  r[j] = IF j < p THEN q[j] ELSE q[j + 1]
    <3>1. CASE j < p
      BY <3>1, <2>1, <2>5, <1>0
    <3>2. CASE j >= p
      <4>1. r[j] = b[j - (p - 1)]
        BY <3>2, <2>5, <1>0
      <4>2. b[j - (p - 1)] = q[p + (j - (p - 1))]
        BY <3>2, <2>2, <2>6
      <4> QED
        BY <3>2, <4>1, <4>2, <2>6, <1>0
    <3> QED
      BY <3>1, <3>2, <1>0
  <2> QED
    BY <2>4, <2>7
<1> HIDE DEF r
<1>2. ToSet(r) = ToSet(q) \ {q[p]}
  <2>1. ASSUME NEW x \in ToSet(r) PROVE x \in ToSet(q) \ {q[p]}
    <3>1. PICK j \in 1 .. Len(q) - 1 : r[j] = x
      BY <1>1 DEF ToSet
    <3>2. CASE j < p
      <4>1. j \in DOMAIN q /\ q[j] = x /\ j # p
        BY <3>1, <3>2, <1>0, <1>1
      <4> QED
        BY <4>1 DEF ToSet, IsInjective
    <3>3. CASE ~(j < p)
      <4>1. j + 1 \in DOMAIN q /\ q[j + 1] = x /\ j + 1 # p
        BY <3>1, <3>3, <1>0, <1>1
      <4> QED
        BY <4>1 DEF ToSet, IsInjective
    <3> QED
      BY <3>2, <3>3
  <2>2. ASSUME NEW x \in ToSet(q) \ {q[p]} PROVE x \in ToSet(r)
    <3>1. PICK j \in 1 .. Len(q) : q[j] = x /\ j # p
      BY <1>0 DEF ToSet
    <3>2. CASE j < p
      <4>1. j \in DOMAIN r /\ r[j] = x
        BY <3>1, <3>2, <1>0, <1>1
      <4> QED
        BY <4>1 DEF ToSet
    <3>3. CASE j > p
      <4>1. j - 1 \in DOMAIN r /\ r[j - 1] = x
        BY <3>1, <3>3, <1>0, <1>1
      <4> QED
        BY <4>1 DEF ToSet
    <3> QED
      BY <3>1, <3>2, <3>3, <1>0
  <2> QED
    BY <2>1, <2>2
<1>3. IsInjective(r)
  BY <1>0, <1>1 DEF IsInjective
<1> QED
  BY <1>0, <1>1, <1>2, <1>3 DEF r

(***************************************************************************)
(* The inductive invariant.  What a caller sees (LiveBacked, one growth is *)
(* enough) rests on the chain of every slab being exact, on no slab being  *)
(* in two places, and on no slab staying empty in the list.                *)
(***************************************************************************)

MemCacheInv ==
    /\ TypeOK
    /\ FreeChainSound
    /\ LiveBacked
    /\ GrowthMakesRoom
    /\ SlabsAccounted
    /\ NoIdleSlab

LEMMA Offsets ==
    ASSUME NEW i \in Index
    PROVE  /\ i * ObjSize \in 0 .. Word - 1
           /\ i * ObjSize + ObjSize <= SlabBytes
           /\ \A j \in Index : i # j =>
                \/ i * ObjSize + ObjSize <= j * ObjSize
                \/ j * ObjSize + ObjSize <= i * ObjSize
<1> USE SizesAssumption
<1> DEFINE k == ObjSize
<1>1. ASSUME NEW a \in Nat, NEW b \in Nat, a < b
      PROVE  a * k + k <= b * k
  <2>1. (a + 1) * k <= b * k
    BY <1>1
  <2>2. (a + 1) * k = a * k + k
    OBVIOUS
  <2> QED
    BY <2>1, <2>2
<1>2. i \in Nat /\ i < CacheSize
  BY DEF Index
<1>3. i * k + k <= CacheSize * k /\ i * k \in Nat /\ CacheSize * k \in Nat
  BY <1>1, <1>2
<1>4. \A j \in Index : i # j => i * k + k <= j * k \/ j * k + k <= i * k
  BY <1>1 DEF Index
<1> QED
  BY <1>3, <1>4 DEF SlabBytes

LEMMA OffsetInjective ==
    ASSUME NEW i \in Index, NEW j \in Index, i * ObjSize = j * ObjSize
    PROVE  i = j
  BY IndexRoundTrip

\* The chain of a slab that a step does not touch.
LEMMA ChainKept ==
    ASSUME NEW s \in Slab, HasFreeChain(s),
           inuse'[s] = inuse[s], obj_free'[s] = obj_free[s],
           obj_ctl'[s] = obj_ctl[s], Used(s)' = Used(s)
    PROVE  HasFreeChain(s)'
  BY DEF HasFreeChain

LEMMA InitInv == Init => MemCacheInv
<1> SUFFICES ASSUME Init PROVE MemCacheInv
  OBVIOUS
<1> USE SizesAssumption DEF Init
<1>1. Listed = {}
  BY DEF Listed, ToSet
<1>2. TypeOK
  <2>1. obj_ctl \in [Slab -> [Index -> 0 .. CacheSize]]
    BY DEF Index
  <2>2. list \in Seq(Slab) /\ 0 \in 0 .. CacheSize /\ live \subseteq Object
    OBVIOUS
  <2> QED
    BY <2>1, <2>2 DEF TypeOK
<1>3. FreeChainSound
  BY <1>1 DEF FreeChainSound
<1>4. LiveBacked /\ GrowthMakesRoom /\ NoIdleSlab
  BY DEF LiveBacked, GrowthMakesRoom, NoIdleSlab
<1>5. SlabsAccounted
  BY <1>1 DEF SlabsAccounted, IsInjective
<1> QED
  BY <1>2, <1>3, <1>4, <1>5 DEF MemCacheInv

\* The object mem_cache_alloc hands out is one the caller does not hold.
LEMMA TakeObjectIsFree ==
    ASSUME MemCacheInv, NEW p \in DOMAIN list, HasRoom(list[p])
    PROVE  LET s   == list[p]
               idx == obj_free[s]
           IN /\ s \in Slab /\ s \in Listed
              /\ idx \in Index \ Used(s)
              /\ IndexToObj(idx) = idx * ObjSize
              /\ ChainExists(CacheSize - (inuse[s] + 1), obj_ctl[s][idx],
                             obj_ctl[s], (Index \ Used(s)) \ {idx})
<1> DEFINE s == list[p]
<1>1. s \in Slab /\ s \in Listed
  BY DEF MemCacheInv, TypeOK, Listed, ToSet
<1>2. HasFreeChain(s)
  BY <1>1 DEF MemCacheInv, FreeChainSound
<1>3. inuse[s] \in 0 .. CacheSize /\ inuse[s] < CacheSize
  BY <1>1 DEF MemCacheInv, TypeOK, HasRoom
<1> DEFINE n == CacheSize - inuse[s]
<1>4. n \in Nat /\ n > 0 /\ n - 1 = CacheSize - (inuse[s] + 1)
  BY <1>3, SizesAssumption
<1>5. ChainExists(n, obj_free[s], obj_ctl[s], Index \ Used(s))
  BY <1>2 DEF HasFreeChain
<1> HIDE DEF n
<1>6. /\ obj_free[s] \in Index \ Used(s)
      /\ ChainExists(n - 1, obj_ctl[s][obj_free[s]], obj_ctl[s],
                     (Index \ Used(s)) \ {obj_free[s]})
  BY <1>4, <1>5, ChainPop
<1>7. IndexToObj(obj_free[s]) = obj_free[s] * ObjSize
  BY <1>6, IndexRoundTrip
<1> QED
  BY <1>1, <1>4, <1>6, <1>7

LEMMA TakeObjectInv ==
    ASSUME MemCacheInv, TakeObject
    PROVE  MemCacheInv'
<1>1. PICK p \in DOMAIN list :
         /\ FirstWithRoom(p)
         /\ LET s   == list[p]
                idx == obj_free[s]
            IN /\ live' = live \cup {<<s, IndexToObj(idx)>>}
               /\ obj_free' = [obj_free EXCEPT ![s] = obj_ctl[s][idx]]
               /\ inuse' = [inuse EXCEPT ![s] = @ + 1]
  BY DEF TakeObject
<1>2. UNCHANGED <<open, list, wait_for_free, obj_ctl, heap, lost>> /\ pc' = "idle" /\ rc' = 0
  BY DEF TakeObject
<1>3. PICK s \in Slab, idx \in Index : s = list[p] /\ idx = obj_free[s] /\ idx \notin Used(s)
  BY <1>1, TakeObjectIsFree DEF FirstWithRoom
<1>4. /\ s \in Listed
      /\ IndexToObj(idx) = idx * ObjSize
      /\ ChainExists(CacheSize - (inuse[s] + 1), obj_ctl[s][idx], obj_ctl[s],
                     (Index \ Used(s)) \ {idx})
      /\ live' = live \cup {<<s, idx * ObjSize>>}
      /\ obj_free' = [obj_free EXCEPT ![s] = obj_ctl[s][idx]]
      /\ inuse' = [inuse EXCEPT ![s] = @ + 1]
  BY <1>1, <1>3, TakeObjectIsFree DEF FirstWithRoom
<1>5. TypeOK /\ inuse[s] < CacheSize /\ inuse[s] \in Nat
  BY <1>1, <1>3 DEF MemCacheInv, FirstWithRoom, HasRoom, TypeOK
<1>6. TypeOK'
  <2>1. <<s, idx * ObjSize>> \in Object
    BY <1>3, Offsets DEF Object
  <2>2. obj_ctl[s][idx] \in 0 .. CacheSize
    BY <1>3, <1>5 DEF TypeOK
  <2>3. inuse[s] + 1 \in 0 .. CacheSize
    BY <1>5, SizesAssumption
  <2> QED
    BY <1>2, <1>3, <1>4, <1>5, <2>1, <2>2, <2>3 DEF TypeOK
<1>7. Used(s)' = Used(s) \cup {idx}
  BY <1>3, <1>4, OffsetInjective DEF Used
<1>8. ASSUME NEW t \in Slab, t # s, HasFreeChain(t) PROVE HasFreeChain(t)'
  <2>1. Used(t)' = Used(t)
    BY <1>4, <1>8 DEF Used
  <2>2. inuse'[t] = inuse[t] /\ obj_free'[t] = obj_free[t] /\ obj_ctl'[t] = obj_ctl[t]
    BY <1>2, <1>4, <1>5, <1>8 DEF TypeOK
  <2> QED
    BY <1>8, <2>1, <2>2, ChainKept
<1>9. HasFreeChain(s)'
  <2>1. inuse'[s] = inuse[s] + 1 /\ obj_free'[s] = obj_ctl[s][idx] /\ obj_ctl'[s] = obj_ctl[s]
    BY <1>2, <1>3, <1>4, <1>5 DEF TypeOK
  <2>2. (Index \ Used(s)) \ {idx} = Index \ Used(s)'
    BY <1>7
  <2> QED
    BY <1>4, <2>1, <2>2 DEF HasFreeChain
<1>10. Listed' = Listed /\ Listed \subseteq Slab
  BY <1>2, <1>5 DEF Listed, ToSet, TypeOK
<1>11. FreeChainSound'
  BY <1>2, <1>5, <1>8, <1>9, <1>10 DEF MemCacheInv, FreeChainSound, TypeOK
<1>12. LiveBacked'
  BY <1>3, <1>4, <1>10 DEF MemCacheInv, LiveBacked
<1>13. GrowthMakesRoom'
  BY <1>2 DEF GrowthMakesRoom
<1>14. SlabsAccounted'
  BY <1>2, <1>10 DEF MemCacheInv, SlabsAccounted
<1>15. NoIdleSlab'
  <2>1. ASSUME NEW q \in DOMAIN list PROVE inuse'[list[q]] # 0
    <3>1. CASE list[q] = s
      BY <3>1, <1>3, <1>4, <1>5 DEF TypeOK
    <3>2. CASE list[q] # s
      <4>1. inuse'[list[q]] = inuse[list[q]]
        BY <3>2, <1>4, <1>5 DEF TypeOK
      <4>2. inuse[list[q]] = 0 => q = 1 /\ pc = "rescan"
        BY DEF MemCacheInv, NoIdleSlab
      <4>3. pc = "rescan" => list # <<>> /\ HasRoom(list[1])
        BY <1>5 DEF MemCacheInv, GrowthMakesRoom, TypeOK
      <4>4. HasRoom(list[1]) => p = 1
        BY <1>1, <1>5 DEF FirstWithRoom, TypeOK
      <4> QED
        BY <3>2, <1>3, <4>1, <4>2, <4>3, <4>4
    <3> QED
      BY <3>1, <3>2
  <2>2. wait_for_free # NULL => inuse'[wait_for_free] = 0
    BY <1>3, <1>4, <1>5 DEF MemCacheInv, NoIdleSlab, SlabsAccounted, TypeOK
  <2> QED
    BY <1>2, <2>1, <2>2 DEF NoIdleSlab
<1> QED
  BY <1>6, <1>11, <1>12, <1>13, <1>14, <1>15 DEF MemCacheInv

\* A slab put in front of the list, when every slab in it is full.
LEMMA GrowInv ==
    ASSUME MemCacheInv, NoRoom, CacheSize > 0, open = TRUE, open' = TRUE,
           NEW s \in Slab, s \notin Listed, s \notin lost,
           list' = <<s>> \o list, wait_for_free' = NULL, pc' = "rescan",
           heap' = heap \cup {s}, wait_for_free \in {s, NULL},
           UNCHANGED <<live, lost, rc>>, TypeOK',
           inuse'[s] = 0, HasFreeChain(s)',
           \A t \in Listed : inuse'[t] = inuse[t] /\ HasFreeChain(t)'
    PROVE  MemCacheInv'
<1>1. list \in Seq(Slab) /\ IsInjective(list) /\ s \notin ToSet(list)
  BY DEF MemCacheInv, TypeOK, SlabsAccounted, Listed
<1>2. /\ list' # <<>> /\ Head(list') = s
      /\ DOMAIN list' = 1 .. Len(list) + 1 /\ Len(list) \in Nat
      /\ DOMAIN list = 1 .. Len(list)
      /\ list'[1] = s /\ \A j \in DOMAIN list' : j # 1 => list'[j] = list[j - 1]
      /\ Listed' = Listed \cup {s}
      /\ IsInjective(list')
  BY <1>1, Prepend DEF Listed
<1>3. FreeChainSound'
  BY <1>2 DEF FreeChainSound
<1>4. LiveBacked'
  BY <1>2 DEF MemCacheInv, LiveBacked
<1>5. GrowthMakesRoom'
  BY <1>2, SizesAssumption DEF GrowthMakesRoom, HasRoom
<1>6. SlabsAccounted'
  BY <1>2, NullAssumption DEF MemCacheInv, SlabsAccounted, TypeOK
<1>7. NoIdleSlab'
  <2>1. ASSUME NEW q \in DOMAIN list', q # 1 PROVE inuse'[list'[q]] # 0
    <3>1. q - 1 \in DOMAIN list /\ list'[q] = list[q - 1]
      BY <1>2, <2>1
    <3>2. list[q - 1] \in Listed /\ ~HasRoom(list[q - 1])
      BY <3>1 DEF NoRoom, Listed, ToSet
    <3>3. inuse[list[q - 1]] \in 0 .. CacheSize
      BY <1>1, <3>1 DEF MemCacheInv, TypeOK
    <3> QED
      BY <3>1, <3>2, <3>3, SizesAssumption DEF HasRoom
  <2> QED
    BY <2>1 DEF NoIdleSlab
<1> QED
  BY <1>3, <1>4, <1>5, <1>6, <1>7 DEF MemCacheInv

LEMMA GrowFromReserveInv ==
    ASSUME MemCacheInv, GrowFromReserve, CacheSize > 0
    PROVE  MemCacheInv'
<1> USE DEF GrowFromReserve, LinkFirst
<1>1. PICK s \in Slab : s = wait_for_free
  BY DEF MemCacheInv, TypeOK
<1>2. TypeOK'
  <2>1. <<s>> \o list \in Seq(Slab)
    BY <1>1 DEF MemCacheInv, TypeOK
  <2> QED
    BY <1>1, <2>1 DEF MemCacheInv, TypeOK
<1>3. s \notin Listed /\ s \notin lost /\ heap' = heap \cup {s}
  BY <1>1 DEF MemCacheInv, SlabsAccounted
<1>4. inuse'[s] = 0 /\ HasFreeChain(s)
  BY <1>1 DEF MemCacheInv, NoIdleSlab, FreeChainSound
<1>5. ASSUME NEW t \in Slab, HasFreeChain(t) PROVE HasFreeChain(t)'
  BY <1>5, ChainKept DEF Used
<1>6. \A t \in Listed : t \in Slab /\ HasFreeChain(t)
  BY DEF MemCacheInv, FreeChainSound, TypeOK, Listed, ToSet
<1>7. \A t \in Listed : inuse'[t] = inuse[t] /\ HasFreeChain(t)'
  BY <1>5, <1>6
<1> QED
  BY <1>1, <1>2, <1>3, <1>4, <1>5, <1>7, GrowInv

LEMMA GrowFromHeapInv ==
    ASSUME MemCacheInv, NEW s \in Slab, GrowFromHeap(s), CacheSize > 0
    PROVE  MemCacheInv'
<1> USE DEF GrowFromHeap, LinkFirst, FreshCtl
<1>1. TypeOK'
  <2>1. <<s>> \o list \in Seq(Slab)
    BY DEF MemCacheInv, TypeOK
  <2>2. [i \in Index |-> i + 1] \in [Index -> 0 .. CacheSize] /\ 0 \in 0 .. CacheSize
    BY SizesAssumption DEF Index
  <2> QED
    BY <2>1, <2>2 DEF MemCacheInv, TypeOK
<1>2. s \notin Listed /\ s \notin lost
  BY DEF MemCacheInv, SlabsAccounted
<1>3. /\ inuse'[s] = 0 /\ obj_free'[s] = 0
      /\ obj_ctl'[s] = FreshCtl
  BY DEF MemCacheInv, TypeOK
<1>4. HasFreeChain(s)'
  <2>1. Used(s)' = {}
    BY <1>2 DEF MemCacheInv, LiveBacked, Used
  <2> QED
    BY <1>3, <2>1, ChainFresh, SizesAssumption DEF HasFreeChain
<1>5. ASSUME NEW t \in Slab, t # s, HasFreeChain(t) PROVE HasFreeChain(t)'
  <2>1. inuse'[t] = inuse[t] /\ obj_free'[t] = obj_free[t] /\ obj_ctl'[t] = obj_ctl[t]
    BY <1>5 DEF MemCacheInv, TypeOK
  <2> QED
    BY <1>5, <2>1, ChainKept DEF Used
<1>6. \A t \in Listed : t \in Slab /\ HasFreeChain(t) /\ t # s
  BY <1>2 DEF MemCacheInv, FreeChainSound, TypeOK, Listed, ToSet
<1>7. \A t \in Listed : inuse'[t] = inuse[t] /\ HasFreeChain(t)'
  BY <1>5, <1>6 DEF MemCacheInv, TypeOK
<1> QED
  BY <1>1, <1>2, <1>3, <1>4, <1>7, GrowInv

\* A call that leaves the slabs, their chains and the live objects alone.
LEMMA QuietInv ==
    ASSUME MemCacheInv, TypeOK',
           UNCHANGED <<list, wait_for_free, inuse, obj_free, obj_ctl, live>>,
           pc' = pc \/ pc' = "idle", wait_for_free = NULL \/ pc' = pc,
           pc = "rescan" /\ pc' = "idle" => NoRoom,
           CacheSize > 0, SlabsAccounted'
    PROVE  MemCacheInv'
<1>1. FreeChainSound'
  <2>1. ASSUME NEW t \in Slab, HasFreeChain(t) PROVE HasFreeChain(t)'
    BY <2>1, ChainKept DEF Used
  <2> QED
    BY <2>1 DEF MemCacheInv, FreeChainSound, Listed, ToSet, TypeOK
<1>2. LiveBacked'
  BY DEF MemCacheInv, LiveBacked, Listed
<1>3. GrowthMakesRoom'
  BY DEF MemCacheInv, GrowthMakesRoom, HasRoom
<1>4. NoIdleSlab'
  <2>1. ASSUME pc = "rescan", pc' = "idle", NEW q \in DOMAIN list PROVE inuse[list[q]] # 0
    BY <2>1, SizesAssumption DEF NoRoom, HasRoom
  <2> QED
    BY <2>1 DEF MemCacheInv, NoIdleSlab
<1> QED
  BY <1>1, <1>2, <1>3, <1>4 DEF MemCacheInv

LEMMA GrowFailsInv ==
    ASSUME MemCacheInv, GrowFails, CacheSize > 0
    PROVE  MemCacheInv'
<1>1. TypeOK'
  BY DEF MemCacheInv, TypeOK, GrowFails
<1>2. SlabsAccounted'
  <2>1. CASE UNCHANGED <<heap, lost>>
    BY <2>1 DEF MemCacheInv, SlabsAccounted, GrowFails, Listed
  <2>2. CASE \E s \in Slab \ heap : heap' = heap \cup {s} /\ lost' = lost \cup {s}
    <3>1. PICK s \in Slab \ heap : heap' = heap \cup {s} /\ lost' = lost \cup {s}
      BY <2>2
    <3>2. Listed' = Listed /\ wait_for_free' = NULL /\ list' = list /\ open /\ open' = open
      BY DEF GrowFails, Listed
    <3>3. s \notin Listed /\ s # NULL
      BY <3>1, NullAssumption DEF MemCacheInv, SlabsAccounted
    <3> QED
      BY <3>1, <3>2, <3>3 DEF MemCacheInv, SlabsAccounted, GrowFails
  <2> QED
    BY <2>1, <2>2 DEF GrowFails
<1> QED
  BY <1>1, <1>2, QuietInv DEF GrowFails

LEMMA CreateInv ==
    ASSUME MemCacheInv, Create, CacheSize > 0
    PROVE  MemCacheInv'
<1>1. TypeOK'
  BY DEF MemCacheInv, TypeOK, Create
<1>2. SlabsAccounted'
  BY DEF MemCacheInv, SlabsAccounted, Create, Listed
<1> QED
  BY <1>1, <1>2, QuietInv DEF Create, MemCacheInv, TypeOK

LEMMA FreeRefusedInv ==
    ASSUME MemCacheInv, NEW o, FreeRefused(o), CacheSize > 0
    PROVE  MemCacheInv'
<1>1. TypeOK'
  BY DEF MemCacheInv, TypeOK, FreeRefused
<1>2. SlabsAccounted'
  BY DEF MemCacheInv, SlabsAccounted, FreeRefused, Listed
<1> QED
  BY <1>1, <1>2, QuietInv DEF FreeRefused

LEMMA DestroyInv ==
    ASSUME MemCacheInv, Destroy
    PROVE  MemCacheInv'
<1> USE DEF Destroy
<1>1. Listed' = {}
  BY DEF Listed, ToSet
<1>2. TypeOK'
  <2>1. <<>> \in Seq(Slab)
    OBVIOUS
  <2> QED
    BY <2>1 DEF MemCacheInv, TypeOK
<1>3. FreeChainSound' /\ LiveBacked' /\ GrowthMakesRoom' /\ NoIdleSlab'
  BY <1>1 DEF FreeChainSound, LiveBacked, GrowthMakesRoom, NoIdleSlab
<1>4. SlabsAccounted'
  <2>1. heap' = lost
    BY NullAssumption DEF MemCacheInv, SlabsAccounted, TypeOK
  <2>2. IsInjective(<<>>)
    BY DEF IsInjective
  <2> QED
    BY <1>1, <2>1, <2>2, NullAssumption DEF MemCacheInv, SlabsAccounted, TypeOK
<1> QED
  BY <1>2, <1>3, <1>4 DEF MemCacheInv

\* The index mem_cache_free computes is that of the object given back, which
\* was in use.
LEMMA FreeFindsObject ==
    ASSUME MemCacheInv, NEW o \in live, NEW p \in DOMAIN list, Holds(list[p], o)
    PROVE  \E s \in Slab, i \in Index :
              /\ s = list[p] /\ s \in Listed
              /\ o = <<s, i * ObjSize>> /\ ObjToIndex(o[2]) = i
              /\ i \in Used(s)
              /\ inuse[s] \in 1 .. CacheSize
<1>1. PICK s \in Slab : s = list[p] /\ s \in Listed
  BY DEF MemCacheInv, TypeOK, Listed, ToSet
<1>2. PICK i \in Index : o[2] = i * ObjSize
  BY DEF MemCacheInv, LiveBacked
<1>3. o = <<s, i * ObjSize>>
  BY <1>1, <1>2 DEF Holds, MemCacheInv, TypeOK, Object
<1>4. i \in Used(s)
  BY <1>3 DEF Used
<1>5. ObjToIndex(o[2]) = i
  BY <1>2, IndexRoundTrip
<1>6. inuse[s] \in 1 .. CacheSize
  <2>1. inuse[s] \in 0 .. CacheSize
    BY DEF MemCacheInv, TypeOK
  <2>2. ASSUME inuse[s] = 0 PROVE FALSE
    <3>1. ChainExists(CacheSize, obj_free[s], obj_ctl[s], Index \ Used(s))
      BY <1>1, <2>2, SizesAssumption
         DEF MemCacheInv, FreeChainSound, HasFreeChain
    <3>2. Index \ Used(s) = Index
      BY <3>1, ChainFull
    <3> QED
      BY <3>2, <1>4
  <2> QED
    BY <2>1, <2>2, SizesAssumption
<1> QED
  BY <1>1, <1>3, <1>4, <1>5, <1>6

LEMMA FreeInv ==
    ASSUME MemCacheInv, NEW o \in live, Free(o)
    PROVE  MemCacheInv'
<1>1. PICK p \in DOMAIN list :
         /\ Holds(list[p], o)
         /\ LET s   == list[p]
                idx == ObjToIndex(o[2])
            IN /\ obj_ctl' = [obj_ctl EXCEPT ![s][idx] = obj_free[s]]
               /\ obj_free' = [obj_free EXCEPT ![s] = idx]
               /\ inuse' = [inuse EXCEPT ![s] = @ - 1]
               /\ IF LastObject(s)
                  THEN KeepInReserve(p)
                  ELSE UNCHANGED <<heap, list, wait_for_free>>
  BY DEF Free
<1>2. PICK s \in Slab, i \in Index :
         /\ s = list[p] /\ s \in Listed
         /\ o = <<s, i * ObjSize>> /\ ObjToIndex(o[2]) = i
         /\ i \in Used(s)
         /\ inuse[s] \in 1 .. CacheSize
  BY <1>1, FreeFindsObject
<1>3. TypeOK /\ pc = "idle" /\ open
  BY DEF MemCacheInv, Free
<1>4. /\ live' = live \ {<<s, i * ObjSize>>}
      /\ obj_ctl' = [obj_ctl EXCEPT ![s] = [@ EXCEPT ![i] = obj_free[s]]]
      /\ obj_free' = [obj_free EXCEPT ![s] = i]
      /\ inuse' = [inuse EXCEPT ![s] = @ - 1]
      /\ rc' = 0 /\ UNCHANGED <<open, lost, pc>>
  BY <1>1, <1>2 DEF Free
<1>5. /\ obj_ctl'[s] = [obj_ctl[s] EXCEPT ![i] = obj_free[s]]
      /\ obj_free'[s] = i
      /\ inuse'[s] = inuse[s] - 1
      /\ obj_ctl[s] \in [Index -> 0 .. CacheSize]
      /\ \A t \in Slab \ {s} : /\ obj_ctl'[t] = obj_ctl[t]
                               /\ obj_free'[t] = obj_free[t]
                               /\ inuse'[t] = inuse[t]
  BY <1>3, <1>4 DEF TypeOK
<1>6. Used(s)' = Used(s) \ {i}
  BY <1>4, OffsetInjective DEF Used
<1>7. HasFreeChain(s)'
  <2> DEFINE n == CacheSize - inuse[s]
  <2>1. n \in Nat /\ n + 1 = CacheSize - (inuse[s] - 1)
    BY <1>2, SizesAssumption
  <2>2. ChainExists(n, obj_free[s], obj_ctl[s], Index \ Used(s))
    BY <1>2 DEF MemCacheInv, FreeChainSound, HasFreeChain
  <2>3. i \in Index \ (Index \ Used(s)) /\ (Index \ Used(s)) \cup {i} = Index \ Used(s)'
    BY <1>2, <1>6
  <2> HIDE DEF n
  <2>4. ChainExists(n + 1, i, [obj_ctl[s] EXCEPT ![i] = obj_free[s]],
                    (Index \ Used(s)) \cup {i})
    BY <1>5, <2>1, <2>2, <2>3, ChainPush
  <2> QED
    BY <1>5, <2>1, <2>3, <2>4 DEF HasFreeChain
<1>8. ASSUME NEW t \in Slab, HasFreeChain(t) PROVE HasFreeChain(t)'
  <2>1. CASE t = s
    BY <2>1, <1>7
  <2>2. CASE t # s
    <3>1. Used(t)' = Used(t)
      BY <1>4, <2>2 DEF Used
    <3> QED
      BY <1>5, <1>8, <2>2, <3>1, ChainKept
  <2> QED
    BY <2>1, <2>2
<1>9. ASSUME NEW list2 \in Seq(Slab), list' = list2, heap' \subseteq Slab,
             wait_for_free' \in Slab \cup {NULL}
      PROVE  TypeOK'
  <2>1. inuse[s] - 1 \in 0 .. CacheSize /\ i \in 0 .. CacheSize
    BY <1>2, SizesAssumption DEF Index
  <2>2. obj_ctl' \in [Slab -> [Index -> 0 .. CacheSize]]
    BY <1>3, <1>4 DEF TypeOK
  <2>3. inuse' \in [Slab -> 0 .. CacheSize] /\ obj_free' \in [Slab -> 0 .. CacheSize]
    BY <1>3, <1>4, <2>1 DEF TypeOK
  <2> QED
    BY <1>3, <1>4, <1>9, <2>2, <2>3 DEF TypeOK
<1>10. Listed \subseteq Slab /\ list \in Seq(Slab)
  BY <1>3 DEF TypeOK, Listed, ToSet
<1>11. \A t \in Listed : HasFreeChain(t)'
  BY <1>8, <1>10 DEF MemCacheInv, FreeChainSound
<1>12. CASE inuse[s] - 1 # 0
  <2>1. UNCHANGED <<heap, list, wait_for_free>> /\ Listed' = Listed
    BY <1>1, <1>2, <1>12 DEF Listed, LastObject
  <2>2. TypeOK'
    BY <1>3, <1>9, <2>1 DEF TypeOK
  <2>3. FreeChainSound'
    BY <1>3, <1>8, <1>11, <2>1 DEF MemCacheInv, FreeChainSound, TypeOK
  <2>4. LiveBacked' /\ SlabsAccounted' /\ GrowthMakesRoom'
    BY <1>3, <1>4, <2>1 DEF MemCacheInv, LiveBacked, SlabsAccounted, GrowthMakesRoom
  <2>5. NoIdleSlab'
    <3>1. ASSUME NEW q \in DOMAIN list PROVE inuse'[list[q]] # 0
      <4>1. list[q] \in Slab
        BY <1>10
      <4> QED
        BY <4>1, <1>3, <1>5, <1>12 DEF MemCacheInv, NoIdleSlab
    <3>2. wait_for_free # s
      BY <1>2 DEF MemCacheInv, SlabsAccounted
    <3> QED
      BY <1>3, <1>4, <1>5, <2>1, <3>1, <3>2 DEF MemCacheInv, NoIdleSlab, TypeOK
  <2> QED
    BY <2>2, <2>3, <2>4, <2>5 DEF MemCacheInv
<1>13. CASE inuse[s] - 1 = 0
  <2>1. heap' = heap \ {wait_for_free} /\ list' = RemoveAt(list, p) /\ wait_for_free' = s
    BY <1>1, <1>2, <1>13 DEF KeepInReserve, LastObject
  <2>2. /\ list' \in Seq(Slab) /\ Listed' = Listed \ {s}
        /\ IsInjective(list') /\ DOMAIN list' \subseteq DOMAIN list
    BY <1>2, <1>10, <2>1, Unlink DEF MemCacheInv, SlabsAccounted, Listed
  <2>3. TypeOK'
    BY <1>3, <1>9, <2>1, <2>2 DEF TypeOK
  <2>4. FreeChainSound'
    BY <1>11, <1>7, <2>1, <2>2 DEF FreeChainSound
  <2>5. Used(s)' = {}
    <3>1. inuse'[s] = 0
      BY <1>5, <1>13
    <3>2. ChainExists(CacheSize, obj_free'[s], obj_ctl'[s], Index \ Used(s)')
      BY <1>7, <3>1, SizesAssumption DEF HasFreeChain
    <3>3. Index \ Used(s)' = Index
      BY <3>2, ChainFull
    <3> QED
      BY <3>3 DEF Used
  <2>6. LiveBacked'
    <3>1. ASSUME NEW q \in live' PROVE q[1] # s
      <4>1. PICK j \in Index : q[2] = j * ObjSize
        BY <1>4 DEF MemCacheInv, LiveBacked
      <4>2. q = <<q[1], j * ObjSize>>
        BY <1>3, <1>4, <4>1 DEF TypeOK, Object
      <4> QED
        BY <2>5, <4>2 DEF Used
    <3> QED
      BY <1>4, <2>2, <3>1 DEF MemCacheInv, LiveBacked
  <2>7. GrowthMakesRoom'
    BY <1>3, <1>4 DEF GrowthMakesRoom
  <2>8. SlabsAccounted'
    <3>1. s \in heap /\ s # NULL /\ s \notin lost /\ s # wait_for_free
      BY <1>2, NullAssumption DEF MemCacheInv, SlabsAccounted
    <3>2. heap' = Listed' \cup {s} \cup lost
      BY <1>2, <2>1, <2>2, <3>1, NullAssumption DEF MemCacheInv, SlabsAccounted, TypeOK
    <3> QED
      BY <1>3, <1>4, <2>1, <2>2, <3>1, <3>2 DEF MemCacheInv, SlabsAccounted
  <2>9. NoIdleSlab'
    <3>1. ASSUME NEW q \in DOMAIN list' PROVE inuse'[list'[q]] # 0
      <4>1. list'[q] \in Listed /\ list'[q] # s
        BY <2>2 DEF Listed, ToSet
      <4>2. PICK r \in DOMAIN list : list[r] = list'[q]
        BY <4>1 DEF Listed, ToSet
      <4> QED
        BY <4>1, <4>2, <1>3, <1>5, <1>10 DEF MemCacheInv, NoIdleSlab
    <3> QED
      BY <1>3, <1>4, <1>5, <1>13, <2>1, <3>1 DEF NoIdleSlab
  <2> QED
    BY <2>3, <2>4, <2>6, <2>7, <2>8, <2>9 DEF MemCacheInv
<1> QED
  BY <1>12, <1>13

LEMMA NextInv ==
    ASSUME MemCacheInv, [Next]_vars, CacheSize > 0
    PROVE  MemCacheInv'
<1>1. CASE Create
  BY <1>1, CreateInv
<1>2. CASE TakeObject
  BY <1>2, TakeObjectInv
<1>3. CASE GrowFromReserve
  BY <1>3, GrowFromReserveInv
<1>4. ASSUME NEW s \in Slab, GrowFromHeap(s) PROVE MemCacheInv'
  BY <1>4, GrowFromHeapInv
<1>5. CASE GrowFails
  BY <1>5, GrowFailsInv
<1>6. ASSUME NEW o \in live, Free(o) PROVE MemCacheInv'
  BY <1>6, FreeInv
<1>7. ASSUME NEW o \in live \cup Foreign, FreeRefused(o) PROVE MemCacheInv'
  BY <1>7, FreeRefusedInv
<1>8. CASE Destroy
  BY <1>8, DestroyInv
<1>9. CASE UNCHANGED vars
  <2>1. TypeOK' /\ SlabsAccounted'
    BY <1>9 DEF vars, MemCacheInv, TypeOK, SlabsAccounted, Listed
  <2> QED
    BY <1>9, <2>1, QuietInv DEF vars
<1> QED
  BY <1>1, <1>2, <1>3, <1>4, <1>5, <1>6, <1>7, <1>8, <1>9 DEF Next, Alloc

\* Every reachable state of a cache whose slabs hold at least one object
\* satisfies the invariant (a cache of size 0 never finds room: a run shows it).
THEOREM MemCacheInvariant ==
    ASSUME CacheSize > 0
    PROVE  Spec => []MemCacheInv
<1>1. MemCacheInv /\ [Next]_vars => MemCacheInv'
  BY NextInv
<1> QED
  BY InitInv, <1>1, PTL DEF Spec

\* Every variable keeps its type.
THEOREM TypeCorrect == ASSUME CacheSize > 0 PROVE Spec => []TypeOK
  BY MemCacheInvariant, PTL DEF MemCacheInv

\* The free lists of all slabs stay exact: each object that is not held is on
\* its slab's chain once, and no held object is on it.
THEOREM ChainsSound == ASSUME CacheSize > 0 PROVE Spec => []FreeChainSound
  BY MemCacheInvariant, PTL DEF MemCacheInv

\* No object the caller holds is in a slab that was released or set aside.
THEOREM LiveObjectsBacked == ASSUME CacheSize > 0 PROVE Spec => []LiveBacked
  BY MemCacheInvariant, PTL DEF MemCacheInv

\* mem_cache_alloc grows the cache at most once per call.
THEOREM OneGrowthSuffices == ASSUME CacheSize > 0 PROVE Spec => []GrowthMakesRoom
  BY MemCacheInvariant, PTL DEF MemCacheInv

\* No slab is released twice, forgotten or in two places.
THEOREM SlabAccounting == ASSUME CacheSize > 0 PROVE Spec => []SlabsAccounted
  BY MemCacheInvariant, PTL DEF MemCacheInv

\* The cache keeps at most one empty slab.
THEOREM IdleSlabs == ASSUME CacheSize > 0 PROVE Spec => []NoIdleSlab
  BY MemCacheInvariant, PTL DEF MemCacheInv

(***************************************************************************)
(* The slab cache implements the object pool.                              *)
(***************************************************************************)

LEMMA TakeObjectIsPAlloc ==
    ASSUME MemCacheInv, TakeObject
    PROVE  Pool!PAlloc
<1>1. PICK p \in DOMAIN list :
         /\ HasRoom(list[p])
         /\ live' = live \cup {<<list[p], IndexToObj(obj_free[list[p]])>>}
  BY DEF TakeObject, FirstWithRoom
<1>2. PICK s \in Slab, i \in Index :
         /\ s = list[p] /\ i = obj_free[s] /\ i \notin Used(s)
         /\ IndexToObj(i) = i * ObjSize
  BY <1>1, TakeObjectIsFree
<1> DEFINE o == <<s, i * ObjSize>>
<1>3. o \in Slab \X (0 .. Word - 1) /\ live' = live \cup {o}
  BY <1>1, <1>2, Offsets
<1>4. o[2] + ObjSize <= Word
  BY Offsets, SizesAssumption DEF SlabBytes, Index
<1>5. ASSUME NEW q \in live, o[1] = q[1]
      PROVE  o[2] + ObjSize <= q[2] \/ q[2] + ObjSize <= o[2]
  <2>1. PICK j \in Index : q[2] = j * ObjSize
    BY DEF MemCacheInv, LiveBacked
  <2>2. q = <<s, j * ObjSize>>
    BY <1>5, <2>1 DEF MemCacheInv, TypeOK, Object
  <2>3. i # j
    BY <1>2, <2>2 DEF Used
  <2> QED
    BY <2>1, <2>3, Offsets
<1>6. \A q \in live : Pool!Apart(o, q)
  BY <1>5 DEF Pool!Apart
<1>7. o \in Pool!PObject
  BY <1>3 DEF Pool!PObject
<1>8. open /\ open' = open /\ rc' = 0
  BY DEF TakeObject
<1> HIDE DEF o
<1> QED
  BY <1>3, <1>4, <1>6, <1>7, <1>8 DEF Pool!PAlloc

LEMMA StepImplements ==
    ASSUME MemCacheInv, [Next]_vars
    PROVE  [Pool!PNext]_(Pool!poolVars)
<1> USE DEF Pool!PNext, Pool!poolVars
<1>1. CASE Create
  BY <1>1 DEF Create, Pool!POpen
<1>2. CASE TakeObject
  BY <1>2, TakeObjectIsPAlloc
<1>3. CASE GrowFromReserve
  BY <1>3 DEF GrowFromReserve
<1>4. ASSUME NEW s \in Slab, GrowFromHeap(s) PROVE UNCHANGED Pool!poolVars
  BY <1>4 DEF GrowFromHeap
<1>5. CASE GrowFails
  BY <1>5 DEF GrowFails, Pool!PAlloc
<1>6. ASSUME NEW o \in live, Free(o) PROVE Pool!PFree
  BY <1>6 DEF Free, Pool!PFree
<1>7. ASSUME NEW o \in live \cup Foreign, FreeRefused(o) PROVE Pool!PFree
  BY <1>7 DEF FreeRefused, Pool!PFree
<1>8. CASE Destroy
  BY <1>8 DEF Destroy, Pool!PClose
<1>9. CASE UNCHANGED vars
  BY <1>9 DEF vars
<1> QED
  BY <1>1, <1>2, <1>3, <1>4, <1>5, <1>6, <1>7, <1>8, <1>9 DEF Next, Alloc

\* Whatever the order of allocations and frees, an object handed out overlaps
\* no object still held.
THEOREM CacheImplementsPool ==
    ASSUME CacheSize > 0
    PROVE  Spec => ImplementsPool
<1>1. Init => Pool!PInit
  BY DEF Init, Pool!PInit
<1>2. MemCacheInv /\ [Next]_vars => [Pool!PNext]_(Pool!poolVars)
  BY StepImplements
<1> QED
  BY <1>1, <1>2, MemCacheInvariant, PTL
     DEF Spec, ImplementsPool, Pool!PSpec
=============================================================================
