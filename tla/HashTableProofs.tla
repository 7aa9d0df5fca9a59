--------------------------- MODULE HashTableProofs ---------------------------
(***************************************************************************)
(* The hash table for any keys and any hash function: its searches end and *)
(* find what was inserted, its counters are exact, and it is a dictionary. *)
(***************************************************************************)
EXTENDS HashTable, Numbers, FiniteSetTheorems

(***************************************************************************)
(* Sizes, and the order in which slots are probed.                         *)
(***************************************************************************)

\* shl is defined, and its values are the powers of two.
LEMMA ShlPowers == IsPowers(shl, MaxShift)
<1>1. MaxShift \in Nat
  BY DEF MaxShift
<1>2. Doubles(shl, MaxShift)
  <2>1. \E f : f = [n \in 0 .. MaxShift |-> IF n = 0 THEN 1 ELSE 2 * f[n - 1]]
    BY <1>1, DoublesExists DEF Doubles
  <2> QED
    BY <2>1 DEF shl, Doubles
<1> QED
  BY <1>1, <1>2, DoublesPowers

LEMMA Sizes ==
    ASSUME NEW sh \in 0 .. MaxShift
    PROVE  /\ Size(sh) \in Nat \ {0}
           /\ sh > 0 => Size(sh) = 2 * Size(sh - 1)
           /\ Size(0) = 1
           /\ IsFiniteSet(Slots(sh)) /\ Cardinality(Slots(sh)) = Size(sh)
<1>1. /\ Size(sh) \in Nat \ {0}
      /\ sh > 0 => Size(sh) = 2 * Size(sh - 1)
      /\ Size(0) = 1
  BY ShlPowers DEF IsPowers, Size, MaxShift
<1>2. Slots(sh) = 0 .. Size(sh) - 1 /\ Size(sh) - 1 \in Int
  BY <1>1 DEF Slots
<1>3. IsFiniteSet(0 .. Size(sh) - 1) /\ Cardinality(0 .. Size(sh) - 1) = Size(sh)
  <2>1. PICK b \in Int : b = Size(sh) - 1
    BY <1>2
  <2>2. IsFiniteSet(0 .. b) /\ Cardinality(0 .. b) = IF 0 > b THEN 0 ELSE b - 0 + 1
    BY FS_Interval
  <2> QED
    BY <1>1, <2>1, <2>2
<1> QED
  BY <1>1, <1>2, <1>3

LEMMA Primes == \A sh \in 0 .. MaxShift : prime_mod[sh + 1] \in Nat \ {0}
BY DEF prime_mod, MaxShift

\* A probe stays in the table, and its first rounds meet no slot twice.
LEMMA ProbeSlots ==
    ASSUME NEW h \in Nat, NEW sh \in 0 .. MaxShift, NEW n \in Nat
    PROVE  ProbeAt(h, n, sh) \in Slots(sh)
<1>1. PICK c \in Nat : c = h % prime_mod[sh + 1]
  <2>1. PICK b \in Nat \ {0} : b = prime_mod[sh + 1]
    BY Primes
  <2>2. h % b \in Nat
    BY Remainder
  <2> QED
    BY <2>1, <2>2
<1>2. PICK t \in Nat : t = (n * (n + 1)) \div 2
  BY Triangle
<1>3. PICK s \in Nat \ {0} : s = Size(sh)
  BY Sizes
<1>4. (c + t) % s \in 0 .. s - 1
  <2>1. c + t \in Int
    OBVIOUS
  <2> QED
    BY <2>1, Remainder
<1> QED
  BY <1>1, <1>2, <1>3, <1>4 DEF ProbeAt, Slots

LEMMA ProbeDistinct ==
    ASSUME NEW h \in Nat, NEW sh \in 0 .. MaxShift, NEW m \in Slots(sh), NEW n \in 0 .. m - 1
    PROVE  ProbeAt(h, n, sh) # ProbeAt(h, m, sh)
<1>1. PICK c \in Nat : c = h % prime_mod[sh + 1]
  <2>1. PICK b \in Nat \ {0} : b = prime_mod[sh + 1]
    BY Primes
  <2>2. h % b \in Nat
    BY Remainder
  <2> QED
    BY <2>1, <2>2
<1>2. MaxShift \in Nat /\ m \in 0 .. shl[sh] - 1
  BY DEF MaxShift, Slots, Size
<1>3. (c + ((n * (n + 1)) \div 2)) % shl[sh] # (c + ((m * (m + 1)) \div 2)) % shl[sh]
  BY <1>2, ShlPowers, TriangleSteps
<1> QED
  BY <1>1, <1>3 DEF ProbeAt, Size

\* A probe leaves any set of slots that is smaller than the table.
LEMMA ProbeReaches ==
    ASSUME NEW h \in Nat, NEW sh \in 0 .. MaxShift, NEW full \in SUBSET Slots(sh),
           Cardinality(full) < Size(sh)
    PROVE  \E n \in Slots(sh) : ProbeAt(h, n, sh) \notin full
<1> SUFFICES ASSUME \A n \in Slots(sh) : ProbeAt(h, n, sh) \in full
             PROVE  FALSE
  OBVIOUS
<1> DEFINE f == [n \in Slots(sh) |-> ProbeAt(h, n, sh)]
<1>1. f \in [Slots(sh) -> full]
  OBVIOUS
<1>2. IsFiniteSet(full) /\ Cardinality(full) < Cardinality(Slots(sh)) /\ IsFiniteSet(Slots(sh))
  BY Sizes, FS_Subset
<1>3. PICK x, y \in Slots(sh) : x # y /\ f[x] = f[y]
  <2> HIDE DEF f
  <2> QED
    BY <1>1, <1>2, FS_PigeonHole
<1>4. x \in Nat /\ y \in Nat
  BY Sizes DEF Slots
<1>5. x \in 0 .. y - 1 \/ y \in 0 .. x - 1
  BY <1>3, <1>4
<1> QED
  BY <1>3, <1>5, ProbeDistinct

\* A probe that meets a stop stops there, or before.
LEMMA ProbeStops ==
    ASSUME NEW h \in Nat, NEW sh \in 0 .. MaxShift, NEW stops, NEW n \in Slots(sh),
           ProbeAt(h, n, sh) \in stops
    PROVE  /\ ProbeLength(h, sh, stops) \in 0 .. n
           /\ ProbeAt(h, ProbeLength(h, sh, stops), sh) \in stops
           /\ \A m \in 0 .. ProbeLength(h, sh, stops) - 1 : ProbeAt(h, m, sh) \notin stops
<1> DEFINE S == {m \in Nat : ProbeAt(h, m, sh) \in stops}
           First(m) == /\ ProbeAt(h, m, sh) \in stops
                       /\ \A k \in 0 .. m - 1 : ProbeAt(h, k, sh) \notin stops
<1>1. n \in Nat /\ n < Size(sh) /\ Size(sh) \in Nat
  BY Sizes DEF Slots
<1>2. PICK m \in S : \A k \in S : m <= k
  <2>1. S \in SUBSET Nat /\ S # {}
    BY <1>1
  <2> HIDE DEF S
  <2> QED
    BY <2>1, Least
<1>3. m \in 0 .. n /\ m \in 0 .. 2 * Size(sh) /\ First(m)
  BY <1>1, <1>2
<1>4. /\ ProbeLength(h, sh, stops) \in 0 .. 2 * Size(sh)
      /\ First(ProbeLength(h, sh, stops))
  <2> HIDE DEF S
  <2> QED
    BY <1>3 DEF ProbeLength
<1>5. ProbeLength(h, sh, stops) <= m
  BY <1>1, <1>3, <1>4
<1> QED
  BY <1>1, <1>3, <1>4, <1>5

\* The shift of a size is large enough for it.
LEMMA SizesGrow ==
    ASSUME NEW i \in 0 .. MaxShift, NEW j \in i .. MaxShift
    PROVE  Size(i) <= Size(j)
<1> DEFINE S == {k \in Nat : i + k <= MaxShift => Size(i) <= Size(i + k)}
<1> USE DEF MaxShift
<1>1. 0 \in S
  BY Sizes
<1>2. ASSUME NEW k \in Nat, k \in S
      PROVE  k + 1 \in S
  <2> SUFFICES ASSUME i + (k + 1) <= MaxShift PROVE Size(i) <= Size(i + (k + 1))
    OBVIOUS
  <2>1. i + k \in 0 .. MaxShift /\ i + (k + 1) \in 0 .. MaxShift
    OBVIOUS
  <2>2. Size(i + (k + 1)) = 2 * Size((i + (k + 1)) - 1) /\ (i + (k + 1)) - 1 = i + k
    BY <2>1, Sizes
  <2>3. Size(i + k) \in Nat /\ Size(i) \in Nat /\ Size(i) <= Size(i + k)
    BY <1>2, <2>1, Sizes
  <2> QED
    BY <2>2, <2>3
<1>3. j - i \in S
  <2> HIDE DEF S
  <2>1. j - i \in Nat
    OBVIOUS
  <2> QED
    BY <1>1, <1>2, <2>1, Induction
<1> QED
  BY <1>3

LEMMA Shifts ==
    ASSUME NEW n \in Nat, n < Size(MaxShift)
    PROVE  /\ ShiftFromSize(n) \in MinShift .. MaxShift
           /\ n < Size(ShiftFromSize(n))
<1> DEFINE S == {i \in Nat : i <= MaxShift /\ n < Size(i)}
<1>1. PICK i \in S : \A j \in S : i <= j
  <2>1. MaxShift \in S
    BY DEF MaxShift
  <2>2. S \in SUBSET Nat /\ S # {}
    BY <2>1
  <2> HIDE DEF S
  <2> QED
    BY <2>2, Least
<1>2. i \in 0 .. MaxShift /\ n < Size(i) /\ (i > 0 => Size(i - 1) <= n)
  <2>1. i > 0 => i - 1 \in 0 .. MaxShift /\ i - 1 \notin S
    BY <1>1 DEF MaxShift
  <2>2. i > 0 => Size(i - 1) \in Nat
    BY <2>1, Sizes
  <2> QED
    BY <1>1, <2>1, <2>2
<1>3. ClosestShift(n) \in 0 .. MaxShift /\ n < Size(ClosestShift(n))
  <2> HIDE DEF S
  <2> QED
    BY <1>2 DEF ClosestShift
<1>4. MinShift \in 0 .. MaxShift
  BY ShiftAssumption
<1>5. CASE ClosestShift(n) > MinShift
  BY <1>3, <1>4, <1>5 DEF ShiftFromSize
<1>6. CASE ~(ClosestShift(n) > MinShift)
  <2>1. ShiftFromSize(n) = MinShift
    BY <1>6 DEF ShiftFromSize
  <2>2. MinShift \in ClosestShift(n) .. MaxShift
    BY <1>3, <1>4, <1>6
  <2>3. Size(ClosestShift(n)) <= Size(MinShift)
    BY <1>3, <2>2, SizesGrow
  <2>4. Size(ClosestShift(n)) \in Nat /\ Size(MinShift) \in Nat
    BY <1>3, <1>4, Sizes
  <2> QED
    BY <1>3, <1>4, <2>1, <2>3, <2>4 DEF MaxShift
<1> QED
  BY <1>5, <1>6

(***************************************************************************)
(* Tables.                                                                 *)
(***************************************************************************)

Value == Val \cup KeyObject \cup {NULL}

\* The entries of the slots: hashed, one of a rank, and met by a search for it
\* before any unused slot.
Before(sh, hs, h, i) ==
    \E n \in Slots(sh) : /\ ProbeAt(h, n, sh) = i
                         /\ \A m \in 0 .. n - 1 : hs[ProbeAt(h, m, sh)] # Unused
Sound(sh, hs, ks) ==
    /\ \A i \in Slots(sh) : IsReal(hs[i]) =>
          /\ ks[i] \in KeyObject
          /\ hs[i] = HashValue(ks[i][1])
          /\ Before(sh, hs, hs[i], i)
    /\ \A i, j \in Slots(sh) :
          IsReal(hs[i]) /\ IsReal(hs[j]) /\ ks[i][1] = ks[j][1] => i = j

Real(t) == {i \in Slots(t.shift) : IsReal(t.hashes[i])}
Occupied(t) == {i \in Slots(t.shift) : t.hashes[i] # Unused}
EntriesOf(t) == {[key |-> t.keys[i], value |-> t.values[i]] : i \in Real(t)}

\* The fields of a table between its operations, but that one may be full.
ArraysOK(sh, a) ==
    /\ a.hashes \in [Slots(sh) -> Nat]
    /\ a.keys \in [Slots(sh) -> KeyObject \cup {NULL}]
    /\ a.values \in [Slots(sh) -> Value]
TableOK(t) ==
    /\ t.shift \in 0 .. MaxShift
    /\ ArraysOK(t.shift, t)
    /\ Sound(t.shift, t.hashes, t.keys)
    /\ t.nnodes = Cardinality(Real(t))
    /\ t.noccupied = Cardinality(Occupied(t))

IInv ==
    /\ TableOK(Current)
    /\ noccupied < Size(shift)
    /\ aliased \in BOOLEAN

LEMMA HashValues == \A r \in Rank : HashValue(r) \in Nat /\ IsReal(HashValue(r))
BY HashAssumption DEF HashValue, IsReal

\* An entry that is put where its search ends.
LEMMA PutSound ==
    ASSUME NEW sh \in 0 .. MaxShift, NEW a, ArraysOK(sh, a), Sound(sh, a.hashes, a.keys),
           NEW to \in Slots(sh), ~IsReal(a.hashes[to]), NEW k \in KeyObject, NEW v \in Value,
           \A i \in Slots(sh) : IsReal(a.hashes[i]) => a.keys[i][1] # k[1],
           NEW h, h = HashValue(k[1]), Before(sh, a.hashes, h, to),
           NEW b, b.hashes = [a.hashes EXCEPT ![to] = h],
           b.keys = [a.keys EXCEPT ![to] = k], b.values = [a.values EXCEPT ![to] = v]
    PROVE  ArraysOK(sh, b) /\ Sound(sh, b.hashes, b.keys)
<1>1. h \in Nat /\ IsReal(h) /\ h # Unused
  BY HashValues DEF KeyObject, IsReal, Unused
<1>2. ArraysOK(sh, b)
  BY <1>1 DEF ArraysOK
<1>3. \A i \in Slots(sh) : b.hashes[i] = IF i = to THEN h ELSE a.hashes[i]
  BY DEF ArraysOK
<1>4. \A i \in Slots(sh) : b.keys[i] = IF i = to THEN k ELSE a.keys[i]
  BY DEF ArraysOK
<1>5. ASSUME NEW g \in Nat, NEW i, Before(sh, a.hashes, g, i)
      PROVE  Before(sh, b.hashes, g, i)
  <2>1. \A m \in Nat : ProbeAt(g, m, sh) \in Slots(sh)
    BY ProbeSlots
  <2>2. \A j \in Slots(sh) : a.hashes[j] # Unused => b.hashes[j] # Unused
    BY <1>1, <1>3
  <2>3. PICK n \in Slots(sh) : /\ ProbeAt(g, n, sh) = i
                               /\ \A m \in 0 .. n - 1 : a.hashes[ProbeAt(g, m, sh)] # Unused
    BY <1>5 DEF Before
  <2>4. \A m \in 0 .. n - 1 : b.hashes[ProbeAt(g, m, sh)] # Unused
    BY <2>1, <2>2, <2>3
  <2> QED
    BY <2>3, <2>4 DEF Before
<1>6. ASSUME NEW i \in Slots(sh), IsReal(b.hashes[i])
      PROVE  /\ b.keys[i] \in KeyObject
             /\ b.hashes[i] = HashValue(b.keys[i][1])
             /\ Before(sh, b.hashes, b.hashes[i], i)
  <2>1. CASE i = to
    BY <1>1, <1>3, <1>4, <1>5, <2>1
  <2>2. CASE i # to
    <3>1. b.hashes[i] = a.hashes[i] /\ b.keys[i] = a.keys[i] /\ a.hashes[i] \in Nat
      BY <1>3, <1>4, <2>2 DEF ArraysOK
    <3>2. /\ a.keys[i] \in KeyObject /\ a.hashes[i] = HashValue(a.keys[i][1])
          /\ Before(sh, a.hashes, a.hashes[i], i)
      BY <1>6, <3>1 DEF Sound
    <3> QED
      BY <1>5, <3>1, <3>2
  <2> QED
    BY <2>1, <2>2
<1>7. ASSUME NEW i \in Slots(sh), NEW j \in Slots(sh), IsReal(b.hashes[i]),
             IsReal(b.hashes[j]), b.keys[i][1] = b.keys[j][1]
      PROVE  i = j
  BY <1>3, <1>4, <1>7 DEF Sound
<1> QED
  BY <1>2, <1>6, <1>7 DEF Sound

LEMMA EmptySound ==
    ASSUME NEW sh \in 0 .. MaxShift
    PROVE  /\ ArraysOK(sh, EmptyArrays(sh))
           /\ Sound(sh, EmptyArrays(sh).hashes, EmptyArrays(sh).keys)
           /\ \A i \in Slots(sh) : EmptyArrays(sh).hashes[i] = Unused
BY DEF EmptyArrays, ArraysOK, Value, Sound, IsReal, Unused

(***************************************************************************)
(* Resizing.                                                               *)
(***************************************************************************)

\* The arrays after the first n slots.
RehashedTo(t, sh, f, max) ==
    f = [n \in 0 .. max |->
           IF n = 0 THEN EmptyArrays(sh) ELSE Moved(f[n - 1], t, n - 1, sh)]

LEMMA RehashedDef ==
    ASSUME NEW t, NEW sh, Size(t.shift) \in Nat
    PROVE  \E f : RehashedTo(t, sh, f, Size(t.shift)) /\ Rehashed(t, sh) = f[Size(t.shift)]
<1> DEFINE S == {k \in Nat : \E f : RehashedTo(t, sh, f, k)}
<1>1. 0 \in S
  <2>1. RehashedTo(t, sh, [n \in 0 .. 0 |-> EmptyArrays(sh)], 0)
    BY DEF RehashedTo
  <2> QED
    BY <2>1
<1>2. ASSUME NEW k \in Nat, k \in S
      PROVE  k + 1 \in S
  <2>1. PICK f : RehashedTo(t, sh, f, k)
    BY <1>2
  <2> DEFINE g == [n \in 0 .. k + 1 |-> IF n = k + 1 THEN Moved(f[k], t, k, sh) ELSE f[n]]
  <2>2. \A n \in 0 .. k + 1 :
           g[n] = IF n = 0 THEN EmptyArrays(sh) ELSE Moved(g[n - 1], t, n - 1, sh)
    <3> SUFFICES ASSUME NEW n \in 0 .. k + 1
                 PROVE  g[n] = IF n = 0 THEN EmptyArrays(sh) ELSE Moved(g[n - 1], t, n - 1, sh)
      OBVIOUS
    <3>1. CASE n = k + 1
      BY <3>1
    <3>2. CASE n \in 0 .. k
      <4>1. f[n] = IF n = 0 THEN EmptyArrays(sh) ELSE Moved(f[n - 1], t, n - 1, sh)
        BY <2>1, <3>2 DEF RehashedTo
      <4>2. g[n] = f[n] /\ (n # 0 => g[n - 1] = f[n - 1])
        BY <3>2
      <4> QED
        BY <4>1, <4>2
    <3> QED
      BY <3>1, <3>2
  <2>3. RehashedTo(t, sh, g, k + 1)
    BY <2>2 DEF RehashedTo
  <2> HIDE DEF g
  <2> QED
    BY <2>3
<1>3. Size(t.shift) \in S
  <2> HIDE DEF S
  <2> QED
    BY <1>1, <1>2, Induction
<1> QED
  BY <1>3 DEF Rehashed, RehashedTo

\* What the new arrays hold when the first n old slots have been moved.
Old(t, n) == {i \in 0 .. n - 1 : IsReal(t.hashes[i])}
Halfway(t, sh, a, n) ==
    /\ ArraysOK(sh, a) /\ Sound(sh, a.hashes, a.keys)
    /\ \A i \in Slots(sh) : a.hashes[i] = Unused \/ IsReal(a.hashes[i])
    /\ Cardinality({i \in Slots(sh) : IsReal(a.hashes[i])}) = Cardinality(Old(t, n))
    /\ {[key |-> a.keys[i], value |-> a.values[i]] :
           i \in {i \in Slots(sh) : IsReal(a.hashes[i])}}
         = {[key |-> t.keys[i], value |-> t.values[i]] : i \in Old(t, n)}

LEMMA OldReal ==
    ASSUME NEW t, TableOK(t), NEW n \in 0 .. Size(t.shift)
    PROVE  /\ Old(t, n) \subseteq Real(t) /\ Old(t, Size(t.shift)) = Real(t)
           /\ IsFiniteSet(Real(t)) /\ IsFiniteSet(Old(t, n))
           /\ Cardinality(Old(t, n)) <= Cardinality(Real(t))
           /\ Cardinality(Old(t, n)) \in Nat /\ Cardinality(Real(t)) \in Nat
<1>1. Size(t.shift) \in Nat /\ IsFiniteSet(Slots(t.shift))
  BY Sizes DEF TableOK
<1>2. Old(t, n) \subseteq Real(t) /\ Old(t, Size(t.shift)) = Real(t)
  BY <1>1 DEF Old, Real, Slots
<1>3. IsFiniteSet(Real(t))
  BY <1>1, FS_Subset DEF Real
<1> QED
  BY <1>2, <1>3, FS_Subset, FS_CardinalityType

LEMMA MovedHalfway ==
    ASSUME NEW t, TableOK(t), NEW sh \in 0 .. MaxShift, Cardinality(Real(t)) < Size(sh),
           NEW n \in 0 .. Size(t.shift) - 1, NEW a, Halfway(t, sh, a, n)
    PROVE  Halfway(t, sh, Moved(a, t, n, sh), n + 1)
<1> DEFINE full == {i \in Slots(sh) : IsReal(a.hashes[i])}
<1>1. Size(t.shift) \in Nat /\ n \in Slots(t.shift) /\ n \in 0 .. Size(t.shift)
      /\ n + 1 \in 0 .. Size(t.shift) /\ n \in Nat
  BY Sizes DEF TableOK, Slots
<1>2. CASE ~IsReal(t.hashes[n])
  <2>1. Old(t, n + 1) = Old(t, n)
    BY <1>1, <1>2 DEF Old
  <2> QED
    BY <1>2, <2>1 DEF Moved, Halfway
<1>3. CASE IsReal(t.hashes[n])
  <2> DEFINE stops == {j \in Slots(sh) : a.hashes[j] = Unused}
             h == t.hashes[n]
             to == ProbeSlot(h, sh, stops)
             b == Moved(a, t, n, sh)
  <2>1. /\ t.keys[n] \in KeyObject /\ h = HashValue(t.keys[n][1]) /\ h \in Nat
        /\ t.values[n] \in Value
    BY <1>1, <1>3 DEF TableOK, Sound, ArraysOK
  <2>2. Cardinality(full) < Size(sh) /\ full \in SUBSET Slots(sh)
    <3>1. Cardinality(full) = Cardinality(Old(t, n))
      BY DEF Halfway
    <3> QED
      BY <1>1, <3>1, OldReal, Sizes
  <2>3. PICK m \in Slots(sh) : ProbeAt(h, m, sh) \notin full
    <3> HIDE DEF full
    <3> QED
      BY <2>1, <2>2, ProbeReaches
  <2>4. m \in Nat /\ m < Size(sh) /\ Size(sh) \in Nat
    BY Sizes DEF Slots
  <2>5. ProbeAt(h, m, sh) \in stops
    BY <2>1, <2>3, <2>4, ProbeSlots DEF Halfway
  <2>6. PICK len \in 0 .. m : /\ len = ProbeLength(h, sh, stops)
                              /\ ProbeAt(h, len, sh) \in stops
                              /\ \A k \in 0 .. len - 1 : ProbeAt(h, k, sh) \notin stops
    <3> HIDE DEF stops
    <3> QED
      BY <2>1, <2>5, ProbeStops
  <2>7. to = ProbeAt(h, len, sh) /\ to \in Slots(sh) /\ a.hashes[to] = Unused
    BY <2>6 DEF ProbeSlot
  <2>8. Before(sh, a.hashes, h, to)
    <3>1. len \in Slots(sh)
      BY <2>4, <2>6 DEF Slots
    <3>2. \A k \in 0 .. len - 1 : a.hashes[ProbeAt(h, k, sh)] # Unused
      BY <2>1, <2>4, <2>6, ProbeSlots
    <3> QED
      BY <2>7, <3>1, <3>2 DEF Before
  <2>9. ~IsReal(a.hashes[to])
    BY <2>7 DEF IsReal, Unused
  <2>10. /\ b.hashes = [a.hashes EXCEPT ![to] = h]
         /\ b.keys = [a.keys EXCEPT ![to] = t.keys[n]]
         /\ b.values = [a.values EXCEPT ![to] = t.values[n]]
    BY <1>3 DEF Moved
  <2> HIDE DEF b, to, stops, h
  <2>11. \A i \in full : a.keys[i][1] # t.keys[n][1]
    <3> SUFFICES ASSUME NEW i \in full PROVE a.keys[i][1] # t.keys[n][1]
      OBVIOUS
    <3>1. PICK j \in Old(t, n) : a.keys[i] = t.keys[j]
      <4>1. [key |-> a.keys[i], value |-> a.values[i]]
              \in {[key |-> t.keys[j], value |-> t.values[j]] : j \in Old(t, n)}
        BY DEF Halfway
      <4> QED
        BY <4>1
    <3>2. j \in Slots(t.shift) /\ IsReal(t.hashes[j]) /\ j # n
      BY <1>1, <3>1 DEF Old, Slots
    <3> QED
      BY <1>1, <1>3, <3>1, <3>2 DEF TableOK, Sound
  <2>12. ArraysOK(sh, b) /\ Sound(sh, b.hashes, b.keys)
    BY <2>1, <2>7, <2>8, <2>9, <2>10, <2>11, PutSound DEF Halfway
  <2>13. \A i \in Slots(sh) : /\ b.hashes[i] = IF i = to THEN h ELSE a.hashes[i]
                              /\ b.keys[i] = IF i = to THEN t.keys[n] ELSE a.keys[i]
                              /\ b.values[i] = IF i = to THEN t.values[n] ELSE a.values[i]
    BY <2>10 DEF Halfway, ArraysOK
  <2>14. IsReal(h)
    BY <1>3 DEF h
  <2>15. {i \in Slots(sh) : IsReal(b.hashes[i])} = full \cup {to} /\ to \notin full
    BY <2>7, <2>9, <2>13, <2>14
  <2>16. Old(t, n + 1) = Old(t, n) \cup {n} /\ n \notin Old(t, n)
    BY <1>1, <1>3 DEF Old
  <2>17. Cardinality(full \cup {to}) = Cardinality(Old(t, n + 1))
    <3>1. IsFiniteSet(full) /\ Cardinality(full) = Cardinality(Old(t, n))
      BY Sizes, FS_Subset DEF Halfway
    <3>2. IsFiniteSet(Old(t, n))
      BY <1>1, OldReal
    <3>3. to \notin full
      BY <2>15
    <3> HIDE DEF full
    <3>4. Cardinality(full \cup {to}) = Cardinality(full) + 1
      BY <3>1, <3>3, FS_AddElement
    <3>5. Cardinality(Old(t, n) \cup {n}) = Cardinality(Old(t, n)) + 1
      BY <2>16, <3>2, FS_AddElement
    <3> QED
      BY <2>16, <3>1, <3>4, <3>5
  <2>18. {[key |-> b.keys[i], value |-> b.values[i]] : i \in full \cup {to}}
           = {[key |-> t.keys[i], value |-> t.values[i]] : i \in Old(t, n + 1)}
    <3>1. \A i \in full : b.keys[i] = a.keys[i] /\ b.values[i] = a.values[i]
      BY <2>13, <2>15
    <3>2. {[key |-> b.keys[i], value |-> b.values[i]] : i \in full}
            = {[key |-> t.keys[i], value |-> t.values[i]] : i \in Old(t, n)}
      BY <3>1 DEF Halfway
    <3>3. b.keys[to] = t.keys[n] /\ b.values[to] = t.values[n]
      BY <2>7, <2>13
    <3> HIDE DEF full
    <3> QED
      BY <2>16, <3>2, <3>3
  <2>19. \A i \in Slots(sh) : b.hashes[i] = Unused \/ IsReal(b.hashes[i])
    BY <2>13, <2>14 DEF Halfway
  <2> QED
    BY <2>12, <2>15, <2>17, <2>18, <2>19 DEF Halfway, b
<1> QED
  BY <1>2, <1>3

LEMMA RehashedSound ==
    ASSUME NEW t, TableOK(t), NEW sh \in 0 .. MaxShift, Cardinality(Real(t)) < Size(sh)
    PROVE  Halfway(t, sh, Rehashed(t, sh), Size(t.shift))
<1>1. Size(t.shift) \in Nat
  BY Sizes DEF TableOK
<1>2. PICK f : RehashedTo(t, sh, f, Size(t.shift)) /\ Rehashed(t, sh) = f[Size(t.shift)]
  BY <1>1, RehashedDef
<1>3. \A n \in 0 .. Size(t.shift) :
         f[n] = IF n = 0 THEN EmptyArrays(sh) ELSE Moved(f[n - 1], t, n - 1, sh)
  BY <1>2 DEF RehashedTo
<1> DEFINE S == {n \in Nat : n <= Size(t.shift) => Halfway(t, sh, f[n], n)}
<1>4. 0 \in S
  <2>1. f[0] = EmptyArrays(sh)
    BY <1>1, <1>3
  <2>2. Old(t, 0) = {}
    BY DEF Old
  <2>3. {i \in Slots(sh) : IsReal(f[0].hashes[i])} = {}
    BY <2>1, EmptySound DEF IsReal, Unused
  <2>4. Halfway(t, sh, f[0], 0)
    BY <2>1, <2>2, <2>3, EmptySound DEF Halfway
  <2> QED
    BY <2>4
<1>5. ASSUME NEW n \in Nat, n \in S
      PROVE  n + 1 \in S
  <2> SUFFICES ASSUME n + 1 <= Size(t.shift) PROVE Halfway(t, sh, f[n + 1], n + 1)
    OBVIOUS
  <2>1. n \in 0 .. Size(t.shift) - 1 /\ Halfway(t, sh, f[n], n)
    BY <1>1, <1>5
  <2>2. f[n + 1] = Moved(f[n], t, n, sh)
    BY <1>1, <1>3
  <2> QED
    BY <2>1, <2>2, MovedHalfway
<1>6. Size(t.shift) \in S
  <2> HIDE DEF S
  <2> QED
    BY <1>1, <1>4, <1>5, Induction
<1> QED
  BY <1>1, <1>2, <1>6

\* No rank is stored twice, so there are not more entries than ranks.
LEMMA RealBound ==
    ASSUME NEW t, TableOK(t)
    PROVE  Cardinality(Real(t)) <= Cardinality(Rank)
<1> DEFINE f == [i \in Real(t) |-> t.keys[i][1]]
<1>1. f \in [Real(t) -> Rank]
  BY DEF TableOK, Sound, Real, KeyObject
<1>2. \A i, j \in Real(t) : f[i] = f[j] => i = j
  BY DEF TableOK, Sound, Real
<1>3. f \in Injection(Real(t), Rank)
  BY <1>1, <1>2 DEF Injection, IsInjective
<1> HIDE DEF f
<1> QED
  BY <1>3, FS_Injection, RankAssumption

\* After MaybeResize a table has an unused slot again, and its entries.
LEMMA ResizeOK ==
    ASSUME NEW t, TableOK(t)
    PROVE  /\ TableOK(MaybeResize(t))
           /\ MaybeResize(t).noccupied < Size(MaybeResize(t).shift)
           /\ EntriesOf(MaybeResize(t)) = EntriesOf(t)
<1>1. t.shift \in 0 .. MaxShift /\ Size(t.shift) \in Nat /\ IsFiniteSet(Slots(t.shift))
  BY Sizes DEF TableOK
<1>2. IsFiniteSet(Real(t)) /\ IsFiniteSet(Occupied(t))
  BY <1>1, FS_Subset DEF Real, Occupied
<1>3. t.nnodes \in Nat /\ t.noccupied \in Nat
  BY <1>2, FS_CardinalityType DEF TableOK
<1>4. CASE MaybeResize(t) = t /\ Size(t.shift) > t.noccupied + t.noccupied \div 16
  <2>1. t.noccupied < Size(t.shift)
    BY <1>1, <1>3, <1>4
  <2> QED
    BY <1>4, <2>1
<1>5. CASE MaybeResize(t) = ResizeInternal(t)
  <2> DEFINE sh == ShiftFromSize(t.nnodes * 2)
             a == Rehashed(t, sh)
             u == ResizeInternal(t)
  <2>1. sh \in 0 .. MaxShift /\ t.nnodes * 2 < Size(sh)
    <3>1. t.nnodes * 2 \in Nat /\ t.nnodes * 2 < Size(MaxShift)
      <4>1. t.nnodes <= Cardinality(Rank) /\ Cardinality(Rank) \in Nat
        BY RealBound, RankAssumption, FS_CardinalityType DEF TableOK
      <4>2. Size(MaxShift) \in Nat /\ 2 * Cardinality(Rank) < Size(MaxShift)
        BY RankAssumption, Sizes DEF MaxShift
      <4> QED
        BY <1>3, <4>1, <4>2
    <3>2. sh \in MinShift .. MaxShift /\ t.nnodes * 2 < Size(sh)
      BY <3>1, Shifts
    <3> QED
      BY <3>2, ShiftAssumption DEF MaxShift
  <2>2. Size(sh) \in Nat
    BY <2>1, Sizes
  <2>3. Cardinality(Real(t)) < Size(sh)
    BY <1>3, <2>1, <2>2 DEF TableOK
  <2>4. Halfway(t, sh, a, Size(t.shift))
    BY <2>1, <2>3, RehashedSound
  <2>5. Old(t, Size(t.shift)) = Real(t)
    BY <1>1, OldReal
  <2>6. /\ u.shift = sh /\ u.nnodes = t.nnodes /\ u.noccupied = t.nnodes
        /\ u.hashes = a.hashes /\ u.keys = a.keys /\ u.values = a.values
    BY DEF ResizeInternal
  <2> HIDE DEF u, a, sh
  <2>7. Real(u) = {i \in Slots(sh) : IsReal(a.hashes[i])} /\ Occupied(u) = Real(u)
    BY <2>4, <2>6 DEF Real, Occupied, Halfway, IsReal, Unused
  <2>8. Cardinality(Real(u)) = t.nnodes
    BY <2>4, <2>5, <2>7 DEF Halfway, TableOK
  <2>9. ArraysOK(sh, u)
    BY <2>4, <2>6 DEF Halfway, ArraysOK
  <2>10. TableOK(u)
    BY <2>1, <2>4, <2>6, <2>7, <2>8, <2>9 DEF TableOK, Halfway
  <2>11. EntriesOf(u) = EntriesOf(t)
    BY <2>4, <2>5, <2>6, <2>7 DEF EntriesOf, Halfway
  <2>12. u.noccupied < Size(u.shift)
    BY <1>3, <2>1, <2>2, <2>6
  <2> QED
    BY <1>5, <2>10, <2>11, <2>12 DEF u
<1>6. ~(Size(t.shift) <= t.noccupied + t.noccupied \div 16)
         => Size(t.shift) > t.noccupied + t.noccupied \div 16
  BY <1>1, <1>3
<1> QED
  BY <1>4, <1>5, <1>6 DEF MaybeResize

(***************************************************************************)
(* Searching.                                                              *)
(***************************************************************************)

\* What the invariant says of the variables.
LEMMA Variables ==
    ASSUME IInv
    PROVE  /\ shift \in 0 .. MaxShift /\ Size(shift) \in Nat /\ IsFiniteSet(Slots(shift))
           /\ hashes \in [Slots(shift) -> Nat]
           /\ keys \in [Slots(shift) -> KeyObject \cup {NULL}]
           /\ values \in [Slots(shift) -> Value]
           /\ Sound(shift, hashes, keys)
           /\ Real(Current) = RealSlots /\ RealSlots \subseteq Slots(shift)
           /\ nnodes = Cardinality(RealSlots) /\ IsFiniteSet(RealSlots)
           /\ noccupied = Cardinality({i \in Slots(shift) : hashes[i] # Unused})
           /\ EntriesOf(Current) = Entries
<1>1. /\ shift \in 0 .. MaxShift
      /\ hashes \in [Slots(shift) -> Nat]
      /\ keys \in [Slots(shift) -> KeyObject \cup {NULL}]
      /\ values \in [Slots(shift) -> Value]
      /\ Sound(shift, hashes, keys)
      /\ nnodes = Cardinality(Real(Current))
      /\ noccupied = Cardinality({i \in Slots(shift) : hashes[i] # Unused})
  BY DEF IInv, TableOK, ArraysOK, Current, Occupied
<1>2. Size(shift) \in Nat /\ IsFiniteSet(Slots(shift))
  BY <1>1, Sizes
<1>3. Real(Current) = RealSlots /\ RealSlots \subseteq Slots(shift)
  BY <1>1 DEF Real, Current, RealSlots
<1>4. EntriesOf(Current) = Entries
  BY <1>3 DEF EntriesOf, Entries, Current
<1> QED
  BY <1>1, <1>2, <1>3, <1>4, FS_Subset

\* A search meets an unused slot.
LEMMA MeetsUnused ==
    ASSUME IInv, NEW h \in Nat
    PROVE  \E n \in Slots(shift) : hashes[ProbeAt(h, n, shift)] = Unused
<1> DEFINE full == {i \in Slots(shift) : hashes[i] # Unused}
<1>1. full \in SUBSET Slots(shift) /\ Cardinality(full) < Size(shift) /\ shift \in 0 .. MaxShift
  BY Variables DEF IInv
<1>2. PICK n \in Slots(shift) : ProbeAt(h, n, shift) \notin full
  <2> HIDE DEF full
  <2> QED
    BY <1>1, ProbeReaches
<1>3. n \in Nat
  BY Variables DEF Slots
<1>4. ProbeAt(h, n, shift) \in Slots(shift)
  BY <1>1, <1>3, ProbeSlots
<1> QED
  BY <1>2, <1>4

\* LookupNode finds the rank, or a slot where it may be inserted.
LEMMA Lookup ==
    ASSUME IInv, NEW r \in Rank
    PROVE  /\ LookupNode(r) \in Slots(shift)
           /\ IsReal(hashes[LookupNode(r)]) => keys[LookupNode(r)][1] = r
           /\ ~IsReal(hashes[LookupNode(r)]) =>
                 /\ \A j \in RealSlots : keys[j][1] # r
                 /\ Before(shift, hashes, HashValue(r), LookupNode(r))
<1> DEFINE h == HashValue(r)
           stops == {i \in Slots(shift) : hashes[i] = Unused \/ Holds(i, r)}
           len == ProbeLength(h, shift, stops)
           passed == {m \in 0 .. len - 1 : hashes[ProbeAt(h, m, shift)] = Tombstone}
           found == Holds(ProbeAt(h, len, shift), r)
           first == CHOOSE m \in passed : \A q \in passed : m <= q
<1>1. h \in Nat /\ IsReal(h)
  BY HashValues
<1>2. shift \in 0 .. MaxShift /\ Size(shift) \in Nat
  BY Variables
<1>3. \A n \in Nat : ProbeAt(h, n, shift) \in Slots(shift)
  BY <1>1, <1>2, ProbeSlots
<1>4. Slots(shift) \subseteq Nat /\ \A n \in Slots(shift) : 0 .. n \subseteq Slots(shift)
  BY <1>2 DEF Slots
<1>5. PICK n \in Slots(shift) : ProbeAt(h, n, shift) \in stops
  BY <1>1, <1>3, <1>4, MeetsUnused
<1>6. /\ len \in Slots(shift)
      /\ ProbeAt(h, len, shift) \in stops
      /\ \A m \in 0 .. len - 1 : ProbeAt(h, m, shift) \notin stops
  <2>1. /\ len \in 0 .. n
        /\ ProbeAt(h, len, shift) \in stops
        /\ \A m \in 0 .. len - 1 : ProbeAt(h, m, shift) \notin stops
    <3> HIDE DEF stops, h
    <3> QED
      BY <1>1, <1>2, <1>5, ProbeStops
  <2> QED
    BY <1>4, <1>5, <2>1
<1>7. \A m \in 0 .. len - 1 : m \in Nat /\ hashes[ProbeAt(h, m, shift)] # Unused
  BY <1>3, <1>4, <1>6
<1>8. LookupNode(r) = IF found \/ passed = {} THEN ProbeAt(h, len, shift)
                      ELSE ProbeAt(h, first, shift)
  BY DEF LookupNode
<1>9. CASE found
  <2>1. LookupNode(r) = ProbeAt(h, len, shift) /\ LookupNode(r) \in Slots(shift)
    BY <1>6, <1>8, <1>9
  <2>2. hashes[LookupNode(r)] = h /\ keys[LookupNode(r)][1] = r
    BY <1>9, <2>1 DEF Holds
  <2> QED
    BY <1>1, <2>1, <2>2
<1>10. CASE ~found
  <2>1. hashes[ProbeAt(h, len, shift)] = Unused
    BY <1>6, <1>10
  <2>2. ASSUME NEW j \in RealSlots, keys[j][1] = r
        PROVE  FALSE
    <3>1. j \in Slots(shift) /\ IsReal(hashes[j]) /\ Sound(shift, hashes, keys)
      BY Variables DEF RealSlots
    <3>2. hashes[j] = h /\ Before(shift, hashes, h, j)
      BY <2>2, <3>1 DEF Sound
    <3>3. PICK k \in Slots(shift) :
             /\ ProbeAt(h, k, shift) = j
             /\ \A m \in 0 .. k - 1 : hashes[ProbeAt(h, m, shift)] # Unused
      BY <3>2 DEF Before
    <3>4. j \in stops
      BY <2>2, <3>1, <3>2 DEF Holds
    <3>5. k \notin 0 .. len - 1 /\ len \notin 0 .. k - 1
      BY <1>6, <2>1, <3>3, <3>4
    <3>6. k = len
      BY <1>4, <1>6, <3>3, <3>5
    <3> QED
      BY <1>1, <2>1, <3>2, <3>3, <3>6 DEF IsReal, Unused
  <2>3. CASE passed = {}
    <3>1. LookupNode(r) = ProbeAt(h, len, shift) /\ LookupNode(r) \in Slots(shift)
      BY <1>6, <1>8, <2>3
    <3>2. Before(shift, hashes, h, LookupNode(r))
      BY <1>6, <1>7, <3>1 DEF Before
    <3> QED
      BY <2>1, <2>2, <3>1, <3>2 DEF IsReal, Unused
  <2>4. CASE passed # {}
    <3>1. first \in passed
      <4>1. passed \in SUBSET Nat
        BY <1>7
      <4>2. \E m \in passed : \A q \in passed : m <= q
        <5> HIDE DEF passed
        <5> QED
          BY <2>4, <4>1, Least
      <4> HIDE DEF passed
      <4> QED
        BY <4>2
    <3> HIDE DEF first
    <3>2. first \in 0 .. len - 1 /\ hashes[ProbeAt(h, first, shift)] = Tombstone
      BY <3>1
    <3>3. LookupNode(r) = ProbeAt(h, first, shift) /\ LookupNode(r) \in Slots(shift)
      BY <1>3, <1>7, <1>8, <1>10, <2>4, <3>2
    <3>4. Before(shift, hashes, h, LookupNode(r))
      <4>1. len \in Nat /\ 0 .. len \subseteq Slots(shift)
        BY <1>4, <1>6
      <4>2. first \in 0 .. len /\ \A m \in 0 .. first - 1 : m \in 0 .. len - 1
        <5> HIDE DEF len
        <5> QED
          BY <3>2, <4>1
      <4>3. first \in Slots(shift)
        BY <4>1, <4>2
      <4> QED
        BY <1>7, <3>3, <4>2, <4>3 DEF Before
    <3> QED
      BY <2>2, <3>2, <3>3, <3>4 DEF IsReal, Tombstone
  <2> QED
    BY <2>3, <2>4
<1> QED
  BY <1>9, <1>10

\* The entry that a lookup of its rank finds is the only one.
LEMMA LookupEntry ==
    ASSUME IInv, NEW i \in RealSlots
    PROVE  LookupNode(keys[i][1]) = i
<1>1. i \in Slots(shift) /\ IsReal(hashes[i]) /\ Sound(shift, hashes, keys)
  BY Variables DEF RealSlots
<1>2. keys[i] \in KeyObject /\ keys[i][1] \in Rank
  BY <1>1 DEF Sound, KeyObject
<1>3. LookupNode(keys[i][1]) \in Slots(shift) /\ IsReal(hashes[LookupNode(keys[i][1])])
  BY <1>2, Lookup
<1>4. keys[LookupNode(keys[i][1])][1] = keys[i][1]
  BY <1>2, <1>3, Lookup
<1> QED
  BY <1>1, <1>3, <1>4 DEF Sound

(***************************************************************************)
(* The operations.                                                         *)
(***************************************************************************)

\* A step that makes the table t.
LEMMA BecomeOK ==
    ASSUME NEW t, TableOK(t), t.noccupied < Size(t.shift), Become(t), aliased' \in BOOLEAN
    PROVE  IInv' /\ Entries' = EntriesOf(t)
<1>1. /\ Current'.shift = t.shift /\ Current'.nnodes = t.nnodes
      /\ Current'.noccupied = t.noccupied /\ Current'.hashes = t.hashes
      /\ Current'.keys = t.keys /\ Current'.values = t.values
  BY DEF Current, Become
<1>2. TableOK(Current')
  BY <1>1 DEF TableOK, ArraysOK, Real, Occupied
<1>3. noccupied' < Size(shift')
  BY DEF Become
<1>4. DOMAIN hashes' = Slots(t.shift)
  BY DEF Become, TableOK, ArraysOK
<1>5. Entries' = EntriesOf(t)
  BY <1>4 DEF Entries, RealSlots, EntriesOf, Real, Become
<1> QED
  BY <1>2, <1>3, <1>5 DEF IInv

\* hash_table_insert_node on an entry.
LEMMA OverwriteOK ==
    ASSUME IInv, NEW k \in KeyObject, NEW v \in Val \cup {k}, NEW b \in BOOLEAN,
           NEW i, i = LookupNode(k[1]), Overwrite(i, k, v, b), v = k => b
    PROVE  /\ IInv'
           /\ i \in RealSlots /\ keys[i][1] = k[1]
           /\ Entries' = {[key |-> keys[j], value |-> values[j]] : j \in RealSlots \ {i}}
                         \cup {[key |-> IF b THEN k ELSE keys[i], value |-> v]}
<1>1. k[1] \in Rank /\ v \in Value
  BY DEF KeyObject, Value
<1>2. /\ hashes \in [Slots(shift) -> Nat]
      /\ keys \in [Slots(shift) -> KeyObject \cup {NULL}]
      /\ values \in [Slots(shift) -> Value]
      /\ Sound(shift, hashes, keys)
  BY Variables
<1>3. i \in Slots(shift) /\ IsReal(hashes[i]) /\ keys[i][1] = k[1] /\ keys[i] \in KeyObject
  <2>1. i \in Slots(shift) /\ IsReal(hashes[i])
    BY <1>1, Lookup DEF Overwrite
  <2> QED
    BY <1>1, <1>2, <2>1, Lookup DEF Sound
<1>4. i \in RealSlots
  BY <1>2, <1>3 DEF RealSlots
<1> DEFINE key == IF b THEN k ELSE keys[i]
<1>5. /\ keys' = [keys EXCEPT ![i] = key] /\ values' = [values EXCEPT ![i] = v]
      /\ aliased' \in BOOLEAN
      /\ UNCHANGED <<shift, nnodes, noccupied, hashes>>
  BY DEF Overwrite
<1>6. key \in KeyObject /\ key[1] = keys[i][1]
  BY <1>3
<1> HIDE DEF key
<1>7. \A j \in Slots(shift) : /\ keys'[j] = IF j = i THEN key ELSE keys[j]
                              /\ values'[j] = IF j = i THEN v ELSE values[j]
  BY <1>2, <1>5
<1>8. Sound(shift, hashes, keys')
  <2>1. \A j \in Slots(shift) : keys'[j][1] = keys[j][1]
                                /\ (keys[j] \in KeyObject => keys'[j] \in KeyObject)
    BY <1>6, <1>7
  <2> QED
    BY <1>2, <2>1 DEF Sound
<1>9. keys' \in [Slots(shift) -> KeyObject \cup {NULL}] /\ values' \in [Slots(shift) -> Value]
  BY <1>1, <1>2, <1>5, <1>6
<1>10. TableOK(Current')
  BY <1>2, <1>5, <1>8, <1>9 DEF IInv, TableOK, ArraysOK, Current, Real, Occupied
<1>11. IInv'
  BY <1>5, <1>10 DEF IInv
<1>12. Entries' = {[key |-> keys[j], value |-> values[j]] : j \in RealSlots \ {i}}
                  \cup {[key |-> key, value |-> v]}
  <2>1. RealSlots' = RealSlots /\ RealSlots \subseteq Slots(shift)
    BY <1>2, <1>5 DEF RealSlots
  <2>2. \A j \in RealSlots \ {i} : keys'[j] = keys[j] /\ values'[j] = values[j]
    BY <1>7, <2>1
  <2>3. keys'[i] = key /\ values'[i] = v
    BY <1>3, <1>7
  <2> HIDE DEF RealSlots
  <2> QED
    BY <1>4, <2>1, <2>2, <2>3 DEF Entries
<1> QED
  BY <1>3, <1>4, <1>11, <1>12 DEF key

\* hash_table_insert_node on an unused slot or a tombstone.
LEMMA OccupyOK ==
    ASSUME IInv, NEW k \in KeyObject, NEW v \in Val \cup {k},
           NEW i, i = LookupNode(k[1]), Occupy(i, k, v)
    PROVE  /\ IInv'
           /\ \A j \in RealSlots : keys[j][1] # k[1]
           /\ Entries' = Entries \cup {[key |-> k, value |-> v]}
<1> DEFINE h == HashValue(k[1])
           t == [shift     |-> shift,
                 nnodes    |-> nnodes + 1,
                 noccupied |-> noccupied + IF hashes[i] = Unused THEN 1 ELSE 0,
                 hashes    |-> [hashes EXCEPT ![i] = h],
                 keys      |-> [keys EXCEPT ![i] = k],
                 values    |-> [values EXCEPT ![i] = v]]
           u == IF hashes[i] = Unused THEN MaybeResize(t) ELSE t
<1>1. k[1] \in Rank /\ v \in Value
  BY DEF KeyObject, Value
<1>2. /\ shift \in 0 .. MaxShift /\ IsFiniteSet(Slots(shift))
      /\ hashes \in [Slots(shift) -> Nat]
      /\ keys \in [Slots(shift) -> KeyObject \cup {NULL}]
      /\ values \in [Slots(shift) -> Value]
      /\ Sound(shift, hashes, keys)
      /\ RealSlots \subseteq Slots(shift) /\ IsFiniteSet(RealSlots)
      /\ nnodes = Cardinality(RealSlots)
      /\ noccupied = Cardinality(Occupied(Current))
  BY Variables DEF Occupied, Current
<1>3. /\ i \in Slots(shift) /\ ~IsReal(hashes[i])
      /\ \A j \in RealSlots : keys[j][1] # k[1]
      /\ Before(shift, hashes, h, i)
  BY <1>1, Lookup DEF Occupy
<1>4. h \in Nat /\ IsReal(h) /\ h # Unused
  BY <1>1, HashValues DEF IsReal, Unused
<1>5. ArraysOK(shift, Current)
  BY <1>2 DEF ArraysOK, Current
<1>6. /\ t.shift = shift /\ t.nnodes = nnodes + 1
      /\ t.noccupied = noccupied + (IF hashes[i] = Unused THEN 1 ELSE 0)
      /\ t.hashes = [hashes EXCEPT ![i] = h]
      /\ t.keys = [keys EXCEPT ![i] = k] /\ t.values = [values EXCEPT ![i] = v]
  OBVIOUS
<1>7. /\ Current.hashes = hashes /\ Current.keys = keys /\ Current.values = values
      /\ Current.shift = shift
  BY DEF Current
<1>8. Become(u) /\ aliased' \in BOOLEAN
  BY DEF Occupy
<1> HIDE DEF t, h
<1>9. ArraysOK(shift, t) /\ Sound(shift, t.hashes, t.keys)
  <2>1. \A j \in Slots(shift) : IsReal(Current.hashes[j]) => Current.keys[j][1] # k[1]
    BY <1>2, <1>3, <1>7 DEF RealSlots
  <2>2. h = HashValue(k[1])
    BY DEF h
  <2>3. /\ Sound(shift, Current.hashes, Current.keys)
        /\ ~IsReal(Current.hashes[i]) /\ Before(shift, Current.hashes, h, i)
        /\ t.hashes = [Current.hashes EXCEPT ![i] = h]
        /\ t.keys = [Current.keys EXCEPT ![i] = k]
        /\ t.values = [Current.values EXCEPT ![i] = v]
    BY <1>2, <1>3, <1>6, <1>7
  <2> QED
    BY <1>1, <1>2, <1>3, <1>5, <2>1, <2>2, <2>3, PutSound
<1>10. \A j \in Slots(shift) : /\ t.hashes[j] = IF j = i THEN h ELSE hashes[j]
                               /\ t.keys[j] = IF j = i THEN k ELSE keys[j]
                               /\ t.values[j] = IF j = i THEN v ELSE values[j]
  BY <1>2, <1>6
<1>11. Real(t) = RealSlots \cup {i} /\ i \notin RealSlots
  BY <1>2, <1>3, <1>4, <1>6, <1>10 DEF Real, RealSlots
<1>12. Occupied(t) = Occupied(Current) \cup {i}
       /\ (i \in Occupied(Current) <=> hashes[i] # Unused)
  BY <1>3, <1>4, <1>6, <1>7, <1>10 DEF Occupied
<1>13. t.nnodes = Cardinality(Real(t))
  <2>1. Cardinality(RealSlots \cup {i}) = Cardinality(RealSlots) + 1
    BY <1>2, <1>11, FS_AddElement
  <2> QED
    BY <1>2, <1>6, <1>11, <2>1
<1>14. t.noccupied = Cardinality(Occupied(t)) /\ noccupied \in Nat
  <2>1. IsFiniteSet(Occupied(Current))
    <3>1. Occupied(Current) \in SUBSET Slots(shift)
      BY <1>7 DEF Occupied
    <3> QED
      BY <1>2, <3>1, FS_Subset
  <2>2. Cardinality(Occupied(Current)) \in Nat
    BY <2>1, FS_CardinalityType
  <2>3. Cardinality(Occupied(Current) \cup {i}) =
           IF i \in Occupied(Current) THEN Cardinality(Occupied(Current))
           ELSE Cardinality(Occupied(Current)) + 1
    BY <2>1, FS_AddElement
  <2> QED
    BY <1>2, <1>6, <1>12, <2>2, <2>3
<1>15. TableOK(t)
  BY <1>2, <1>6, <1>9, <1>13, <1>14 DEF TableOK
<1>16. EntriesOf(t) = Entries \cup {[key |-> k, value |-> v]}
  <2>1. \A j \in RealSlots : t.keys[j] = keys[j] /\ t.values[j] = values[j]
    BY <1>2, <1>10, <1>11
  <2>2. t.keys[i] = k /\ t.values[i] = v
    BY <1>3, <1>10
  <2> HIDE DEF RealSlots
  <2> QED
    BY <1>11, <2>1, <2>2 DEF EntriesOf, Entries
<1>17. TableOK(u) /\ u.noccupied < Size(u.shift) /\ EntriesOf(u) = EntriesOf(t)
  <2>1. CASE hashes[i] = Unused
    BY <1>15, <2>1, ResizeOK
  <2>2. CASE hashes[i] # Unused
    BY <1>6, <1>14, <1>15, <2>2 DEF IInv
  <2> QED
    BY <2>1, <2>2
<1> HIDE DEF u
<1> QED
  BY <1>3, <1>8, <1>16, <1>17, BecomeOK

\* hash_table_remove_node, also of several nodes, and of none.
LEMMA RemoveNodesOK ==
    ASSUME IInv, NEW S \in SUBSET RealSlots, RemoveNodes(S)
    PROVE  /\ IInv'
           /\ Entries' = {[key |-> keys[j], value |-> values[j]] : j \in RealSlots \ S}
<1>1. /\ shift \in 0 .. MaxShift
      /\ hashes \in [Slots(shift) -> Nat]
      /\ keys \in [Slots(shift) -> KeyObject \cup {NULL}]
      /\ values \in [Slots(shift) -> Value]
      /\ Sound(shift, hashes, keys)
      /\ RealSlots \subseteq Slots(shift) /\ IsFiniteSet(RealSlots)
      /\ nnodes = Cardinality(RealSlots)
  BY Variables
<1>2. /\ \A i \in Slots(shift) : hashes'[i] = IF i \in S THEN Tombstone ELSE hashes[i]
      /\ \A i \in Slots(shift) : keys'[i] = IF i \in S THEN NULL ELSE keys[i]
      /\ \A i \in Slots(shift) : values'[i] = IF i \in S THEN NULL ELSE values[i]
      /\ hashes' \in [Slots(shift) -> Nat]
      /\ keys' \in [Slots(shift) -> KeyObject \cup {NULL}]
      /\ values' \in [Slots(shift) -> Value]
      /\ nnodes' = nnodes - Cardinality(S)
      /\ UNCHANGED <<shift, noccupied, aliased>>
  BY <1>1 DEF RemoveNodes, Tombstone, Value
<1>3. RealSlots' = RealSlots \ S
  BY <1>1, <1>2 DEF RealSlots, IsReal, Tombstone
<1>4. \A i \in Slots(shift) : hashes'[i] # Unused <=> hashes[i] # Unused
  BY <1>2 DEF RealSlots, IsReal, Tombstone, Unused
<1>5. Sound(shift, hashes', keys')
  <2>1. ASSUME NEW h \in Nat, NEW i, Before(shift, hashes, h, i)
        PROVE  Before(shift, hashes', h, i)
    <3>1. \A m \in Nat : ProbeAt(h, m, shift) \in Slots(shift)
      BY <1>1, ProbeSlots
    <3>2. PICK n \in Slots(shift) :
             /\ ProbeAt(h, n, shift) = i
             /\ \A m \in 0 .. n - 1 : hashes[ProbeAt(h, m, shift)] # Unused
      BY <2>1 DEF Before
    <3>3. \A m \in 0 .. n - 1 : hashes'[ProbeAt(h, m, shift)] # Unused
      BY <1>4, <3>1, <3>2
    <3> QED
      BY <3>2, <3>3 DEF Before
  <2>2. \A i \in Slots(shift) : IsReal(hashes'[i]) =>
           IsReal(hashes[i]) /\ hashes'[i] = hashes[i] /\ keys'[i] = keys[i]
    BY <1>2 DEF IsReal, Tombstone
  <2> QED
    BY <1>1, <2>1, <2>2 DEF Sound
<1>6. nnodes' = Cardinality(RealSlots \ S)
  <2>1. RealSlots \cap S = S
    OBVIOUS
  <2> QED
    BY <1>1, <1>2, <2>1, FS_Difference
<1>7. Occupied(Current') = Occupied(Current)
  BY <1>2, <1>4 DEF Occupied, Current
<1>8. Real(Current') = RealSlots \ S
  BY <1>2, <1>3 DEF Real, Current, RealSlots
<1>9. TableOK(Current')
  BY <1>1, <1>2, <1>5, <1>6, <1>7, <1>8 DEF IInv, TableOK, ArraysOK, Current
<1>10. IInv'
  BY <1>2, <1>9 DEF IInv
<1>11. Entries' = {[key |-> keys[j], value |-> values[j]] : j \in RealSlots \ S}
  <2>1. \A j \in RealSlots \ S : keys'[j] = keys[j] /\ values'[j] = values[j]
    BY <1>1, <1>2
  <2> HIDE DEF RealSlots
  <2> QED
    BY <1>3, <2>1 DEF Entries
<1> QED
  BY <1>10, <1>11

\* An empty table, of any size.
LEMMA EmptyOK ==
    ASSUME NEW sh \in 0 .. MaxShift, NEW t, t.shift = sh, t.nnodes = 0, t.noccupied = 0,
           t.hashes = EmptyArrays(sh).hashes, t.keys = EmptyArrays(sh).keys,
           t.values = EmptyArrays(sh).values
    PROVE  TableOK(t) /\ EntriesOf(t) = {} /\ t.noccupied < Size(t.shift)
<1>1. ArraysOK(sh, t) /\ Sound(sh, t.hashes, t.keys)
  BY EmptySound DEF ArraysOK
<1>2. Real(t) = {} /\ Occupied(t) = {}
  BY EmptySound DEF Real, Occupied, IsReal, Unused
<1>3. Size(sh) \in Nat \ {0}
  BY Sizes
<1> QED
  BY <1>1, <1>2, <1>3, FS_EmptySet DEF TableOK, EntriesOf

LEMMA Initially == Init => IInv /\ Entries = {} /\ ret = Nothing
<1> SUFFICES ASSUME Init PROVE IInv /\ Entries = {} /\ ret = Nothing
  OBVIOUS
<1>1. MinShift \in 0 .. MaxShift
  BY ShiftAssumption
<1>2. TableOK(Current) /\ EntriesOf(Current) = {} /\ noccupied < Size(shift)
  BY <1>1, EmptyOK DEF Init, Current
<1>3. IInv
  BY <1>2 DEF IInv, Init
<1> QED
  BY <1>2, <1>3, Variables DEF Init

\* The operations that leave the entries alone or clear them.
LEMMA RemoveAllOK ==
    ASSUME IInv, RemoveAll
    PROVE  IInv' /\ Entries' = {}
<1> DEFINE a == EmptyArrays(shift)
           t == [shift |-> shift, nnodes |-> 0, noccupied |-> 0,
                 hashes |-> a.hashes, keys |-> a.keys, values |-> a.values]
<1>1. TableOK(t) /\ EntriesOf(t) = {}
  BY Variables, EmptyOK
<1>2. Become(MaybeResize(t)) /\ aliased' = aliased
  BY DEF RemoveAll
<1> HIDE DEF t
<1> QED
  BY <1>1, <1>2, ResizeOK, BecomeOK DEF IInv

LEMMA FreeOK ==
    ASSUME Free
    PROVE  IInv' /\ Entries' = {}
<1> DEFINE a == EmptyArrays(MinShift)
           t == [shift |-> MinShift, nnodes |-> 0, noccupied |-> 0,
                 hashes |-> a.hashes, keys |-> a.keys, values |-> a.values]
<1>1. TableOK(t) /\ EntriesOf(t) = {} /\ t.noccupied < Size(t.shift)
  BY ShiftAssumption, EmptyOK
<1>2. Become(t) /\ aliased' = TRUE
  BY DEF Free
<1> HIDE DEF t
<1> QED
  BY <1>1, <1>2, BecomeOK

LEMMA ResizeStepOK ==
    ASSUME IInv, Resize
    PROVE  IInv' /\ Entries' = Entries
BY ResizeOK, BecomeOK, Variables DEF Resize, IInv

(***************************************************************************)
(* What the table is: a dictionary.                                        *)
(***************************************************************************)

\* The map that a set of entries, one of a rank, stands for.
Functional(E) == \A d, e \in E : d.key[1] = e.key[1] => d = e
MapOf(E) == [r \in {e.key[1] : e \in E} |-> CHOOSE e \in E : e.key[1] = r]

LEMMA MapIs ==
    ASSUME NEW E, Functional(E), NEW D, NEW g, g = [r \in D |-> g[r]],
           D = {e.key[1] : e \in E}, \A e \in E : g[e.key[1]] = e
    PROVE  MapOf(E) = g
<1> SUFFICES ASSUME NEW r \in D PROVE (CHOOSE e \in E : e.key[1] = r) = g[r]
  BY DEF MapOf
<1>1. PICK e \in E : e.key[1] = r
  OBVIOUS
<1>2. (CHOOSE d \in E : d.key[1] = r) = e
  BY <1>1 DEF Functional
<1> QED
  BY <1>1, <1>2

EntryAt(i) == [key |-> keys[i], value |-> values[i]]

LEMMA ContentsAre ==
    ASSUME IInv
    PROVE  /\ Functional(Entries)
           /\ Contents = MapOf(Entries)
           /\ Entries = {EntryAt(i) : i \in RealSlots}
           /\ DOMAIN Contents = {keys[i][1] : i \in RealSlots}
           /\ \A i \in RealSlots : /\ keys[i] \in KeyObject
                                   /\ Contents[keys[i][1]] = EntryAt(i)
           /\ \A i, j \in RealSlots : keys[i][1] = keys[j][1] => i = j
<1>1. Sound(shift, hashes, keys) /\ RealSlots \subseteq Slots(shift)
  BY Variables
<1>2. \A i, j \in RealSlots : keys[i][1] = keys[j][1] => i = j
  BY <1>1 DEF Sound, RealSlots
<1>3. \A i \in RealSlots : keys[i] \in KeyObject
  BY <1>1 DEF Sound, RealSlots
<1>4. Entries = {EntryAt(i) : i \in RealSlots}
  BY DEF Entries, EntryAt
<1>5. \A i : EntryAt(i).key = keys[i]
  BY DEF EntryAt
<1> HIDE DEF RealSlots
<1>6. Functional(Entries)
  BY <1>2, <1>4, <1>5 DEF Functional
<1>7. {e.key[1] : e \in Entries} = {keys[i][1] : i \in RealSlots}
  BY <1>4, <1>5
<1>8. Contents = MapOf(Entries)
  BY DEF Contents, MapOf
<1>9. ASSUME NEW i \in RealSlots
      PROVE  MapOf(Entries)[keys[i][1]] = EntryAt(i)
  <2>1. MapOf(Entries)[keys[i][1]] = CHOOSE e \in Entries : e.key[1] = keys[i][1]
    BY <1>7 DEF MapOf
  <2>2. EntryAt(i) \in Entries /\ EntryAt(i).key[1] = keys[i][1]
    BY <1>4, <1>5
  <2> QED
    BY <1>6, <2>1, <2>2 DEF Functional
<1>10. DOMAIN MapOf(Entries) = {keys[i][1] : i \in RealSlots}
  BY <1>7 DEF MapOf
<1> QED
  BY <1>2, <1>3, <1>4, <1>6, <1>8, <1>9, <1>10

\* An insertion changes the map at its rank only.
LEMMA PutEntry ==
    ASSUME IInv, NEW k \in KeyObject, NEW e, e.key[1] = k[1],
           NEW S \in SUBSET RealSlots, \A i \in RealSlots : keys[i][1] = k[1] <=> i \notin S,
           Entries' = {EntryAt(i) : i \in S} \cup {e}
    PROVE  Contents' = Dict!With(k[1], e)
<1> DEFINE g == Dict!With(k[1], e)
           D == DOMAIN Contents \cup {k[1]}
           E == {EntryAt(i) : i \in S} \cup {e}
<1>1. \A i : EntryAt(i).key = keys[i]
  BY DEF EntryAt
<1>2. /\ \A i \in S : keys[i][1] # k[1]
      /\ \A i, j \in S : keys[i][1] = keys[j][1] => i = j
      /\ \A i \in S : Contents[keys[i][1]] = EntryAt(i)
  BY ContentsAre
<1>3. Functional(E)
  BY <1>1, <1>2 DEF Functional
<1>4. D = {d.key[1] : d \in E}
  <2>1. DOMAIN Contents = {keys[i][1] : i \in RealSlots}
    BY ContentsAre
  <2>2. {d.key[1] : d \in E} = {keys[i][1] : i \in S} \cup {k[1]}
    BY <1>1
  <2> QED
    BY <2>1, <2>2
<1>5. g = [q \in D |-> IF q = k[1] THEN e ELSE Contents[q]]
  BY DEF Dict!With
<1>6. \A d \in E : g[d.key[1]] = d
  <2>1. ASSUME NEW i \in S
        PROVE  g[EntryAt(i).key[1]] = EntryAt(i)
    <3>1. keys[i][1] \in D
      BY <1>1, <1>4
    <3> QED
      BY <1>1, <1>2, <1>5, <3>1
  <2>2. g[e.key[1]] = e
    BY <1>5
  <2> QED
    BY <2>1, <2>2
<1>7. MapOf(E) = g
  <2>1. g = [q \in D |-> g[q]]
    BY <1>5
  <2> HIDE DEF g, E, D
  <2> QED
    BY <1>3, <1>4, <1>6, <2>1, MapIs
<1>8. Contents' = MapOf(E)
  BY DEF Contents, MapOf
<1> QED
  BY <1>7, <1>8

\* A removal takes the ranks of its slots out of the map.
LEMMA TakeEntries ==
    ASSUME IInv, NEW S \in SUBSET RealSlots,
           Entries' = {EntryAt(i) : i \in RealSlots \ S}
    PROVE  /\ {keys[i][1] : i \in S} \subseteq DOMAIN Contents
           /\ Contents' = Dict!Without({keys[i][1] : i \in S})
           /\ ObjectsAt(S) = Dict!Objects({keys[i][1] : i \in S})
<1> DEFINE R == {keys[i][1] : i \in S}
           g == Dict!Without(R)
           D == DOMAIN Contents \ R
           E == {EntryAt(i) : i \in RealSlots \ S}
<1>1. \A i : EntryAt(i).key = keys[i]
  BY DEF EntryAt
<1>2. /\ \A i, j \in RealSlots : keys[i][1] = keys[j][1] => i = j
      /\ \A i \in RealSlots : Contents[keys[i][1]] = EntryAt(i)
      /\ DOMAIN Contents = {keys[i][1] : i \in RealSlots}
  BY ContentsAre
<1> HIDE DEF RealSlots
<1>3. Functional(E)
  BY <1>1, <1>2 DEF Functional
<1>4. D = {d.key[1] : d \in E}
  <2>1. {d.key[1] : d \in E} = {keys[i][1] : i \in RealSlots \ S}
    BY <1>1
  <2>2. {keys[i][1] : i \in RealSlots \ S} = {keys[i][1] : i \in RealSlots} \ R
    BY <1>2
  <2> QED
    BY <1>2, <2>1, <2>2
<1>5. g = [q \in D |-> Contents[q]]
  BY DEF Dict!Without
<1>6. \A d \in E : g[d.key[1]] = d
  <2> SUFFICES ASSUME NEW i \in RealSlots \ S
               PROVE  g[EntryAt(i).key[1]] = EntryAt(i)
    OBVIOUS
  <2>1. EntryAt(i).key[1] \in D
    BY <1>4
  <2> QED
    BY <1>1, <1>2, <1>5, <2>1
<1>7. MapOf(E) = g
  <2>1. g = [q \in D |-> g[q]]
    BY <1>5
  <2> HIDE DEF g, E, D
  <2> QED
    BY <1>3, <1>4, <1>6, <2>1, MapIs
<1>8. Contents' = MapOf(E)
  BY DEF Contents, MapOf
<1>9. ObjectsAt(S) = Dict!Objects(R)
  <2>1. \A i \in S : /\ Contents[keys[i][1]].key = keys[i]
                     /\ Contents[keys[i][1]].value = values[i]
    <3>1. \A i : EntryAt(i).key = keys[i] /\ EntryAt(i).value = values[i]
      BY DEF EntryAt
    <3>2. \A i \in S : Contents[keys[i][1]] = EntryAt(i)
      BY <1>2
    <3> QED
      BY <3>1, <3>2
  <2> QED
    BY <2>1 DEF ObjectsAt, Dict!Objects
<1> QED
  BY <1>2, <1>7, <1>8, <1>9

\* hash_table_insert and hash_table_replace.
LEMMA InsertStep ==
    ASSUME IInv, NEW k \in KeyObject, NEW v \in Val \cup {k}, NEW b \in BOOLEAN,
           Insert(k, v, b)
    PROVE  IInv' /\ Dict!MNext
<1>1. PICK i : i = LookupNode(k[1]) /\ (Overwrite(i, k, v, b) \/ Occupy(i, k, v))
  BY DEF Insert
<1> DEFINE e == [key |-> IF k[1] \in DOMAIN Contents /\ ~b THEN Contents[k[1]].key ELSE k,
                 value |-> v]
<1>2. /\ DOMAIN Contents = {keys[j][1] : j \in RealSlots}
      /\ Entries = {EntryAt(j) : j \in RealSlots}
      /\ \A j \in RealSlots : Contents[keys[j][1]] = EntryAt(j) /\ keys[j] \in KeyObject
      /\ \A j, m \in RealSlots : keys[j][1] = keys[m][1] => j = m
  BY ContentsAre
<1>3. \A j : EntryAt(j).key = keys[j] /\ EntryAt(j).value = values[j]
  BY DEF EntryAt
<1>4. k \in KeyObject \ Dict!Objects(DOMAIN Contents)
  <2>1. \A j \in RealSlots : k \notin {keys[j], values[j]}
    BY DEF Insert
  <2> HIDE DEF RealSlots
  <2> QED
    BY <1>2, <1>3, <2>1 DEF Dict!Objects
<1>5. e.key[1] = k[1]
  BY <1>2, <1>3
<1>6. SUFFICES IInv' /\ Contents' = Dict!With(k[1], e)
               /\ ret' = Outcome(TRUE, NULL, NULL,
                            IF k[1] \notin DOMAIN Contents THEN {}
                            ELSE {Contents[k[1]].value,
                                  IF b THEN Contents[k[1]].key ELSE k})
  <2>1. v \in Val \cup KeyObject
    OBVIOUS
  <2> QED
    BY <1>4, <2>1 DEF Dict!MNext, Dict!MPut, Dict!Outcome, Outcome, KeyObject, Dict!KeyObject
<1>7. CASE Overwrite(i, k, v, b)
  <2>1. v = k => b
    BY DEF Insert
  <2>2. /\ IInv' /\ i \in RealSlots /\ keys[i][1] = k[1]
        /\ Entries' = {EntryAt(j) : j \in RealSlots \ {i}}
                      \cup {[key |-> IF b THEN k ELSE keys[i], value |-> v]}
    BY <1>1, <1>7, <2>1, OverwriteOK DEF EntryAt
  <2>3. /\ k[1] \in DOMAIN Contents /\ Contents[k[1]] = EntryAt(i)
        /\ e = [key |-> IF b THEN k ELSE keys[i], value |-> v]
    BY <1>2, <1>3, <2>2
  <2>4. \A j \in RealSlots : keys[j][1] = k[1] <=> j \notin RealSlots \ {i}
    BY <1>2, <2>2
  <2>5. Contents' = Dict!With(k[1], e)
    <3> HIDE DEF e, RealSlots
    <3> QED
      BY <1>5, <2>2, <2>3, <2>4, PutEntry
  <2>6. ret' = Outcome(TRUE, NULL, NULL, {values[i], IF b THEN keys[i] ELSE k})
    BY <1>7 DEF Overwrite
  <2> QED
    BY <1>3, <2>2, <2>3, <2>5, <2>6
<1>8. CASE Occupy(i, k, v)
  <2>1. /\ IInv' /\ \A j \in RealSlots : keys[j][1] # k[1]
        /\ Entries' = Entries \cup {[key |-> k, value |-> v]}
    BY <1>1, <1>8, OccupyOK
  <2>2. k[1] \notin DOMAIN Contents
    BY <1>2, <2>1
  <2>3. e = [key |-> k, value |-> v]
    BY <2>2
  <2>4. Entries' = {EntryAt(j) : j \in RealSlots} \cup {e}
    BY <1>2, <2>1, <2>3
  <2>5. Contents' = Dict!With(k[1], e)
    <3> HIDE DEF e, RealSlots
    <3> QED
      BY <1>5, <2>1, <2>4, PutEntry
  <2>6. ret' = Outcome(TRUE, NULL, NULL, {})
    BY <1>8 DEF Occupy
  <2> QED
    BY <2>1, <2>2, <2>5, <2>6
<1> QED
  BY <1>1, <1>7, <1>8

\* The other operations.  What the table does not change it still is.
LEMMA SameTable ==
    ASSUME IInv, UNCHANGED table
    PROVE  IInv' /\ Contents' = Contents
<1>1. Current' = Current
  BY DEF table, Current
<1>2. TableOK(Current')
  BY <1>1 DEF IInv
<1>3. IInv'
  BY <1>2 DEF IInv, table
<1>4. Entries' = Entries
  BY DEF table, Entries, RealSlots
<1> QED
  BY <1>3, <1>4 DEF Contents

LEMMA LookupStep ==
    ASSUME IInv, NEW r \in Rank, LookupExtended(r)
    PROVE  IInv' /\ Dict!MNext
<1>1. IInv' /\ Contents' = Contents
  BY SameTable DEF LookupExtended
<1>2. /\ DOMAIN Contents = {keys[j][1] : j \in RealSlots}
      /\ \A j \in RealSlots : Contents[keys[j][1]] = EntryAt(j)
  BY ContentsAre
<1> DEFINE i == LookupNode(r)
<1>3. ret' = IF IsReal(hashes[i]) THEN Outcome(TRUE, keys[i], values[i], {}) ELSE Nothing
  BY DEF LookupExtended
<1>4. i \in RealSlots <=> IsReal(hashes[i])
  BY Lookup, Variables DEF RealSlots
<1>5. /\ IsReal(hashes[i]) => keys[i][1] = r
      /\ ~IsReal(hashes[i]) => \A j \in RealSlots : keys[j][1] # r
  BY Lookup
<1> HIDE DEF i, RealSlots
<1>6. ret' = IF r \in DOMAIN Contents
             THEN Outcome(TRUE, Contents[r].key, Contents[r].value, {}) ELSE Nothing
  <2>1. CASE IsReal(hashes[i])
    <3>1. r \in DOMAIN Contents /\ Contents[r] = EntryAt(i)
      BY <1>2, <1>4, <1>5, <2>1
    <3> QED
      BY <1>3, <2>1, <3>1 DEF EntryAt
  <2>2. CASE ~IsReal(hashes[i])
    BY <1>2, <1>3, <1>5, <2>2
  <2> QED
    BY <2>1, <2>2
<1> QED
  BY <1>1, <1>6 DEF Dict!MNext, Dict!MLookup, Dict!Outcome, Outcome, Dict!Nothing, Nothing

LEMMA RemoveStep ==
    ASSUME IInv, NEW r \in Rank, NEW b \in BOOLEAN, RemoveInternal(r, b)
    PROVE  IInv' /\ Dict!MNext
<1> DEFINE i == LookupNode(r)
<1>1. /\ DOMAIN Contents = {keys[j][1] : j \in RealSlots}
      /\ \A j \in RealSlots : Contents[keys[j][1]] = EntryAt(j)
  BY ContentsAre
<1>2. i \in RealSlots <=> IsReal(hashes[i])
  BY Lookup, Variables DEF RealSlots
<1>3. /\ IsReal(hashes[i]) => keys[i][1] = r
      /\ ~IsReal(hashes[i]) => \A j \in RealSlots : keys[j][1] # r
  BY Lookup
<1>4. CASE IsReal(hashes[i])
  <2>1. /\ RemoveNodes({i})
        /\ ret' = IF b THEN Outcome(TRUE, NULL, NULL, ObjectsAt({i}))
                  ELSE Outcome(TRUE, keys[i], values[i], {})
    BY <1>4 DEF RemoveInternal
  <2> HIDE DEF i
  <2>2. i \in RealSlots /\ {i} \in SUBSET RealSlots /\ keys[i][1] = r
    BY <1>2, <1>3, <1>4
  <2>3. IInv' /\ Entries' = {EntryAt(j) : j \in RealSlots \ {i}}
    BY <2>1, <2>2, RemoveNodesOK DEF EntryAt
  <2>4. {keys[j][1] : j \in {i}} = {r}
    BY <2>2
  <2>5. Contents' = Dict!Without({r}) /\ ObjectsAt({i}) = Dict!Objects({r})
    BY <2>2, <2>3, <2>4, TakeEntries
  <2>6. r \in DOMAIN Contents /\ Contents[r].key = keys[i] /\ Contents[r].value = values[i]
    <3>1. r \in DOMAIN Contents /\ Contents[r] = EntryAt(i)
      BY <1>1, <2>2
    <3> QED
      BY <3>1 DEF EntryAt
  <2>7. Dict!MDelete(r)
    BY <2>1, <2>5, <2>6 DEF Dict!MDelete, Dict!Outcome, Outcome
  <2> QED
    BY <2>3, <2>7 DEF Dict!MNext
<1>5. CASE ~IsReal(hashes[i])
  <2>1. ret' = Nothing /\ UNCHANGED table
    BY <1>5 DEF RemoveInternal
  <2>2. r \notin DOMAIN Contents
    BY <1>1, <1>3, <1>5
  <2>3. IInv' /\ Contents' = Contents
    BY <2>1, SameTable
  <2>4. Dict!MDelete(r)
    BY <2>1, <2>2, <2>3 DEF Dict!MDelete, Dict!Nothing, Nothing, Dict!Outcome, Outcome
  <2> QED
    BY <2>3, <2>4 DEF Dict!MNext
<1> QED
  BY <1>4, <1>5

\* hash_table_foreach_remove, hash_table_remove_all and hash_table_free.
LEMMA TakeStep ==
    ASSUME IInv, NEW S \in SUBSET RealSlots,
           Entries' = {EntryAt(j) : j \in RealSlots \ S},
           ret' = Outcome(TRUE, NULL, NULL, ObjectsAt(S))
    PROVE  Dict!MNext
BY TakeEntries DEF Dict!MNext, Dict!MDeleteAll, Dict!Outcome, Outcome

LEMMA ForeachRemoveStep ==
    ASSUME IInv, NEW R \in SUBSET Rank, ForeachRemove(R)
    PROVE  IInv' /\ Dict!MNext
<1>1. PICK S \in SUBSET RealSlots :
         RemoveNodes(S) /\ ret' = Outcome(TRUE, NULL, NULL, ObjectsAt(S))
  BY DEF ForeachRemove
<1>2. IInv' /\ Entries' = {EntryAt(j) : j \in RealSlots \ S}
  BY <1>1, RemoveNodesOK DEF EntryAt
<1> QED
  BY <1>1, <1>2, TakeStep

LEMMA ClearStep ==
    ASSUME IInv, RemoveAll \/ Free
    PROVE  IInv' /\ Dict!MNext
<1>1. IInv' /\ Entries' = {}
  BY RemoveAllOK, FreeOK
<1>2. ret' = Outcome(TRUE, NULL, NULL, ObjectsAt(RealSlots))
  BY DEF RemoveAll, Free
<1>3. Entries' = {EntryAt(j) : j \in RealSlots \ RealSlots}
  BY <1>1
<1> QED
  BY <1>1, <1>2, <1>3, TakeStep

LEMMA ResizeStep ==
    ASSUME IInv, Resize
    PROVE  IInv' /\ UNCHANGED <<Contents, ret>>
<1>1. IInv' /\ Entries' = Entries
  BY ResizeStepOK
<1> QED
  BY <1>1 DEF Contents, Resize

LEMMA Step ==
    ASSUME IInv, [Next]_vars
    PROVE  IInv' /\ [Dict!MNext]_(Dict!mapVars)
<1>1. CASE Next
  BY <1>1, InsertStep, LookupStep, RemoveStep, ForeachRemoveStep, ClearStep, ResizeStep
     DEF Next, Dict!mapVars
<1>2. CASE UNCHANGED vars
  BY <1>2, SameTable DEF vars, table, Dict!mapVars
<1> QED
  BY <1>1, <1>2

(***************************************************************************)
(* The theorems.                                                           *)
(***************************************************************************)

THEOREM Invariant == Spec => []IInv
<1>1. Init => IInv
  BY Initially
<1>2. IInv /\ [Next]_vars => IInv'
  BY Step
<1> QED
  BY <1>1, <1>2, PTL DEF Spec

\* The probe loops of hash_table.cpp, which have no bound, end for every key in
\* every state: a resize comes before the last unused slot is taken, and the
\* triangular steps reach it whatever the hash values are.
THEOREM SearchesEnd == Spec => []SearchEnds
<1>1. IInv => SearchEnds
  <2> SUFFICES ASSUME IInv, NEW r \in Rank
               PROVE  \E n \in 0 .. Size(shift) - 1 :
                         hashes[ProbeAt(HashValue(r), n, shift)] = Unused
    BY DEF SearchEnds
  <2> QED
    BY HashValues, MeetsUnused DEF Slots
<1> QED
  BY <1>1, Invariant, PTL

\* nnodes and noccupied, which decide when the table is resized, are exact.
THEOREM CountersExact == Spec => []CountsExact
<1>1. IInv => CountsExact
  <2> SUFFICES ASSUME IInv PROVE CountsExact
    OBVIOUS
  <2>1. DOMAIN hashes = Slots(shift)
    BY Variables
  <2> QED
    BY <2>1, Variables DEF CountsExact
<1> QED
  BY <1>1, Invariant, PTL

\* No entry is lost behind a tombstone or by a resize, and no key stored twice.
THEOREM EntriesAreFound == Spec => []EntriesFound
<1>1. IInv => EntriesFound
  BY LookupEntry DEF EntriesFound
<1> QED
  BY <1>1, Invariant, PTL

\* hash_table.h's promise, for any keys, hash function and order of calls: the
\* table is a dictionary, and destroys what leaves it.
THEOREM TableIsDictionary == Spec => ImplementsDictionary
<1>1. Init => Dict!MInit
  <2> SUFFICES ASSUME Init PROVE Dict!MInit
    OBVIOUS
  <2>1. Entries = {} /\ ret = Nothing
    BY Initially
  <2>2. Contents = [r \in {} |-> NULL]
    BY <2>1 DEF Contents
  <2> QED
    BY <2>1, <2>2 DEF Dict!MInit, Dict!Nothing, Nothing, Dict!Outcome, Outcome
<1>2. IInv /\ [Next]_vars => [Dict!MNext]_(Dict!mapVars)
  BY Step
<1> QED
  BY <1>1, <1>2, Invariant, PTL DEF Spec, ImplementsDictionary, Dict!MSpec
=============================================================================
