------------------------------- MODULE Numbers -------------------------------
(***************************************************************************)
(* Facts about natural numbers that the proofs about the tables and lists  *)
(* share: induction and minima, stated with sets, and powers of two.       *)
(***************************************************************************)
EXTENDS Integers, WellFoundedInduction, TLAPS

LessNat == {ss \in Nat \X Nat : ss[1] < ss[2]}

LEMMA LessNatWellFounded == IsWellFoundedOn(LessNat, Nat)
BY NatLessThanWellFounded DEF OpToRel, LessNat

\* Every set of numbers that is not empty has a least one.
LEMMA Least ==
    ASSUME NEW S \in SUBSET Nat, S # {}
    PROVE  \E n \in S : \A m \in S : n <= m
<1>1. PICK n \in S : \A m \in S : <<m, n>> \notin LessNat
  BY LessNatWellFounded, WFMin
<1>2. ASSUME NEW m \in S
      PROVE  n <= m
  <2>1. m < n => <<m, n>> \in LessNat
    BY DEF LessNat
  <2> QED
    BY <1>1, <2>1
<1> QED
  BY <1>2

\* A set that has 0 and with every number the next has all numbers.
LEMMA Induction ==
    ASSUME NEW S, 0 \in S, \A n \in Nat : n \in S => n + 1 \in S
    PROVE  \A n \in Nat : n \in S
<1> SUFFICES ASSUME Nat \ S # {} PROVE FALSE
  OBVIOUS
<1>1. PICK n \in Nat \ S : \A m \in Nat \ S : n <= m
  BY Least
<1>2. n # 0 /\ n - 1 \in Nat
  OBVIOUS
<1>3. n - 1 \in S
  BY <1>1, <1>2
<1> QED
  BY <1>2, <1>3

\* A product is odd when both factors are.
LEMMA OddProduct ==
    ASSUME NEW a \in Nat, NEW b \in Nat, NEW c \in Nat,
           a % 2 = 1, a * b = 2 * c
    PROVE  b % 2 = 0
<1> SUFFICES ASSUME b % 2 = 1 PROVE FALSE
  OBVIOUS
<1>1. PICK x \in Nat : a = 2 * x + 1
  OBVIOUS
<1>2. a * b = 2 * (x * b) + b
  BY <1>1
<1>3. PICK z \in Nat : z = x * b
  OBVIOUS
<1>4. 2 * c = 2 * z + b
  BY <1>2, <1>3
<1>5. b = 2 * (c - z)
  BY <1>4
<1>6. c - z \in Int
  OBVIOUS
<1> QED
  BY <1>5, <1>6

\* The powers of two up to one of them.
IsPowers(p, max) ==
    /\ p \in [0 .. max -> Nat \ {0}]
    /\ p[0] = 1
    /\ \A i \in 1 .. max : p[i] = 2 * p[i - 1]

\* The recursive function that doubles is defined, and gives them.
Doubles(f, max) == f = [n \in 0 .. max |-> IF n = 0 THEN 1 ELSE 2 * f[n - 1]]

LEMMA DoublesExists == \A max \in Nat : \E f : Doubles(f, max)
<1> DEFINE S == {k \in Nat : \E f : Doubles(f, k)}
<1>1. 0 \in S
  <2>1. Doubles([n \in 0 .. 0 |-> 1], 0)
    BY DEF Doubles
  <2> QED
    BY <2>1
<1>2. ASSUME NEW k \in Nat, k \in S
      PROVE  k + 1 \in S
  <2>1. PICK f : Doubles(f, k)
    BY <1>2
  <2> DEFINE g == [n \in 0 .. k + 1 |-> IF n = k + 1 THEN 2 * f[k] ELSE f[n]]
  <2>2. \A n \in 0 .. k + 1 : g[n] = IF n = 0 THEN 1 ELSE 2 * g[n - 1]
    <3> SUFFICES ASSUME NEW n \in 0 .. k + 1
                 PROVE  g[n] = IF n = 0 THEN 1 ELSE 2 * g[n - 1]
      OBVIOUS
    <3>1. CASE n = k + 1
      BY <3>1
    <3>2. CASE n \in 0 .. k
      <4>1. f[n] = IF n = 0 THEN 1 ELSE 2 * f[n - 1]
        BY <2>1, <3>2 DEF Doubles
      <4>2. g[n] = f[n] /\ (n # 0 => g[n - 1] = f[n - 1])
        BY <3>2
      <4> QED
        BY <4>1, <4>2
    <3> QED
      BY <3>1, <3>2
  <2>3. Doubles(g, k + 1)
    BY <2>2 DEF Doubles
  <2> HIDE DEF g
  <2> QED
    BY <2>3
<1>3. \A k \in Nat : k \in S
  <2> HIDE DEF S
  <2> QED
    BY <1>1, <1>2, Induction
<1> QED
  BY <1>3

LEMMA DoublesPowers ==
    ASSUME NEW max \in Nat, NEW f, Doubles(f, max)
    PROVE  IsPowers(f, max)
<1>1. f[0] = 1 /\ \A i \in 1 .. max : f[i] = 2 * f[i - 1]
  BY DEF Doubles
<1> DEFINE T == {k \in Nat : k <= max => f[k] \in Nat \ {0}}
<1>2. 0 \in T
  BY <1>1
<1>3. ASSUME NEW k \in Nat, k \in T
      PROVE  k + 1 \in T
  <2> SUFFICES ASSUME k + 1 <= max PROVE f[k + 1] \in Nat \ {0}
    OBVIOUS
  <2>1. f[k] \in Nat \ {0} /\ k + 1 \in 1 .. max
    BY <1>3
  <2>2. f[k + 1] = 2 * f[(k + 1) - 1] /\ (k + 1) - 1 = k
    BY <1>1, <2>1
  <2> QED
    BY <2>1, <2>2
<1>4. \A k \in Nat : k \in T
  <2> HIDE DEF T
  <2> QED
    BY <1>2, <1>3, Induction
<1>5. f = [n \in 0 .. max |-> f[n]]
  BY DEF Doubles
<1>6. \A k \in 0 .. max : f[k] \in Nat \ {0}
  BY <1>4
<1>7. f \in [0 .. max -> Nat \ {0}]
  BY <1>5, <1>6
<1> QED
  BY <1>1, <1>7 DEF IsPowers

\* A power of two that divides a product divides the one factor when the other
\* is odd.
LEMMA PowerDivides ==
    ASSUME NEW max \in Nat, NEW p, IsPowers(p, max), NEW i \in 0 .. max,
           NEW a \in Nat, a % 2 = 1
    PROVE  \A b, q \in Nat : a * b = p[i] * q => \E r \in Nat : b = p[i] * r
<1> DEFINE S == {j \in Nat : j <= max =>
                   \A x, y \in Nat : a * x = p[j] * y => \E r \in Nat : x = p[j] * r}
<1>1. 0 \in S
  BY DEF IsPowers
<1>2. ASSUME NEW j \in Nat, j \in S
      PROVE  j + 1 \in S
  <2> SUFFICES ASSUME j + 1 <= max, NEW x \in Nat, NEW y \in Nat, a * x = p[j + 1] * y
               PROVE  \E r \in Nat : x = p[j + 1] * r
    OBVIOUS
  <2>1. p[j] \in Nat \ {0} /\ p[j + 1] = 2 * p[j]
    BY DEF IsPowers
  <2>2. p[j + 1] * y = 2 * (p[j] * y) /\ p[j] * y \in Nat
    BY <2>1
  <2>3. x % 2 = 0
    BY <2>2, OddProduct
  <2>4. PICK z \in Nat : x = 2 * z
    BY <2>3
  <2>5. a * x = 2 * (a * z) /\ a * z \in Nat
    BY <2>4
  <2>6. a * z = p[j] * y
    BY <2>2, <2>5
  <2>7. PICK r \in Nat : z = p[j] * r
    BY <1>2, <2>6
  <2>8. x = p[j + 1] * r
    BY <2>1, <2>4, <2>7
  <2> QED
    BY <2>8
<1> HIDE DEF S
<1>3. i \in S
  BY <1>1, <1>2, Induction
<1> USE DEF S
<1> QED
  BY <1>3

\* Division with a remainder.
LEMMA Remainder ==
    ASSUME NEW a \in Int, NEW b \in Nat \ {0}
    PROVE  /\ a % b \in 0 .. b - 1
           /\ \E q \in Int : a = b * q + (a % b)
<1>1. a % b \in 0 .. b - 1
  OBVIOUS
<1>2. a = b * (a \div b) + (a % b) /\ a \div b \in Int
  OBVIOUS
<1> QED
  BY <1>1, <1>2

LEMMA SameRemainder ==
    ASSUME NEW a \in Nat, NEW b \in Nat, NEW s \in Nat \ {0}, a <= b, a % s = b % s
    PROVE  \E q \in Nat : b - a = s * q
<1>0. a \in Int /\ b \in Int
  OBVIOUS
<1>1. PICK x \in Int : a = s * x + (a % s)
  BY <1>0, Remainder, Zenon
<1>2. PICK y \in Int : b = s * y + (b % s)
  BY <1>0, Remainder, Zenon
<1>3. b - a = s * (y - x)
  <2>1. b - a = s * y - s * x
    BY <1>1, <1>2
  <2> QED
    BY <2>1
<1>4. y - x \in Nat
  <2> SUFFICES ASSUME y - x <= -1 PROVE FALSE
    OBVIOUS
  <2>1. PICK z \in Nat : y - x = -1 - z
    <3>1. -1 - (y - x) \in Nat
      OBVIOUS
    <3> QED
      BY <3>1
  <2>2. s * (y - x) = -s - s * z /\ s * z \in Nat
    BY <2>1
  <2>3. PICK w \in Nat : w = s * z
    BY <2>2
  <2> QED
    BY <1>3, <2>2, <2>3
<1> QED
  BY <1>3, <1>4

\* The triangular numbers.
LEMMA Triangle ==
    ASSUME NEW n \in Nat
    PROVE  /\ (n * (n + 1)) \div 2 \in Nat
           /\ 2 * ((n * (n + 1)) \div 2) = n * (n + 1)
<1>1. \E z \in Nat : n * (n + 1) = 2 * z
  <2>1. CASE n % 2 = 0
    <3>1. PICK x \in Nat : n = 2 * x
      BY <2>1
    <3>2. n * (n + 1) = 2 * (x * (n + 1)) /\ x * (n + 1) \in Nat
      BY <3>1
    <3> QED
      BY <3>2
  <2>2. CASE n % 2 = 1
    <3>1. PICK x \in Nat : n + 1 = 2 * x
      <4>1. n + 1 = 2 * (n \div 2 + 1) /\ n \div 2 + 1 \in Nat
        BY <2>2
      <4> QED
        BY <4>1
    <3>2. n * (n + 1) = 2 * (x * n) /\ x * n \in Nat
      BY <3>1
    <3> QED
      BY <3>2
  <2> QED
    BY <2>1, <2>2
<1>2. PICK z \in Nat : n * (n + 1) = 2 * z
  BY <1>1
<1>3. (n * (n + 1)) \div 2 = z
  BY <1>2
<1> QED
  BY <1>2, <1>3

\* A number between 0 and s is no multiple of s.
LEMMA NoMultiple ==
    ASSUME NEW s \in Nat \ {0}, NEW a \in 1 .. s - 1, NEW r \in Nat
    PROVE  a # s * r
<1>1. CASE r = 0
  BY <1>1
<1>2. CASE r # 0
  <2>1. PICK x \in Nat : r = x + 1
    <3>1. r - 1 \in Nat /\ r = (r - 1) + 1
      BY <1>2
    <3> QED
      BY <3>1
  <2>2. PICK z \in Nat : z = s * x
    OBVIOUS
  <2>3. s * r = z + s
    BY <2>1, <2>2
  <2> QED
    BY <2>3
<1> QED
  BY <1>1, <1>2

\* Steps that grow by one each meet no place twice in a table whose size is a
\* power of two.
LEMMA TriangleSteps ==
    ASSUME NEW max \in Nat, NEW p, IsPowers(p, max), NEW i \in 0 .. max,
           NEW m \in 0 .. p[i] - 1, NEW n \in 0 .. m - 1, NEW c \in Nat
    PROVE  (c + ((n * (n + 1)) \div 2)) % p[i] # (c + ((m * (m + 1)) \div 2)) % p[i]
<1>1. PICK s \in Nat \ {0} : s = p[i]
  BY DEF IsPowers
<1>2. PICK t \in Nat : t = (n * (n + 1)) \div 2 /\ 2 * t = n * (n + 1)
  BY Triangle
<1>3. PICK u \in Nat : u = (m * (m + 1)) \div 2 /\ 2 * u = m * (m + 1)
  <2>1. m \in Nat
    BY <1>1
  <2> QED
    BY <2>1, Triangle
<1>4. m \in 0 .. s - 1 /\ n \in Nat /\ m \in Nat /\ n < m
  BY <1>1
<1>5. PICK d \in Nat : d = m - n
  BY <1>4
<1>6. PICK e \in Nat : e = m + n + 1
  BY <1>4
<1>7. d * e = 2 * u - 2 * t
  <2>1. d * e = m * (m + 1) - n * (n + 1)
    BY <1>4, <1>5, <1>6
  <2> QED
    BY <1>2, <1>3, <2>1
<1>8. t <= u
  <2>1. d * e \in Nat
    OBVIOUS
  <2> QED
    BY <1>7, <2>1
<1>9. SUFFICES ASSUME (c + t) % s = (c + u) % s PROVE FALSE
  BY <1>1, <1>2, <1>3
<1>10. PICK q \in Nat : u - t = s * q
  <2>1. c + t \in Nat /\ c + u \in Nat /\ c + t <= c + u
    BY <1>8
  <2>2. PICK q \in Nat : (c + u) - (c + t) = s * q
    BY <1>9, <2>1, SameRemainder
  <2> QED
    BY <2>2
<1>11. CASE d % 2 = 1
  <2>1. PICK x \in Nat : e = 2 * x
    <3>1. e = 2 * (e \div 2)
      BY <1>4, <1>5, <1>6, <1>11
    <3> QED
      BY <3>1
  <2>2. x \in 1 .. s - 1
    BY <1>4, <1>6, <2>1
  <2>3. d * x = s * q
    <3>1. d * e = 2 * (d * x) /\ d * x \in Nat
      BY <2>1
    <3> QED
      BY <1>7, <1>10, <3>1
  <2>4. PICK r \in Nat : x = s * r
    <3>1. d * x = p[i] * q
      BY <1>1, <2>3
    <3>2. \A b, z \in Nat : d * b = p[i] * z => \E r \in Nat : b = p[i] * r
      BY <1>11, PowerDivides
    <3> QED
      BY <1>1, <3>1, <3>2
  <2> QED
    BY <2>2, <2>4, NoMultiple
<1>12. CASE d % 2 = 0
  <2>1. PICK x \in Nat : d = 2 * x
    <3>1. d = 2 * (d \div 2)
      BY <1>12
    <3> QED
      BY <3>1
  <2>2. x \in 1 .. s - 1
    BY <1>4, <1>5, <2>1
  <2>3. e % 2 = 1
    BY <1>4, <1>5, <1>6, <1>12
  <2>4. e * x = s * q
    <3>1. d * e = 2 * (e * x) /\ e * x \in Nat
      BY <2>1
    <3> QED
      BY <1>7, <1>10, <3>1
  <2>5. PICK r \in Nat : x = s * r
    <3>1. e * x = p[i] * q
      BY <1>1, <2>4
    <3>2. \A b, z \in Nat : e * b = p[i] * z => \E r \in Nat : b = p[i] * r
      BY <2>3, PowerDivides
    <3> QED
      BY <1>1, <3>1, <3>2
  <2> QED
    BY <2>2, <2>5, NoMultiple
<1> QED
  BY <1>11, <1>12

(***************************************************************************)
(* Multiples and quotients.                                                *)
(***************************************************************************)

LEMMA ProductOrder ==
    ASSUME NEW s \in Nat \ {0}, NEW p \in Nat, NEW q \in Nat
    PROVE  /\ s * p \in Nat
           /\ p <= q => s * p <= s * q
           /\ p < q => s * p + s <= s * q
<1>1. s * p \in Nat /\ s * q \in Nat
  OBVIOUS
<1>2. PICK x \in Nat, y \in Nat : x = s * p /\ y = s * q
  BY <1>1
<1>3. ASSUME p < q
      PROVE  x + s <= y
  <2>1. PICK d \in Nat : q = p + 1 + d
    <3>1. q - p - 1 \in Nat
      BY <1>3
    <3> QED
      BY <3>1
  <2>2. s * q = s * p + s + s * d
    BY <2>1
  <2>3. PICK z \in Nat : z = s * d
    OBVIOUS
  <2> QED
    BY <1>2, <2>2, <2>3
<1>4. ASSUME p <= q
      PROVE  x <= y
  <2>1. p < q \/ p = q
    BY <1>4
  <2>2. p = q => x = y
    BY <1>2
  <2>3. p < q => x <= y
    BY <1>3
  <2> QED
    BY <2>1, <2>2, <2>3
<1> QED
  BY <1>2, <1>3, <1>4

LEMMA Quotient ==
    ASSUME NEW s \in Nat \ {0}, NEW x \in Nat
    PROVE  /\ x \div s \in Nat
           /\ s * (x \div s) \in Nat
           /\ s * (x \div s) <= x /\ x < s * (x \div s) + s
           /\ x - (x % s) = s * (x \div s)
<1>1. x \div s \in Nat /\ x % s \in 0 .. s - 1
  OBVIOUS
<1>2. x = s * (x \div s) + (x % s)
  OBVIOUS
<1>3. PICK q \in Nat, r \in 0 .. s - 1 : q = x \div s /\ r = x % s
  BY <1>1
<1>4. PICK y \in Nat : y = s * q
  OBVIOUS
<1>5. x = y + r
  BY <1>2, <1>3, <1>4
<1>6. y <= x /\ x < y + s /\ x - r = y
  BY <1>5
<1> QED
  BY <1>3, <1>4, <1>6

\* The quotient is the only number of which this holds.
LEMMA QuotientUnique ==
    ASSUME NEW s \in Nat \ {0}, NEW x \in Nat, NEW p \in Nat, s * p <= x, x < s * p + s
    PROVE  x \div s = p
<1>1. PICK q \in Nat : q = x \div s
  BY Quotient
<1>2. s * q \in Nat /\ s * q <= x /\ x < s * q + s
  BY <1>1, Quotient
<1>3. PICK y \in Nat, z \in Nat : y = s * p /\ z = s * q
  BY <1>2, ProductOrder
<1>4. ~(p < q)
  <2>1. p < q => y + s <= z
    BY <1>3, ProductOrder
  <2> QED
    BY <1>2, <1>3, <2>1
<1>5. ~(q < p)
  <2>1. q < p => z + s <= y
    BY <1>3, ProductOrder
  <2> QED
    BY <1>2, <1>3, <2>1
<1> QED
  BY <1>1, <1>4, <1>5

LEMMA QuotientTwice ==
    ASSUME NEW s \in Nat \ {0}, NEW k \in Nat \ {0}, NEW x \in Nat
    PROVE  x \div (s * k) = (x \div s) \div k
<1>1. PICK q \in Nat : q = x \div s
  BY Quotient
<1>2. PICK p \in Nat : p = q \div k
  BY Quotient
<1>3. s * q <= x /\ x < s * q + s
  BY <1>1, Quotient
<1>4. k * p \in Nat /\ k * p <= q /\ q < k * p + k
  BY <1>2, Quotient
<1>5. PICK y \in Nat, z \in Nat : y = k * p /\ z = k * p + k
  BY <1>4
<1>6. s * y <= s * q /\ s * q + s <= s * z
  BY <1>4, <1>5, ProductOrder
<1>7. PICK t \in Nat \ {0} : t = s * k
  <2>1. s * k # 0 /\ s * k \in Nat
    OBVIOUS
  <2> QED
    BY <2>1
<1>8. t * p = s * y /\ t * p + t = s * z
  <2>1. t * p = s * (k * p)
    BY <1>7
  <2>2. s * (k * p + k) = s * (k * p) + s * k
    BY <1>5
  <2> QED
    BY <1>5, <1>7, <2>1, <2>2
<1>9. t * p <= x /\ x < t * p + t
  <2>1. PICK a \in Nat, b \in Nat, c \in Nat : a = s * y /\ b = s * q /\ c = s * z
    BY <1>5, ProductOrder
  <2> QED
    BY <1>3, <1>6, <1>8, <2>1
<1>10. x \div t = p
  BY <1>9, QuotientUnique
<1> QED
  BY <1>1, <1>2, <1>7, <1>10
=============================================================================
