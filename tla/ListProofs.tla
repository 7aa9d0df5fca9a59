------------------------------ MODULE ListProofs ------------------------------
(***************************************************************************)
(* What list.h promises, for any lists, data and number of nodes: lists    *)
(* that no call has spoilt are chains of their contents, and a spoilt list *)
(* never reaches a node of another one.                                    *)
(***************************************************************************)
EXTENDS List, Numbers, FiniteSetTheorems, SequenceTheorems

Ptr == Nat \cup {NULL}
Node == [data : Int, next : Ptr, prev : Ptr, mem_cache : ListId, freed : BOOLEAN]
Header == [head : Ptr, tail : Ptr, length : Int, open : BOOLEAN]

At(seq, i) == IF i \in DOMAIN seq THEN seq[i] ELSE NULL

\* A list whose nodes are chained in the order of seq.
Chain(ns, rec, seq, lo) ==
    /\ \A i, j \in DOMAIN seq : seq[i] = seq[j] => i = j
    /\ rec.head = At(seq, 1)
    /\ rec.tail = At(seq, Len(seq))
    /\ At(seq, 1) \notin lo
    /\ \A i \in DOMAIN seq :
          /\ ~ns[seq[i]].freed
          /\ ns[seq[i]].next = At(seq, i + 1)
          /\ ns[seq[i]].prev = IF seq[i] \in lo THEN NULL ELSE At(seq, i - 1)

\* No pointer leads out of the nodes B.
Closed(ns, B) ==
    \A n \in B : ns[n].next \in B \cup {NULL} /\ ns[n].prev \in B \cup {NULL}

Good == ListId \ bent
TypeOK ==
    /\ node \in Seq(Node)
    /\ list \in [ListId -> Header]
    /\ contents \in [ListId -> Seq(DOMAIN node)]
    /\ loose \subseteq DOMAIN node
    /\ bent \subseteq Open
    /\ miscounted \subseteq Open
    /\ \A l \in ListId \ Open : list[l] = Absent /\ contents[l] = <<>>

\* The lists that are as they should be are chains without common nodes.
Chained ==
    /\ \A l \in Good : Chain(node, list[l], contents[l], loose)
    /\ \A l, m \in Good : l # m => Range(contents[l]) \cap Range(contents[m]) = {}
\* What the others reach is among the nodes B, none of which is in a good list.
Apart(B) ==
    /\ B \subseteq DOMAIN node
    /\ Closed(node, B)
    /\ \A l \in bent : /\ Range(contents[l]) \subseteq B
                       /\ list[l].head \in B \cup {NULL}
                       /\ list[l].tail \in B \cup {NULL}
    /\ \A l \in Good : Range(contents[l]) \cap B = {}
Counted == \A l \in Good \ miscounted : list[l].length = Len(contents[l])

Sound(B) == TypeOK /\ Chained /\ Apart(B) /\ Counted
IInv ==
    /\ fault \in bent \cup {NULL}
    /\ \E B \in SUBSET DOMAIN node : Sound(B)

(***************************************************************************)
(* Walks.                                                                  *)
(***************************************************************************)

LEMMA Intervals ==
    \A k \in Nat : /\ IsFiniteSet(1 .. k) /\ Cardinality(1 .. k) = k
                   /\ Cardinality(0 .. k - 1) = k
<1> SUFFICES ASSUME NEW k \in Nat
             PROVE  /\ IsFiniteSet(1 .. k) /\ Cardinality(1 .. k) = k
                    /\ Cardinality(0 .. k - 1) = k
  OBVIOUS
<1>1. IsFiniteSet(1 .. k) /\ Cardinality(1 .. k) = k
  BY FS_Interval
<1>2. Cardinality(0 .. k - 1) = IF 0 > k - 1 THEN 0 ELSE k - 1 - 0 + 1
  BY FS_Interval
<1> QED
  BY <1>1, <1>2

\* What From counts: NULL behind the end of the walk.
Cells(c, n) ==
    c = [i \in 0 .. Len(node) |->
            IF i = 0 THEN n
            ELSE IF c[i - 1] = NULL \/ node[c[i - 1]].freed THEN NULL
            ELSE node[c[i - 1]].next]

\* The recursive function of From is defined.
LEMMA FromCells ==
    ASSUME node \in Seq(Node), NEW n
    PROVE  \E c : /\ Cells(c, n)
                  /\ From(n) = [i \in 1 .. Cardinality({j \in 0 .. Len(node) : c[j] # NULL})
                                  |-> c[i - 1]]
<1> DEFINE Next1(x) == IF x = NULL \/ node[x].freed THEN NULL ELSE node[x].next
           F(f, k) == f = [i \in 0 .. k |-> IF i = 0 THEN n ELSE Next1(f[i - 1])]
           S == {k \in Nat : \E f : F(f, k)}
<1>1. 0 \in S
  <2>1. F([i \in 0 .. 0 |-> n], 0)
    OBVIOUS
  <2> QED
    BY <2>1
<1>2. ASSUME NEW k \in Nat, k \in S
      PROVE  k + 1 \in S
  <2>1. PICK f : F(f, k)
    BY <1>2
  <2> DEFINE g == [i \in 0 .. k + 1 |-> IF i = k + 1 THEN Next1(f[k]) ELSE f[i]]
  <2> HIDE DEF Next1
  <2>2. \A i \in 0 .. k + 1 : g[i] = IF i = 0 THEN n ELSE Next1(g[i - 1])
    <3> SUFFICES ASSUME NEW i \in 0 .. k + 1
                 PROVE  g[i] = IF i = 0 THEN n ELSE Next1(g[i - 1])
      OBVIOUS
    <3>1. CASE i = k + 1
      BY <3>1
    <3>2. CASE i \in 0 .. k
      <4>1. f[i] = IF i = 0 THEN n ELSE Next1(f[i - 1])
        BY <2>1, <3>2
      <4>2. g[i] = f[i] /\ (i # 0 => g[i - 1] = f[i - 1])
        BY <3>2
      <4> QED
        BY <4>1, <4>2
    <3> QED
      BY <3>1, <3>2
  <2>3. F(g, k + 1)
    BY <2>2
  <2> HIDE DEF F, g
  <2> QED
    BY <2>3
<1>3. Len(node) \in Nat
  BY LenProperties
<1>4. Len(node) \in S
  <2> HIDE DEF S
  <2> QED
    BY <1>1, <1>2, <1>3, Induction
<1> DEFINE cell == CHOOSE f : F(f, Len(node))
<1>5. F(cell, Len(node))
  BY <1>4
<1>6. Cells(cell, n)
  BY <1>5 DEF Cells
<1>7. From(n) = [i \in 1 .. Cardinality({j \in 0 .. Len(node) : cell[j] # NULL})
                   |-> cell[i - 1]]
  BY DEF From
<1> HIDE DEF cell
<1> QED
  BY <1>6, <1>7

\* A set of numbers with all that are below its members has as many members as
\* the first number it lacks.
LEMMA InitialSegment ==
    ASSUME NEW m \in Nat, NEW R \in SUBSET (0 .. m), \A i \in R : i # 0 => i - 1 \in R
    PROVE  /\ Cardinality(R) \in 0 .. m + 1
           /\ R = 0 .. Cardinality(R) - 1
<1>1. m + 1 \in Nat \ R
  OBVIOUS
<1>2. PICK k \in Nat \ R : \A i \in Nat \ R : k <= i
  BY <1>1, Least
<1>3. k <= m + 1
  BY <1>1, <1>2
<1>4. 0 .. k - 1 \subseteq R
  BY <1>2
<1> DEFINE S == {i \in Nat : k + i \notin R}
<1>5. 0 \in S
  BY <1>2
<1>6. ASSUME NEW i \in Nat, i \in S
      PROVE  i + 1 \in S
  BY <1>6
<1>7. \A i \in Nat : i \in S
  <2> HIDE DEF S
  <2> QED
    BY <1>5, <1>6, Induction
<1>8. ASSUME NEW i \in R
      PROVE  i \in 0 .. k - 1
  <2> SUFFICES ASSUME i >= k PROVE FALSE
    OBVIOUS
  <2>1. i - k \in Nat /\ k + (i - k) = i
    OBVIOUS
  <2> QED
    BY <1>7, <2>1
<1>9. R = 0 .. k - 1
  BY <1>4, <1>8
<1>10. Cardinality(0 .. k - 1) = k
  BY FS_Interval
<1> QED
  BY <1>3, <1>9, <1>10

\* A walk from one of the nodes B, which no pointer leaves, meets nodes of B.
LEMMA WalkInside ==
    ASSUME node \in Seq(Node), NEW B, B \subseteq DOMAIN node, Closed(node, B),
           NEW n \in B \cup {NULL}
    PROVE  /\ From(n) \in Seq(B)
           /\ Len(From(n)) <= Len(node) + 1
<1>1. PICK c : /\ Cells(c, n)
               /\ From(n) = [i \in 1 .. Cardinality({j \in 0 .. Len(node) : c[j] # NULL})
                               |-> c[i - 1]]
  BY FromCells
<1>2. Len(node) \in Nat
  BY LenProperties
<1> DEFINE R == {j \in 0 .. Len(node) : c[j] # NULL}
           S == {i \in Nat : i <= Len(node) => c[i] \in B \cup {NULL}}
<1>3. \A i \in 0 .. Len(node) :
         c[i] = IF i = 0 THEN n
                ELSE IF c[i - 1] = NULL \/ node[c[i - 1]].freed THEN NULL
                ELSE node[c[i - 1]].next
  BY <1>1 DEF Cells
<1>4. 0 \in S
  BY <1>2, <1>3
<1>5. ASSUME NEW i \in Nat, i \in S
      PROVE  i + 1 \in S
  <2> SUFFICES ASSUME i + 1 <= Len(node) PROVE c[i + 1] \in B \cup {NULL}
    OBVIOUS
  <2>1. c[i] \in B \cup {NULL}
    BY <1>2, <1>5
  <2>2. (i + 1) - 1 = i /\ i + 1 \in 0 .. Len(node)
    BY <1>2
  <2>3. c[i + 1] = IF c[i] = NULL \/ node[c[i]].freed THEN NULL ELSE node[c[i]].next
    BY <1>3, <2>2
  <2> QED
    BY <2>1, <2>3 DEF Closed
<1>6. \A i \in Nat : i \in S
  <2> HIDE DEF S
  <2> QED
    BY <1>4, <1>5, Induction
<1>7. \A i \in R : i # 0 => i - 1 \in R
  BY <1>2, <1>3
<1>8. Cardinality(R) \in 0 .. Len(node) + 1 /\ R = 0 .. Cardinality(R) - 1
  <2> HIDE DEF R
  <2>1. R \in SUBSET (0 .. Len(node))
    BY DEF R
  <2> QED
    BY <1>2, <1>7, <2>1, InitialSegment
<1>9. \A i \in 1 .. Cardinality(R) : c[i - 1] \in B
  <2> SUFFICES ASSUME NEW i \in 1 .. Cardinality(R) PROVE c[i - 1] \in B
    OBVIOUS
  <2> HIDE DEF R
  <2>1. i - 1 \in R /\ i - 1 \in Nat
    BY <1>2, <1>8
  <2>2. R \subseteq 0 .. Len(node) /\ \A j \in R : c[j] # NULL
    BY DEF R
  <2> QED
    BY <1>2, <1>6, <2>1, <2>2
<1> HIDE DEF R
<1>10. From(n) = [i \in 1 .. Cardinality(R) |-> c[i - 1]]
  BY <1>1 DEF R
<1> QED
  BY <1>8, <1>9, <1>10

\* A walk along a chain meets its contents.
LEMMA WalkOfChain ==
    ASSUME node \in Seq(Node), NEW rec, NEW seq \in Seq(DOMAIN node), NEW lo,
           Chain(node, rec, seq, lo)
    PROVE  From(rec.head) = seq
<1> DEFINE n == rec.head
           k == Len(seq)
<1>1. PICK c : /\ Cells(c, n)
               /\ From(n) = [i \in 1 .. Cardinality({j \in 0 .. Len(node) : c[j] # NULL})
                               |-> c[i - 1]]
  BY FromCells
<1>2. /\ Len(node) \in Nat /\ DOMAIN node = 1 .. Len(node)
      /\ k \in Nat /\ DOMAIN seq = 1 .. k /\ seq \in [1 .. k -> 1 .. Len(node)]
  BY LenProperties
<1>3. k <= Len(node)
  <2>1. IsFiniteSet(1 .. Len(node)) /\ Cardinality(1 .. Len(node)) = Len(node)
    BY <1>2, Intervals
  <2>2. Cardinality(1 .. k) = k
    BY <1>2, Intervals
  <2>3. seq \in Injection(1 .. k, 1 .. Len(node))
    BY <1>2 DEF Chain, Injection, IsInjective
  <2> QED
    BY <2>1, <2>2, <2>3, FS_Injection
<1> DEFINE S == {i \in Nat : i <= Len(node) => c[i] = At(seq, i + 1)}
<1>4. \A i \in 0 .. Len(node) :
         c[i] = IF i = 0 THEN n
                ELSE IF c[i - 1] = NULL \/ node[c[i - 1]].freed THEN NULL
                ELSE node[c[i - 1]].next
  BY <1>1 DEF Cells
<1>5. 0 \in S
  BY <1>2, <1>4 DEF Chain
<1>6. ASSUME NEW i \in Nat, i \in S
      PROVE  i + 1 \in S
  <2> SUFFICES ASSUME i + 1 <= Len(node) PROVE c[i + 1] = At(seq, (i + 1) + 1)
    OBVIOUS
  <2>1. c[i] = At(seq, i + 1)
    BY <1>2, <1>6
  <2>2. (i + 1) - 1 = i /\ i + 1 \in 0 .. Len(node)
    BY <1>2
  <2>3. c[i + 1] = IF c[i] = NULL \/ node[c[i]].freed THEN NULL ELSE node[c[i]].next
    BY <1>4, <2>2
  <2>4. CASE i + 1 \in 1 .. k
    <3>1. c[i] = seq[i + 1] /\ seq[i + 1] \in Nat
      BY <1>2, <2>1, <2>4 DEF At
    <3>2. ~node[c[i]].freed /\ node[c[i]].next = At(seq, (i + 1) + 1)
      BY <1>2, <2>4, <3>1 DEF Chain
    <3> QED
      BY <2>3, <3>1, <3>2, NullAssumption
  <2>5. CASE i + 1 > k
    <3>1. c[i] = NULL /\ At(seq, (i + 1) + 1) = NULL
      BY <1>2, <2>1, <2>5 DEF At
    <3> QED
      BY <2>3, <3>1
  <2> QED
    BY <1>2, <2>4, <2>5
<1>7. \A i \in Nat : i \in S
  <2> HIDE DEF S
  <2> QED
    BY <1>5, <1>6, Induction
<1>8. {j \in 0 .. Len(node) : c[j] # NULL} = 0 .. k - 1
  BY <1>2, <1>3, <1>7, NullAssumption DEF At
<1>9. Cardinality(0 .. k - 1) = k
  BY <1>2, Intervals
<1>10. \A i \in 1 .. k : c[i - 1] = seq[i]
  <2> SUFFICES ASSUME NEW i \in 1 .. k PROVE c[i - 1] = seq[i]
    OBVIOUS
  <2>1. i - 1 \in Nat /\ (i - 1) + 1 = i /\ i - 1 <= Len(node)
    BY <1>2, <1>3
  <2> QED
    BY <1>2, <1>7, <2>1 DEF At
<1> QED
  BY <1>1, <1>2, <1>8, <1>9, <1>10

(***************************************************************************)
(* Sequences and pointers.                                                 *)
(***************************************************************************)

\* r is s with e as a new i-th element, or without its i-th element.
With(r, s, i, e) ==
    /\ Len(r) = Len(s) + 1
    /\ \A j \in 1 .. Len(s) + 1 : r[j] = IF j < i THEN s[j] ELSE IF j = i THEN e ELSE s[j - 1]
Without(r, s, i) ==
    /\ Len(r) = Len(s) - 1
    /\ \A j \in 1 .. Len(s) - 1 : r[j] = IF j < i THEN s[j] ELSE s[j + 1]

LEMMA InsertedAt ==
    ASSUME NEW S, NEW s \in Seq(S), NEW i \in 1 .. Len(s) + 1, NEW e \in S
    PROVE  InsertAt(s, i, e) \in Seq(S) /\ With(InsertAt(s, i, e), s, i, e)
<1> DEFINE front == SubSeq(s, 1, i - 1)
           back  == SubSeq(s, i, Len(s))
           left  == front \o <<e>>
<1>0. Len(s) \in Nat /\ DOMAIN s = 1 .. Len(s) /\ \A j \in 1 .. Len(s) : s[j] \in S
  BY LenProperties, ElementOfSeq
<1>1. /\ front \in Seq(S) /\ Len(front) = i - 1
      /\ \A j \in 1 .. i - 1 : front[j] = s[j]
  <2>1. \A j \in 1 .. i - 1 : s[j] \in S
    BY <1>0
  <2>2. /\ front \in Seq(S) /\ Len(front) = IF 1 <= i - 1 THEN (i - 1) - 1 + 1 ELSE 0
        /\ \A j \in 1 .. (i - 1) - 1 + 1 : front[j] = s[1 + j - 1]
    BY <2>1, SubSeqProperties
  <2> HIDE DEF front
  <2> QED
    BY <1>0, <2>2
<1>2. /\ back \in Seq(S) /\ Len(back) = Len(s) - i + 1
      /\ \A j \in 1 .. Len(s) - i + 1 : back[j] = s[i + j - 1]
  <2>1. \A j \in i .. Len(s) : s[j] \in S
    BY <1>0
  <2>2. /\ back \in Seq(S) /\ Len(back) = IF i <= Len(s) THEN Len(s) - i + 1 ELSE 0
        /\ \A j \in 1 .. Len(s) - i + 1 : back[j] = s[i + j - 1]
    BY <1>0, <2>1, SubSeqProperties
  <2> HIDE DEF back
  <2> QED
    BY <1>0, <2>2
<1>3. <<e>> \in Seq(S) /\ Len(<<e>>) = 1 /\ <<e>>[1] = e
  OBVIOUS
<1> HIDE DEF front, back
<1>4. /\ left \in Seq(S) /\ Len(left) = i
      /\ \A j \in 1 .. i : left[j] = IF j < i THEN s[j] ELSE e
  <2>1. /\ left \in Seq(S) /\ Len(left) = Len(front) + Len(<<e>>)
        /\ \A j \in 1 .. Len(front) + Len(<<e>>) :
              left[j] = IF j <= Len(front) THEN front[j] ELSE <<e>>[j - Len(front)]
    BY <1>1, <1>3, ConcatProperties
  <2> HIDE DEF left
  <2>2. Len(left) = i
    BY <1>0, <1>1, <1>3, <2>1
  <2>3. ASSUME NEW j \in 1 .. i
        PROVE  left[j] = IF j < i THEN s[j] ELSE e
    <3>1. left[j] = IF j <= i - 1 THEN front[j] ELSE <<e>>[j - (i - 1)]
      BY <1>0, <1>1, <1>3, <2>1
    <3>2. CASE j < i
      BY <1>0, <1>1, <3>1, <3>2
    <3>3. CASE j = i
      <4>1. j - (i - 1) = 1
        BY <1>0, <3>3
      <4> QED
        BY <1>0, <1>3, <3>1, <3>3, <4>1
    <3> QED
      BY <1>0, <3>2, <3>3
  <2> QED
    BY <2>1, <2>2, <2>3
<1> DEFINE r == left \o back
<1>5. /\ r \in Seq(S) /\ Len(r) = Len(left) + Len(back)
      /\ \A j \in 1 .. Len(left) + Len(back) :
            r[j] = IF j <= Len(left) THEN left[j] ELSE back[j - Len(left)]
  <2> HIDE DEF left
  <2> QED
    BY <1>2, <1>4, ConcatProperties
<1>6. InsertAt(s, i, e) = r
  BY DEF InsertAt, front, back
<1> HIDE DEF left, r
<1>7. Len(r) = Len(s) + 1
  BY <1>0, <1>2, <1>4, <1>5
<1>8. ASSUME NEW j \in 1 .. Len(s) + 1
      PROVE  r[j] = IF j < i THEN s[j] ELSE IF j = i THEN e ELSE s[j - 1]
  <2>1. r[j] = IF j <= i THEN left[j] ELSE back[j - i]
    BY <1>0, <1>2, <1>4, <1>5
  <2>2. CASE j <= i
    BY <1>0, <1>4, <2>1, <2>2
  <2>3. CASE j > i
    <3>1. j - i \in 1 .. Len(s) - i + 1 /\ i + (j - i) - 1 = j - 1
      BY <1>0, <2>3
    <3>2. back[j - i] = s[i + (j - i) - 1]
      BY <1>2, <3>1
    <3> QED
      BY <1>0, <2>1, <2>3, <3>1, <3>2
  <2> QED
    BY <1>0, <2>2, <2>3
<1> QED
  BY <1>5, <1>6, <1>7, <1>8 DEF With

LEMMA RemovedAt ==
    ASSUME NEW S, NEW s \in Seq(S), NEW i \in 1 .. Len(s)
    PROVE  RemoveAt(s, i) \in Seq(S) /\ Without(RemoveAt(s, i), s, i)
<1> DEFINE front == SubSeq(s, 1, i - 1)
           back  == SubSeq(s, i + 1, Len(s))
           r     == front \o back
<1>0. Len(s) \in Nat /\ DOMAIN s = 1 .. Len(s) /\ \A j \in 1 .. Len(s) : s[j] \in S
  BY LenProperties, ElementOfSeq
<1>1. /\ front \in Seq(S) /\ Len(front) = i - 1
      /\ \A j \in 1 .. i - 1 : front[j] = s[j]
  <2>1. \A j \in 1 .. i - 1 : s[j] \in S
    BY <1>0
  <2>2. /\ front \in Seq(S) /\ Len(front) = IF 1 <= i - 1 THEN (i - 1) - 1 + 1 ELSE 0
        /\ \A j \in 1 .. (i - 1) - 1 + 1 : front[j] = s[1 + j - 1]
    BY <2>1, SubSeqProperties
  <2> HIDE DEF front
  <2> QED
    BY <1>0, <2>2
<1>2. /\ back \in Seq(S) /\ Len(back) = Len(s) - i
      /\ \A j \in 1 .. Len(s) - i : back[j] = s[i + j]
  <2>0. i \in Int /\ i + 1 \in Int
    BY <1>0
  <2>1. \A j \in i + 1 .. Len(s) : s[j] \in S
    BY <1>0
  <2>2. /\ back \in Seq(S)
        /\ Len(back) = IF i + 1 <= Len(s) THEN Len(s) - (i + 1) + 1 ELSE 0
        /\ \A j \in 1 .. Len(s) - (i + 1) + 1 : back[j] = s[(i + 1) + j - 1]
    BY <1>0, <2>0, <2>1, SubSeqProperties
  <2> HIDE DEF back
  <2>3. Len(back) = Len(s) - i
    <3>1. Len(back) = IF i + 1 <= Len(s) THEN Len(s) - (i + 1) + 1 ELSE 0
      BY <2>2
    <3>2. Len(s) \in Nat
      BY <1>0
    <3> QED
      BY <3>1, <3>2
  <2>4. ASSUME NEW j \in 1 .. Len(s) - i
        PROVE  back[j] = s[i + j]
    <3>1. j \in 1 .. Len(s) - (i + 1) + 1 /\ (i + 1) + j - 1 = i + j
      BY <1>0
    <3> QED
      BY <2>2, <3>1
  <2> QED
    BY <2>2, <2>3, <2>4
<1> HIDE DEF front, back
<1>3. /\ r \in Seq(S) /\ Len(r) = Len(front) + Len(back)
      /\ \A j \in 1 .. Len(front) + Len(back) :
            r[j] = IF j <= Len(front) THEN front[j] ELSE back[j - Len(front)]
  BY <1>1, <1>2, ConcatProperties
<1>4. RemoveAt(s, i) = r
  BY DEF RemoveAt, front, back
<1> HIDE DEF r
<1>5. Len(r) = Len(s) - 1
  BY <1>0, <1>1, <1>2, <1>3
<1>6. ASSUME NEW j \in 1 .. Len(s) - 1
      PROVE  r[j] = IF j < i THEN s[j] ELSE s[j + 1]
  <2>1. r[j] = IF j <= i - 1 THEN front[j] ELSE back[j - (i - 1)]
    BY <1>0, <1>1, <1>2, <1>3
  <2>2. CASE j < i
    BY <1>0, <1>1, <2>1, <2>2
  <2>3. CASE j >= i
    <3>1. j - (i - 1) \in 1 .. Len(s) - i /\ i + (j - (i - 1)) = j + 1
      BY <1>0, <2>3
    <3>2. back[j - (i - 1)] = s[i + (j - (i - 1))]
      BY <1>2, <3>1
    <3> QED
      BY <1>0, <2>1, <2>3, <3>1, <3>2
  <2> QED
    BY <1>0, <2>2, <2>3
<1> QED
  BY <1>3, <1>4, <1>5, <1>6 DEF Without

LEMMA PlaceOf ==
    ASSUME NEW l, NEW n \in Range(contents[l])
    PROVE  Place(l, n) \in DOMAIN contents[l] /\ contents[l][Place(l, n)] = n
BY DEF Place, Range

\* A node of which only pointers may have changed.
Rewired(new, old, next, prev) ==
    /\ new.data = old.data /\ new.mem_cache = old.mem_cache /\ new.freed = old.freed
    /\ new.next = next /\ new.prev = prev

\* A write to one pointer of one node.
LEMMA NextSet ==
    ASSUME NEW ns \in Seq(Node), NEW n \in DOMAIN ns \cup {NULL}, NEW x \in Ptr
    PROVE  /\ SetNext(ns, n, x) \in Seq(Node)
           /\ Len(SetNext(ns, n, x)) = Len(ns)
           /\ DOMAIN SetNext(ns, n, x) = DOMAIN ns
           /\ \A m \in DOMAIN ns :
                /\ m # n => SetNext(ns, n, x)[m] = ns[m]
                /\ m = n => Rewired(SetNext(ns, n, x)[m], ns[m], x, ns[m].prev)
<1>0. Len(ns) \in Nat /\ DOMAIN ns = 1 .. Len(ns) /\ \A m \in DOMAIN ns : ns[m] \in Node
  BY LenProperties, ElementOfSeq
<1>1. NULL \notin DOMAIN ns
  BY <1>0, NullAssumption
<1>2. CASE n = NULL
  BY <1>1, <1>2 DEF SetNext
<1>3. CASE n \in DOMAIN ns
  <2> DEFINE e == [ns[n] EXCEPT !.next = x]
  <2>1. e \in Node /\ Rewired(e, ns[n], x, ns[n].prev)
    BY <1>0, <1>3 DEF Node, Rewired
  <2>2. SetNext(ns, n, x) = [ns EXCEPT ![n] = e]
    BY <1>1, <1>3 DEF SetNext
  <2> HIDE DEF e
  <2>3. /\ [ns EXCEPT ![n] = e] \in Seq(Node)
        /\ Len([ns EXCEPT ![n] = e]) = Len(ns)
        /\ \A j \in 1 .. Len(ns) : [ns EXCEPT ![n] = e][j] = IF j = n THEN e ELSE ns[j]
    BY <1>0, <1>3, <2>1, ExceptSeq
  <2> QED
    BY <1>0, <2>1, <2>2, <2>3
<1> QED
  BY <1>2, <1>3

LEMMA PrevSet ==
    ASSUME NEW ns \in Seq(Node), NEW n \in DOMAIN ns \cup {NULL}, NEW x \in Ptr
    PROVE  /\ SetPrev(ns, n, x) \in Seq(Node)
           /\ Len(SetPrev(ns, n, x)) = Len(ns)
           /\ DOMAIN SetPrev(ns, n, x) = DOMAIN ns
           /\ \A m \in DOMAIN ns :
                /\ m # n => SetPrev(ns, n, x)[m] = ns[m]
                /\ m = n => Rewired(SetPrev(ns, n, x)[m], ns[m], ns[m].next, x)
<1>0. Len(ns) \in Nat /\ DOMAIN ns = 1 .. Len(ns) /\ \A m \in DOMAIN ns : ns[m] \in Node
  BY LenProperties, ElementOfSeq
<1>1. NULL \notin DOMAIN ns
  BY <1>0, NullAssumption
<1>2. CASE n = NULL
  BY <1>1, <1>2 DEF SetPrev
<1>3. CASE n \in DOMAIN ns
  <2> DEFINE e == [ns[n] EXCEPT !.prev = x]
  <2>1. e \in Node /\ Rewired(e, ns[n], ns[n].next, x)
    BY <1>0, <1>3 DEF Node, Rewired
  <2>2. SetPrev(ns, n, x) = [ns EXCEPT ![n] = e]
    BY <1>1, <1>3 DEF SetPrev
  <2> HIDE DEF e
  <2>3. /\ [ns EXCEPT ![n] = e] \in Seq(Node)
        /\ Len([ns EXCEPT ![n] = e]) = Len(ns)
        /\ \A j \in 1 .. Len(ns) : [ns EXCEPT ![n] = e][j] = IF j = n THEN e ELSE ns[j]
    BY <1>0, <1>3, <2>1, ExceptSeq
  <2> QED
    BY <1>0, <2>1, <2>2, <2>3
<1> QED
  BY <1>2, <1>3

\* Memory that is given back.
LEMMA NodesFreed ==
    ASSUME NEW ns \in Seq(Node), NEW l, NEW rm
    PROVE  /\ FreeNodes(ns, l, rm) \in Seq(Node)
           /\ Len(FreeNodes(ns, l, rm)) = Len(ns)
           /\ DOMAIN FreeNodes(ns, l, rm) = DOMAIN ns
           /\ \A m \in DOMAIN ns :
                /\ m \notin rm \/ ns[m].mem_cache # l => FreeNodes(ns, l, rm)[m] = ns[m]
                /\ FreeNodes(ns, l, rm)[m].next \in {ns[m].next, NULL}
                /\ FreeNodes(ns, l, rm)[m].prev \in {ns[m].prev, NULL}
<1>0. Len(ns) \in Nat /\ DOMAIN ns = 1 .. Len(ns) /\ \A m \in DOMAIN ns : ns[m] \in Node
  BY LenProperties, ElementOfSeq
<1>1. \A m \in DOMAIN ns : FreeNodes(ns, l, rm)[m] \in Node
  <2> SUFFICES ASSUME NEW m \in DOMAIN ns PROVE FreeNodes(ns, l, rm)[m] \in Node
    OBVIOUS
  <2>1. ns[m] \in Node
    BY <1>0
  <2>2. [ns[m] EXCEPT !.next = NULL, !.prev = NULL, !.freed = TRUE] \in Node
    BY <2>1 DEF Node, Ptr
  <2> QED
    BY <2>1, <2>2 DEF FreeNodes
<1>2. FreeNodes(ns, l, rm) \in [1 .. Len(ns) -> Node]
  BY <1>0, <1>1 DEF FreeNodes
<1>3. FreeNodes(ns, l, rm) \in Seq(Node)
  BY <1>0, <1>2, SeqDef
<1>4. DOMAIN FreeNodes(ns, l, rm) = DOMAIN ns
  BY DEF FreeNodes
<1>5. Len(FreeNodes(ns, l, rm)) = Len(ns)
  BY <1>0, <1>3, <1>4, LenProperties
<1>6. ASSUME NEW m \in DOMAIN ns
      PROVE  /\ m \notin rm \/ ns[m].mem_cache # l => FreeNodes(ns, l, rm)[m] = ns[m]
             /\ FreeNodes(ns, l, rm)[m].next \in {ns[m].next, NULL}
             /\ FreeNodes(ns, l, rm)[m].prev \in {ns[m].prev, NULL}
  <2>1. ns[m] \in Node
    BY <1>0
  <2> DEFINE e == [ns[m] EXCEPT !.next = NULL, !.prev = NULL, !.freed = TRUE]
  <2>2. e.next = NULL /\ e.prev = NULL
    BY <2>1 DEF Node
  <2>3. FreeNodes(ns, l, rm)[m] = IF m \in rm /\ ns[m].mem_cache = l THEN e ELSE ns[m]
    BY DEF FreeNodes
  <2> HIDE DEF e
  <2> QED
    BY <2>2, <2>3
<1> QED
  BY <1>3, <1>4, <1>5, <1>6

(***************************************************************************)
(* Steps.                                                                  *)
(***************************************************************************)

\* A chain whose nodes a step leaves alone.
LEMMA ChainKept ==
    ASSUME NEW ns, NEW ns2, NEW rec, NEW seq, NEW lo, NEW lo2,
           Chain(ns, rec, seq, lo), NULL \notin lo2,
           \A n \in Range(seq) : ns2[n] = ns[n] /\ (n \in lo2 <=> n \in lo)
    PROVE  Chain(ns2, rec, seq, lo2)
<1>1. \A i \in DOMAIN seq : seq[i] \in Range(seq)
  BY DEF Range
<1>2. At(seq, 1) \notin lo2
  BY <1>1 DEF Chain, At
<1> QED
  BY <1>1, <1>2 DEF Chain

\* A step that changes the lists L, and nodes X that are in no other good list.
Changes(L, X, B, W) ==
    /\ L \subseteq ListId
    /\ node' \in Seq(Node) /\ DOMAIN node \subseteq DOMAIN node'
    /\ list' \in [ListId -> Header] /\ contents' \in [ListId -> Seq(DOMAIN node')]
    /\ loose' \subseteq DOMAIN node' /\ bent' \subseteq ListId /\ miscounted' \subseteq ListId
    /\ \A l \in ListId \ L : /\ list'[l] = list[l] /\ contents'[l] = contents[l]
                             /\ l \in bent' <=> l \in bent
                             /\ l \in miscounted' <=> l \in miscounted
    /\ \A n \in DOMAIN node \ X : node'[n] = node[n] /\ (n \in loose' <=> n \in loose)
    /\ \A l \in Good \ L : Range(contents[l]) \cap (X \cup W) = {}
    /\ \A l \in L : \/ list'[l].open
                    \/ /\ list'[l] = Absent /\ contents'[l] = <<>>
                       /\ l \notin bent' \cup miscounted'
    /\ B \subseteq W /\ W \subseteq DOMAIN node' /\ Closed(node', W)
    /\ \A l \in L \cap bent' : /\ Range(contents'[l]) \subseteq W
                               /\ list'[l].head \in W \cup {NULL}
                               /\ list'[l].tail \in W \cup {NULL}
    /\ \A l \in L \ bent' :
          /\ Chain(node', list'[l], contents'[l], loose')
          /\ Range(contents'[l]) \cap W = {}
          /\ \A m \in ListId \ bent' : l # m =>
                Range(contents'[l]) \cap Range(contents'[m]) = {}
          /\ l \notin miscounted' => list'[l].length = Len(contents'[l])

LEMMA Step ==
    ASSUME NEW L, NEW X, NEW B, NEW W, Sound(B), Changes(L, X, B, W)
    PROVE  Sound(W)'
<1> USE DEF Sound, Good, Changes
<1>0. NULL \notin loose'
  <2>1. DOMAIN node' \subseteq Nat
    BY LenProperties
  <2> QED
    BY <2>1, NullAssumption
<1>1. TypeOK'
  <2>1. bent' \subseteq Open' /\ miscounted' \subseteq Open'
    BY DEF TypeOK, Open, Absent, Empty
  <2>2. \A l \in ListId \ Open' : list'[l] = Absent /\ contents'[l] = <<>>
    BY DEF TypeOK, Open
  <2> QED
    BY <2>1, <2>2 DEF TypeOK
<1>2. \A l \in Good' \ L : l \in Good /\ Chain(node', list'[l], contents'[l], loose')
  <2> SUFFICES ASSUME NEW l \in Good' \ L
               PROVE  l \in Good /\ Chain(node', list'[l], contents'[l], loose')
    OBVIOUS
  <2>1. l \in Good /\ Chain(node, list[l], contents[l], loose)
    BY DEF Chained
  <2>2. contents[l] \in Seq(DOMAIN node)
    BY DEF TypeOK
  <2>3. Range(contents[l]) \subseteq DOMAIN node
    BY <2>2, RangeOfSeq
  <2>4. \A n \in Range(contents[l]) : node'[n] = node[n] /\ (n \in loose' <=> n \in loose)
    BY <2>1, <2>3
  <2>5. Chain(node', list[l], contents[l], loose')
    BY <1>0, <2>1, <2>4, ChainKept
  <2> QED
    BY <2>1, <2>5
<1>3. Chained'
  <2>1. ASSUME NEW l \in Good', NEW m \in Good', l # m
        PROVE  Range(contents'[l]) \cap Range(contents'[m]) = {}
    <3>1. CASE l \in L
      BY <2>1, <3>1
    <3>2. CASE m \in L
      BY <2>1, <3>2
    <3>3. CASE l \notin L /\ m \notin L
      BY <1>2, <2>1, <3>3 DEF Chained
    <3> QED
      BY <3>1, <3>2, <3>3
  <2> QED
    BY <1>2, <2>1 DEF Chained
<1>4. Apart(W)'
  <2>1. ASSUME NEW l \in bent'
        PROVE  /\ Range(contents'[l]) \subseteq W
               /\ list'[l].head \in W \cup {NULL}
               /\ list'[l].tail \in W \cup {NULL}
    BY DEF Apart
  <2>2. ASSUME NEW l \in Good'
        PROVE  Range(contents'[l]) \cap W = {}
    BY <1>2
  <2> QED
    BY <2>1, <2>2 DEF Apart
<1>5. Counted'
  BY <1>2 DEF Counted
<1> QED
  BY <1>1, <1>3, <1>4, <1>5

\* A step that changes one list, which stays good, new nodes, and its own.
LEMMA GoodStep ==
    ASSUME NEW B, Sound(B), NEW l \in Good, NEW rec \in Header, rec.open,
           node' \in Seq(Node), DOMAIN node \subseteq DOMAIN node',
           NEW seq \in Seq(DOMAIN node'),
           list' = [list EXCEPT ![l] = rec], contents' = [contents EXCEPT ![l] = seq],
           loose' \subseteq DOMAIN node', bent' = bent, miscounted' \subseteq ListId,
           \A m \in ListId \ {l} : m \in miscounted' <=> m \in miscounted,
           \A n \in DOMAIN node \ Range(contents[l]) :
              node'[n] = node[n] /\ (n \in loose' <=> n \in loose),
           Range(seq) \subseteq Range(contents[l]) \cup (DOMAIN node' \ DOMAIN node),
           Chain(node', rec, seq, loose'),
           l \notin miscounted' => rec.length = Len(seq)
    PROVE  Sound(B)'
<1> DEFINE X == Range(contents[l])
<1> USE DEF Good
<1>1. /\ l \in ListId /\ l \notin bent
      /\ node \in Seq(Node) /\ list \in [ListId -> Header]
      /\ contents \in [ListId -> Seq(DOMAIN node)]
      /\ bent \subseteq ListId
      /\ B \subseteq DOMAIN node /\ Closed(node, B)
  BY DEF Sound, TypeOK, Apart, Open
<1>2. \A m \in ListId : Range(contents[m]) \subseteq DOMAIN node
  BY <1>1, RangeOfSeq
<1>3. \A m \in Good : Range(contents[m]) \cap B = {}
  BY DEF Sound, Apart
<1>4. \A m \in Good \ {l} : Range(contents[m]) \cap (X \cup B) = {}
  BY <1>3 DEF Sound, Chained
<1>5. Closed(node', B)
  <2>1. \A n \in B : node'[n] = node[n]
    BY <1>1, <1>3
  <2> QED
    BY <1>1, <2>1 DEF Closed
<1>6. list' \in [ListId -> Header]
  BY <1>1
<1>7. contents' \in [ListId -> Seq(DOMAIN node')]
  <2>1. \A m \in ListId : contents[m] \in Seq(DOMAIN node')
    BY <1>1, SeqMonotonic
  <2> QED
    BY <1>1, <2>1
<1>8. /\ list'[l] = rec /\ contents'[l] = seq
      /\ \A m \in ListId \ {l} : list'[m] = list[m] /\ contents'[m] = contents[m]
  BY <1>1
<1>9. Range(seq) \cap B = {}
  BY <1>1, <1>3
<1>10. \A m \in ListId \ bent' : l # m => Range(seq) \cap Range(contents'[m]) = {}
  BY <1>2, <1>4, <1>8
<1> QED
  <2> DEFINE L == {l}
  <2>1. L \subseteq ListId /\ \A m \in L : m = l
    BY <1>1
  <2>2. \A m \in ListId \ L : m # l
    OBVIOUS
  <2>3. \A n \in DOMAIN node \ X : node'[n] = node[n] /\ (n \in loose' <=> n \in loose)
    OBVIOUS
  <2>4. bent' \subseteq ListId /\ B \subseteq B /\ B \subseteq DOMAIN node'
    BY <1>1
  <2>5. \A m \in ListId \ L : /\ list'[m] = list[m] /\ contents'[m] = contents[m]
                              /\ m \in bent' <=> m \in bent
                              /\ m \in miscounted' <=> m \in miscounted
    BY <1>8
  <2>6. \A m \in Good \ L : Range(contents[m]) \cap (X \cup B) = {}
    BY <1>4
  <2>7. \A m \in L : \/ list'[m].open
                     \/ /\ list'[m] = Absent /\ contents'[m] = <<>>
                        /\ m \notin bent' \cup miscounted'
    BY <1>8
  <2>8. \A m \in L \cap bent' : /\ Range(contents'[m]) \subseteq B
                                /\ list'[m].head \in B \cup {NULL}
                                /\ list'[m].tail \in B \cup {NULL}
    BY <1>1
  <2>9. \A m \in L \ bent' :
           /\ Chain(node', list'[m], contents'[m], loose')
           /\ Range(contents'[m]) \cap B = {}
           /\ \A k \in ListId \ bent' : m # k =>
                 Range(contents'[m]) \cap Range(contents'[k]) = {}
           /\ m \notin miscounted' => list'[m].length = Len(contents'[m])
    BY <1>8, <1>9, <1>10, <2>1
  <2> HIDE DEF L, X, Good
  <2>10. Changes(L, X, B, B)
    BY <1>5, <1>6, <1>7, <2>1, <2>3, <2>4, <2>5, <2>6, <2>7, <2>8, <2>9 DEF Changes
  <2> QED
    BY <2>10, Step

\* A step that changes one list, which becomes or stays bent, and nodes that no
\* other good list has.
Bends(l, rec, seq, B, W) ==
    /\ l \in ListId /\ rec \in Header /\ rec.open
    /\ node' \in Seq(Node) /\ DOMAIN node \subseteq DOMAIN node'
    /\ seq \in Seq(DOMAIN node')
    /\ list' = [list EXCEPT ![l] = rec] /\ contents' = [contents EXCEPT ![l] = seq]
    /\ loose' \subseteq DOMAIN node' /\ bent' = bent \cup {l} /\ miscounted' \subseteq ListId
    /\ \A m \in ListId \ {l} : m \in miscounted' <=> m \in miscounted
    /\ B \subseteq W /\ W \subseteq DOMAIN node' /\ Closed(node', W)
    /\ \A n \in DOMAIN node \ W : node'[n] = node[n] /\ (n \in loose' <=> n \in loose)
    /\ \A m \in Good \ {l} : Range(contents[m]) \cap W = {}
    /\ Range(seq) \subseteq W /\ rec.head \in W \cup {NULL} /\ rec.tail \in W \cup {NULL}

LEMMA BentStep ==
    ASSUME NEW B, Sound(B), NEW W, NEW l, NEW rec, NEW seq, Bends(l, rec, seq, B, W)
    PROVE  Sound(W)'
<1> USE DEF Good, Bends
<1>1. /\ node \in Seq(Node) /\ list \in [ListId -> Header]
      /\ contents \in [ListId -> Seq(DOMAIN node)]
      /\ bent \subseteq ListId
  BY DEF Sound, TypeOK, Open
<1>2. list' \in [ListId -> Header]
  BY <1>1
<1>3. contents' \in [ListId -> Seq(DOMAIN node')]
  <2>1. \A m \in ListId : contents[m] \in Seq(DOMAIN node')
    BY <1>1, SeqMonotonic
  <2> QED
    BY <1>1, <2>1
<1>4. /\ list'[l] = rec /\ contents'[l] = seq
      /\ \A m \in ListId \ {l} : list'[m] = list[m] /\ contents'[m] = contents[m]
  BY <1>1
<1> DEFINE L == {l}
<1>5. L \subseteq ListId /\ \A m \in L : m = l
  OBVIOUS
<1>6. bent' \subseteq ListId /\ l \in bent'
  BY <1>1
<1>7. \A m \in ListId \ L : /\ list'[m] = list[m] /\ contents'[m] = contents[m]
                            /\ m \in bent' <=> m \in bent
                            /\ m \in miscounted' <=> m \in miscounted
  BY <1>4
<1>8. \A m \in Good \ L : Range(contents[m]) \cap (W \cup W) = {}
  OBVIOUS
<1>9. \A m \in L : \/ list'[m].open
                   \/ /\ list'[m] = Absent /\ contents'[m] = <<>>
                      /\ m \notin bent' \cup miscounted'
  BY <1>4
<1>10. \A m \in L \cap bent' : /\ Range(contents'[m]) \subseteq W
                               /\ list'[m].head \in W \cup {NULL}
                               /\ list'[m].tail \in W \cup {NULL}
  BY <1>4
<1>11. \A m \in L \ bent' :
          /\ Chain(node', list'[m], contents'[m], loose')
          /\ Range(contents'[m]) \cap W = {}
          /\ \A k \in ListId \ bent' : m # k =>
                Range(contents'[m]) \cap Range(contents'[k]) = {}
          /\ m \notin miscounted' => list'[m].length = Len(contents'[m])
  BY <1>6
<1> HIDE DEF L, Good
<1>12. Changes(L, W, B, W)
  BY <1>2, <1>3, <1>5, <1>6, <1>7, <1>8, <1>9, <1>10, <1>11 DEF Changes
<1> QED
  BY <1>12, Step

(***************************************************************************)
(* Facts about a state, for the steps.                                     *)
(***************************************************************************)

LEMMA StateFacts ==
    ASSUME NEW B, Sound(B)
    PROVE  /\ node \in Seq(Node) /\ Len(node) \in Nat /\ DOMAIN node = 1 .. Len(node)
           /\ New \in Nat /\ New \notin DOMAIN node /\ NULL \notin DOMAIN node /\ NULL # New
           /\ \A n \in DOMAIN node : node[n] \in Node
           /\ list \in [ListId -> Header] /\ contents \in [ListId -> Seq(DOMAIN node)]
           /\ loose \subseteq DOMAIN node /\ bent \subseteq Open /\ miscounted \subseteq Open
           /\ Open \subseteq ListId
           /\ B \subseteq DOMAIN node /\ Closed(node, B)
<1>1. node \in Seq(Node) /\ Len(node) \in Nat /\ DOMAIN node = 1 .. Len(node)
  BY LenProperties DEF Sound, TypeOK
<1>2. New \in Nat /\ New \notin DOMAIN node /\ NULL \notin DOMAIN node /\ NULL # New
  BY <1>1, NullAssumption DEF New
<1>3. \A n \in DOMAIN node : node[n] \in Node
  BY <1>1, ElementOfSeq
<1> QED
  BY <1>1, <1>2, <1>3 DEF Sound, TypeOK, Apart, Open

LEMMA ListFacts ==
    ASSUME NEW B, Sound(B), NEW l \in ListId
    PROVE  /\ contents[l] \in Seq(DOMAIN node) /\ Len(contents[l]) \in Nat
           /\ DOMAIN contents[l] = 1 .. Len(contents[l])
           /\ \A i \in 1 .. Len(contents[l]) : /\ contents[l][i] \in DOMAIN node
                                               /\ contents[l][i] # NULL
           /\ Range(contents[l]) = {contents[l][i] : i \in 1 .. Len(contents[l])}
           /\ Range(contents[l]) \subseteq DOMAIN node
           /\ list[l] \in Header
<1>1. contents[l] \in Seq(DOMAIN node) /\ list[l] \in Header /\ NULL \notin DOMAIN node
  BY StateFacts
<1>2. /\ Len(contents[l]) \in Nat /\ DOMAIN contents[l] = 1 .. Len(contents[l])
      /\ \A i \in 1 .. Len(contents[l]) : contents[l][i] \in DOMAIN node
  BY <1>1, LenProperties, ElementOfSeq
<1> QED
  BY <1>1, <1>2 DEF Range

LEMMA GoodFacts ==
    ASSUME NEW B, Sound(B), NEW l \in Good
    PROVE  /\ l \in ListId /\ l \notin bent
           /\ Chain(node, list[l], contents[l], loose)
           /\ Walk(l) = contents[l]
           /\ l \notin miscounted => list[l].length = Len(contents[l])
           /\ list[l].head \in DOMAIN node \cup {NULL}
           /\ list[l].tail \in DOMAIN node \cup {NULL}
           /\ ~Freed({list[l].head}) /\ ~Freed({list[l].tail})
           /\ ~Freed(Range(contents[l]))
           /\ \A i \in 1 .. Len(contents[l]) :
                /\ node[contents[l][i]].next \in DOMAIN node \cup {NULL}
                /\ node[contents[l][i]].prev \in DOMAIN node \cup {NULL}
                /\ ~Freed({node[contents[l][i]].next}) /\ ~Freed({node[contents[l][i]].prev})
<1> DEFINE c == contents[l]
<1>1. l \in ListId /\ l \notin bent /\ Chain(node, list[l], c, loose)
  BY DEF Sound, Chained, Good
<1>2. l \notin miscounted => list[l].length = Len(c)
  BY DEF Sound, Counted
<1>3. /\ c \in Seq(DOMAIN node) /\ Len(c) \in Nat /\ DOMAIN c = 1 .. Len(c)
      /\ \A i \in 1 .. Len(c) : c[i] \in DOMAIN node /\ c[i] # NULL
      /\ Range(c) = {c[i] : i \in 1 .. Len(c)}
  BY <1>1, ListFacts
<1>4. node \in Seq(Node)
  BY StateFacts
<1> HIDE DEF c
<1>5. From(list[l].head) = c
  BY <1>1, <1>3, <1>4, WalkOfChain
<1>6. \A i \in Int : At(c, i) \in DOMAIN node \cup {NULL} /\ ~Freed({At(c, i)})
  BY <1>1, <1>3 DEF At, Chain, Freed
<1>7. list[l].head = At(c, 1) /\ list[l].tail = At(c, Len(c))
  BY <1>1 DEF Chain
<1>8. \A i \in 1 .. Len(c) : /\ node[c[i]].next = At(c, i + 1)
                             /\ node[c[i]].prev \in {NULL, At(c, i - 1)}
  BY <1>1, <1>3 DEF Chain
<1>9. ~Freed({NULL}) /\ ~Freed(Range(c))
  BY <1>1, <1>3 DEF Freed, Chain
<1>10. ASSUME NEW i \in 1 .. Len(c)
       PROVE  /\ node[c[i]].next \in DOMAIN node \cup {NULL}
              /\ node[c[i]].prev \in DOMAIN node \cup {NULL}
              /\ ~Freed({node[c[i]].next}) /\ ~Freed({node[c[i]].prev})
  <2>1. i + 1 \in Int /\ i - 1 \in Int
    OBVIOUS
  <2>2. node[c[i]].next = At(c, i + 1) /\ (node[c[i]].prev = NULL \/ node[c[i]].prev = At(c, i - 1))
    BY <1>8
  <2> QED
    BY <1>6, <1>9, <2>1, <2>2
<1>11. 1 \in Int /\ Len(c) \in Int
  BY <1>3
<1> QED
  BY <1>1, <1>2, <1>5, <1>6, <1>7, <1>9, <1>10, <1>11 DEF Walk, c

LEMMA Kept ==
    ASSUME NEW W, Sound(W)', fault' \in bent' \cup {NULL}
    PROVE  IInv'
BY DEF IInv, Sound, Apart

(***************************************************************************)
(* Insertion.                                                              *)
(***************************************************************************)

\* The new node is the p-th of list l.
Inserted(l, p) ==
    LET c  == contents[l]
        c2 == contents'[l]
        k  == Len(c)
    IN /\ node' \in Seq(Node) /\ Len(node') = New
       /\ ~node'[New].freed /\ node'[New].next = At(c, p) /\ node'[New].prev = At(c, p - 1)
       /\ \A n \in DOMAIN node \ Range(c) : node'[n] = node[n]
       /\ \A i \in 1 .. k :
             /\ node'[c[i]].freed = node[c[i]].freed
             /\ node'[c[i]].next = IF i = p - 1 THEN New ELSE node[c[i]].next
             /\ node'[c[i]].prev = IF i = p /\ c[i] \notin loose' THEN New
                                   ELSE node[c[i]].prev
             /\ i # p => (c[i] \in loose' <=> c[i] \in loose)
             /\ i = p /\ c[i] \in loose' => node[c[i]].prev = NULL
       /\ \A n \in DOMAIN node \ Range(c) : n \in loose' <=> n \in loose
       /\ loose' \subseteq DOMAIN node
       /\ list' = [list EXCEPT ![l] = [list[l] EXCEPT
                      !.head = IF p = 1 THEN New ELSE list[l].head,
                      !.tail = IF p = k + 1 THEN New ELSE list[l].tail,
                      !.length = list[l].length + 1]]
       /\ contents' = [contents EXCEPT ![l] = c2]
       /\ c2 \in Seq(DOMAIN node \cup {New}) /\ Len(c2) = k + 1
       /\ \A j \in 1 .. k + 1 : c2[j] = IF j < p THEN c[j] ELSE IF j = p THEN New ELSE c[j - 1]
       /\ bent' = bent /\ miscounted' = miscounted

LEMMA InsertStep ==
    ASSUME NEW B, Sound(B), NEW l \in Good, list[l].open,
           NEW p \in 1 .. Len(contents[l]) + 1, Inserted(l, p)
    PROVE  Sound(B)'
<1> DEFINE c   == contents[l]
           c2  == contents'[l]
           k   == Len(c)
           rec == list'[l]
<1>1. /\ l \in ListId /\ Chain(node, list[l], c, loose)
      /\ l \notin miscounted => list[l].length = k
  BY GoodFacts
<1>2. /\ k \in Nat /\ DOMAIN c = 1 .. k /\ list[l] \in Header
      /\ \A i \in 1 .. k : c[i] \in DOMAIN node /\ c[i] # NULL
      /\ Range(c) = {c[i] : i \in 1 .. k}
  BY <1>1, ListFacts
<1>3. /\ Len(node) \in Nat /\ DOMAIN node = 1 .. Len(node) /\ New = Len(node) + 1
      /\ New \notin DOMAIN node /\ NULL # New /\ New \in Nat
      /\ loose \subseteq DOMAIN node /\ miscounted \subseteq ListId
      /\ list \in [ListId -> Header]
  BY StateFacts DEF New
<1>4. DOMAIN node' = DOMAIN node \cup {New}
  <2>1. DOMAIN node' = 1 .. New
    BY LenProperties DEF Inserted
  <2> QED
    BY <1>3, <2>1
<1>5. /\ c2 \in Seq(DOMAIN node') /\ Len(c2) = k + 1 /\ DOMAIN c2 = 1 .. k + 1
      /\ \A j \in 1 .. k + 1 : c2[j] = IF j < p THEN c[j] ELSE IF j = p THEN New ELSE c[j - 1]
  <2>1. c2 \in Seq(DOMAIN node') /\ Len(c2) = k + 1
    BY <1>4 DEF Inserted
  <2>2. DOMAIN c2 = 1 .. k + 1
    BY <2>1, LenProperties
  <2> QED
    BY <2>1, <2>2 DEF Inserted
<1>6. /\ rec \in Header /\ rec.open /\ rec.length = list[l].length + 1
      /\ rec.head = IF p = 1 THEN New ELSE list[l].head
      /\ rec.tail = IF p = k + 1 THEN New ELSE list[l].tail
      /\ list' = [list EXCEPT ![l] = rec]
  <2>1. rec = [list[l] EXCEPT
                      !.head = IF p = 1 THEN New ELSE list[l].head,
                      !.tail = IF p = k + 1 THEN New ELSE list[l].tail,
                      !.length = list[l].length + 1]
    BY <1>1, <1>3 DEF Inserted
  <2>2. list' = [list EXCEPT ![l] = rec]
    BY <2>1 DEF Inserted
  <2> DEFINE h == IF p = 1 THEN New ELSE list[l].head
             t == IF p = k + 1 THEN New ELSE list[l].tail
             n == list[l].length + 1
  <2>3. h \in Ptr /\ t \in Ptr /\ n \in Int
    BY <1>2, <1>3 DEF Header, Ptr
  <2>4. list[l] \in [head : Ptr, tail : Ptr, length : Int, open : BOOLEAN]
    BY <1>2 DEF Header
  <2>5. rec = [list[l] EXCEPT !.head = h, !.tail = t, !.length = n]
    BY <2>1
  <2> HIDE DEF h, t, n, rec
  <2>6. rec.head = h /\ rec.tail = t /\ rec.length = n /\ rec.open = list[l].open
    BY <2>4, <2>5
  <2>7. rec \in Header
    BY <2>3, <2>4, <2>5 DEF Header
  <2>8. list' = [list EXCEPT ![l] = rec]
    BY <2>2 DEF rec
  <2> QED
    BY <2>6, <2>7, <2>8 DEF h, t, n
<1>7. contents' = [contents EXCEPT ![l] = c2]
  BY DEF Inserted
<1>8. ASSUME NEW j \in 1 .. k + 1
      PROVE  /\ j < p => j \in 1 .. k /\ c2[j] = c[j]
             /\ j = p => c2[j] = New
             /\ j > p => j - 1 \in 1 .. k /\ c2[j] = c[j - 1]
  BY <1>2, <1>5
<1>9. \A i, j \in 1 .. k + 1 : c2[i] = c2[j] => i = j
  <2> SUFFICES ASSUME NEW i \in 1 .. k + 1, NEW j \in 1 .. k + 1, i < j, c2[i] = c2[j]
               PROVE  FALSE
    BY <1>2
  <2>1. \A x, y \in 1 .. k : c[x] = c[y] => x = y
    BY <1>1, <1>2 DEF Chain
  <2>2. \A x \in 1 .. k : c[x] # New
    BY <1>2, <1>3
  <2>3. CASE i < p /\ j < p
    BY <1>8, <2>1, <2>3
  <2>4. CASE i < p /\ j = p
    BY <1>8, <2>2, <2>4
  <2>5. CASE i < p /\ j > p
    BY <1>2, <1>8, <2>1, <2>5
  <2>6. CASE i = p /\ j > p
    BY <1>8, <2>2, <2>6
  <2>7. CASE i > p /\ j > p
    BY <1>2, <1>8, <2>1, <2>7
  <2> QED
    BY <1>2, <2>3, <2>4, <2>5, <2>6, <2>7
<1> HIDE DEF c, c2, k, rec
<1>10. \A i \in 0 .. k + 2 : At(c2, i) = IF i < p THEN At(c, i) ELSE IF i = p THEN New
                                       ELSE At(c, i - 1)
  <2>1. p \in 1 .. k + 1
    BY DEF c, k
  <2> SUFFICES ASSUME NEW i \in 0 .. k + 2
               PROVE  At(c2, i) = IF i < p THEN At(c, i) ELSE IF i = p THEN New
                                  ELSE At(c, i - 1)
    OBVIOUS
  <2>2. CASE i < p
    BY <1>2, <1>5, <2>1, <2>2 DEF At
  <2>3. CASE i = p
    BY <1>2, <1>5, <2>1, <2>3 DEF At
  <2>4. CASE i > p
    BY <1>2, <1>5, <2>1, <2>4 DEF At
  <2> QED
    BY <1>2, <2>1, <2>2, <2>3, <2>4
<1>11. \A i \in 1 .. k : /\ ~node[c[i]].freed
                         /\ node[c[i]].next = At(c, i + 1)
                         /\ node[c[i]].prev = IF c[i] \in loose THEN NULL ELSE At(c, i - 1)
  BY <1>1, <1>2 DEF Chain
<1>12. /\ ~node'[New].freed /\ node'[New].next = At(c, p) /\ node'[New].prev = At(c, p - 1)
       /\ New \notin loose'
  BY <1>3 DEF Inserted, c
<1>13. \A i \in 1 .. k :
         /\ node'[c[i]].freed = node[c[i]].freed
         /\ node'[c[i]].next = IF i = p - 1 THEN New ELSE node[c[i]].next
         /\ node'[c[i]].prev = IF i = p /\ c[i] \notin loose' THEN New ELSE node[c[i]].prev
         /\ i # p => (c[i] \in loose' <=> c[i] \in loose)
         /\ i = p /\ c[i] \in loose' => node[c[i]].prev = NULL
  BY DEF Inserted, c, k
<1>14. ASSUME NEW j \in 1 .. k + 1
       PROVE  /\ ~node'[c2[j]].freed
              /\ node'[c2[j]].next = At(c2, j + 1)
              /\ node'[c2[j]].prev = IF c2[j] \in loose' THEN NULL ELSE At(c2, j - 1)
  <2>0. p \in 1 .. k + 1 /\ j \in 0 .. k + 2 /\ j + 1 \in 0 .. k + 2 /\ j - 1 \in 0 .. k + 2
    BY <1>2 DEF c, k
  <2>1. CASE j < p
    <3>1. j \in 1 .. k /\ c2[j] = c[j]
      BY <1>8, <2>1
    <3>2. node'[c[j]].next = At(c2, j + 1)
      BY <1>2, <1>10, <1>11, <1>13, <2>0, <2>1, <3>1
    <3>3. node'[c[j]].prev = IF c[j] \in loose' THEN NULL ELSE At(c2, j - 1)
      BY <1>2, <1>10, <1>11, <1>13, <2>0, <2>1, <3>1
    <3> QED
      BY <1>11, <1>13, <3>1, <3>2, <3>3
  <2>2. CASE j = p
    <3>1. c2[j] = New /\ At(c2, j + 1) = At(c, j) /\ At(c2, j - 1) = At(c, j - 1)
      <4>1. (j + 1) - 1 = j /\ ~(j + 1 < p) /\ j + 1 # p /\ j - 1 < p
        BY <1>2, <2>0, <2>2
      <4> QED
        BY <1>8, <1>10, <2>0, <2>2, <4>1
    <3> QED
      BY <1>12, <2>2, <3>1
  <2>3. CASE j > p
    <3>1. j - 1 \in 1 .. k /\ c2[j] = c[j - 1]
      BY <1>8, <2>3
    <3>2. At(c2, j + 1) = At(c, j)
      <4>1. (j + 1) - 1 = j /\ ~(j + 1 < p) /\ j + 1 # p
        BY <1>2, <2>0, <2>3
      <4> QED
        BY <1>10, <2>0, <4>1
    <3>3. node'[c[j - 1]].next = At(c, j)
      <4>1. (j - 1) + 1 = j /\ j - 1 # p - 1
        BY <1>2, <2>0, <2>3
      <4> QED
        BY <1>11, <1>13, <3>1, <4>1
    <3>4. CASE j - 1 = p
      <4>1. At(c2, j - 1) = New
        BY <1>10, <2>0, <3>4
      <4> QED
        BY <1>11, <1>13, <3>1, <3>2, <3>3, <3>4, <4>1
    <3>5. CASE j - 1 # p
      <4>1. At(c2, j - 1) = At(c, (j - 1) - 1)
        BY <1>2, <1>10, <2>0, <2>3, <3>5
      <4> QED
        BY <1>11, <1>13, <3>1, <3>2, <3>3, <3>5, <4>1
    <3> QED
      BY <3>4, <3>5
  <2> QED
    BY <1>2, <2>0, <2>1, <2>2, <2>3
<1>15. rec.head = At(c2, 1) /\ rec.tail = At(c2, k + 1)
  <2>1. p \in 1 .. k + 1 /\ 1 \in 0 .. k + 2 /\ k + 1 \in 0 .. k + 2 /\ (k + 1) - 1 = k
    BY <1>2 DEF c, k
  <2>2. list[l].head = At(c, 1) /\ list[l].tail = At(c, k)
    BY <1>1 DEF Chain, k
  <2>3. At(c2, 1) = IF 1 < p THEN At(c, 1) ELSE New
    BY <1>10, <2>1
  <2>4. At(c2, k + 1) = IF k + 1 = p THEN New ELSE At(c, k)
    BY <1>2, <1>10, <2>1
  <2> QED
    BY <1>2, <1>6, <2>1, <2>2, <2>3, <2>4
<1>16. At(c2, 1) \notin loose'
  <2>1. At(c, 1) \notin loose /\ NULL \notin DOMAIN node
    BY <1>1, StateFacts DEF Chain
  <2>2. loose' \subseteq DOMAIN node
    BY DEF Inserted
  <2>3. p \in 1 .. k + 1 /\ 1 \in 0 .. k + 2
    BY <1>2 DEF c, k
  <2>4. CASE p = 1
    BY <1>10, <1>12, <2>3, <2>4
  <2>5. CASE p > 1
    <3>1. At(c2, 1) = At(c, 1)
      BY <1>2, <1>10, <2>3, <2>5
    <3>2. 1 \in 1 .. k /\ At(c, 1) = c[1]
      BY <1>2, <2>3, <2>5 DEF At
    <3> QED
      BY <1>13, <2>1, <2>5, <3>1, <3>2
  <2> QED
    BY <1>2, <2>3, <2>4, <2>5
<1>17. Chain(node', rec, c2, loose')
  BY <1>5, <1>9, <1>14, <1>15, <1>16 DEF Chain
<1>18. Range(c2) \subseteq Range(c) \cup (DOMAIN node' \ DOMAIN node)
  <2> SUFFICES ASSUME NEW j \in 1 .. k + 1
               PROVE  c2[j] \in Range(c) \cup (DOMAIN node' \ DOMAIN node)
    BY <1>5 DEF Range
  <2>1. p \in 1 .. k + 1
    BY DEF c, k
  <2>2. CASE j = p
    BY <1>3, <1>4, <1>8, <2>2
  <2>3. CASE j # p
    BY <1>2, <1>8, <2>1, <2>3
  <2> QED
    BY <2>2, <2>3
<1>19. l \notin miscounted' => rec.length = Len(c2)
  BY <1>1, <1>5, <1>6 DEF Inserted
<1>20. /\ node' \in Seq(Node) /\ DOMAIN node \subseteq DOMAIN node' /\ loose' \subseteq DOMAIN node'
       /\ bent' = bent /\ miscounted' \subseteq ListId
       /\ \A m \in ListId \ {l} : m \in miscounted' <=> m \in miscounted
       /\ \A n \in DOMAIN node \ Range(c) : node'[n] = node[n] /\ (n \in loose' <=> n \in loose)
  BY <1>3, <1>4 DEF Inserted, c
<1> QED
  BY <1>5, <1>6, <1>7, <1>17, <1>18, <1>19, <1>20, GoodStep DEF c

LEMMA NewNode ==
    ASSUME NEW ns \in Seq(Node), Len(ns) = Len(node), Len(node) \in Nat,
           NEW l \in ListId, NEW data \in Data, NEW next \in Ptr, NEW prev \in Ptr
    PROVE  LET cell == Allocated(l, data, next, prev)
           IN /\ cell \in Node
              /\ ~cell.freed /\ cell.next = next /\ cell.prev = prev
              /\ Append(ns, cell) \in Seq(Node)
              /\ Len(Append(ns, cell)) = New /\ DOMAIN Append(ns, cell) = 1 .. New
              /\ \A n \in DOMAIN ns : Append(ns, cell)[n] = ns[n]
              /\ Append(ns, cell)[New] = cell
<1> DEFINE cell == Allocated(l, data, next, prev)
<1>1. cell \in Node /\ ~cell.freed /\ cell.next = next /\ cell.prev = prev
  BY DataAssumption DEF Allocated, Node
<1> HIDE DEF cell
<1>2. /\ Append(ns, cell) \in Seq(Node) /\ Len(Append(ns, cell)) = Len(ns) + 1
      /\ \A n \in 1 .. Len(ns) : Append(ns, cell)[n] = ns[n]
      /\ Append(ns, cell)[Len(ns) + 1] = cell
  BY <1>1, AppendProperties
<1>3. DOMAIN Append(ns, cell) = 1 .. Len(Append(ns, cell)) /\ DOMAIN ns = 1 .. Len(ns)
  BY <1>2, LenProperties
<1>4. Len(ns) + 1 = New
  BY DEF New
<1> QED
  BY <1>1, <1>2, <1>3, <1>4 DEF cell

LEMMA AppendStep ==
    ASSUME NEW B, Sound(B), fault = NULL, NEW l \in Good, list[l].open,
           NEW data \in Data, Append1(l, data)
    PROVE  IInv'
<1> DEFINE c == contents[l]
           k == Len(c)
           tail == list[l].tail
           ns == SetNext(node, tail, New)
           cell == Allocated(l, data, NULL, tail)
<1>1. /\ l \in ListId /\ l \notin bent /\ Chain(node, list[l], c, loose)
      /\ tail \in DOMAIN node \cup {NULL} /\ ~Freed({tail})
  BY GoodFacts
<1>2. /\ k \in Nat /\ DOMAIN c = 1 .. k
      /\ \A i \in 1 .. k : c[i] \in DOMAIN node /\ c[i] # NULL
      /\ Range(c) = {c[i] : i \in 1 .. k} /\ c \in Seq(DOMAIN node)
      /\ list[l] \in Header
  BY <1>1, ListFacts
<1>3. /\ node \in Seq(Node) /\ Len(node) \in Nat /\ DOMAIN node = 1 .. Len(node)
      /\ New \in Nat /\ New \notin DOMAIN node /\ NULL \notin DOMAIN node
      /\ loose \subseteq DOMAIN node /\ contents \in [ListId -> Seq(DOMAIN node)]
      /\ list \in [ListId -> Header] /\ \A n \in DOMAIN node : node[n] \in Node
  BY StateFacts
<1>4. /\ node' = Append(ns, cell)
      /\ list' = [list EXCEPT ![l] = [list[l] EXCEPT
             !.head = IF tail = NULL THEN New ELSE list[l].head,
             !.tail = New, !.length = list[l].length + 1]]
      /\ contents' = [contents EXCEPT ![l] = Append(c, New)]
      /\ fault' = fault /\ loose' = loose /\ bent' = bent /\ miscounted' = miscounted
  BY <1>1 DEF Append1, Reads, Grown, Holds, history
<1>5. tail \in Ptr /\ NULL \in Ptr
  BY <1>1, <1>3 DEF Ptr
<1>6. /\ ns \in Seq(Node) /\ Len(ns) = Len(node) /\ DOMAIN ns = DOMAIN node
      /\ \A m \in DOMAIN node : /\ m # tail => ns[m] = node[m]
                                /\ m = tail => Rewired(ns[m], node[m], New, node[m].prev)
  <2>1. New \in Ptr
    BY <1>3 DEF Ptr
  <2> HIDE DEF tail
  <2> QED
    BY <1>1, <1>3, <2>1, NextSet
<1> HIDE DEF ns
<1>7. /\ ~cell.freed /\ cell.next = NULL /\ cell.prev = tail
      /\ Append(ns, cell) \in Seq(Node) /\ Len(Append(ns, cell)) = New
      /\ \A n \in DOMAIN ns : Append(ns, cell)[n] = ns[n]
      /\ Append(ns, cell)[New] = cell
  BY <1>1, <1>3, <1>5, <1>6, NewNode
<1> HIDE DEF cell
<1>8. tail = At(c, k) /\ At(c, k + 1) = NULL
  BY <1>1, <1>2 DEF Chain, At
<1>9. \A i \in 1 .. k : c[i] = tail <=> i = k
  BY <1>1, <1>2, <1>8 DEF Chain, At
<1>10. \A n \in DOMAIN node : /\ n # tail => node'[n] = node[n]
                              /\ n = tail => Rewired(node'[n], node[n], New, node[n].prev)
  BY <1>4, <1>6, <1>7
<1>11. tail = NULL <=> k = 0
  BY <1>2, <1>8 DEF At
<1>12. /\ Append(c, New) \in Seq(DOMAIN node \cup {New}) /\ Len(Append(c, New)) = k + 1
       /\ \A j \in 1 .. k : Append(c, New)[j] = c[j]
       /\ Append(c, New)[k + 1] = New
  <2>1. c \in Seq(DOMAIN node \cup {New})
    BY <1>2, SeqMonotonic
  <2> QED
    BY <2>1, AppendProperties
<1>13. contents'[l] = Append(c, New)
  BY <1>1, <1>3, <1>4
<1> HIDE DEF c, k
<1>14. \A i \in 1 .. k : /\ node'[c[i]].freed = node[c[i]].freed
                         /\ node'[c[i]].next = IF i = k THEN New ELSE node[c[i]].next
                         /\ node'[c[i]].prev = node[c[i]].prev
  <2> SUFFICES ASSUME NEW i \in 1 .. k
               PROVE  /\ node'[c[i]].freed = node[c[i]].freed
                      /\ node'[c[i]].next = IF i = k THEN New ELSE node[c[i]].next
                      /\ node'[c[i]].prev = node[c[i]].prev
    OBVIOUS
  <2>1. c[i] \in DOMAIN node /\ node[c[i]] \in Node
    BY <1>2, <1>3
  <2>2. /\ i # k => node'[c[i]] = node[c[i]]
        /\ i = k => Rewired(node'[c[i]], node[c[i]], New, node[c[i]].prev)
    BY <1>9, <1>10, <2>1
  <2> QED
    BY <2>1, <2>2 DEF Rewired
<1>15. \A n \in DOMAIN node \ Range(c) : node'[n] = node[n]
  <2>1. tail \in Range(c) \cup {NULL}
    BY <1>2, <1>8 DEF At
  <2> QED
    BY <1>3, <1>10, <2>1
<1>16. list' = [list EXCEPT ![l] = [list[l] EXCEPT
                  !.head = IF k + 1 = 1 THEN New ELSE list[l].head,
                  !.tail = IF k + 1 = k + 1 THEN New ELSE list[l].tail,
                  !.length = list[l].length + 1]]
  <2>1. (IF k + 1 = 1 THEN New ELSE list[l].head) = (IF tail = NULL THEN New ELSE list[l].head)
    BY <1>2, <1>11
  <2> QED
    BY <1>4, <2>1
<1>17. Inserted(l, k + 1)
  <2>1. /\ node' \in Seq(Node) /\ Len(node') = New
        /\ ~node'[New].freed /\ node'[New].next = At(c, k + 1)
        /\ node'[New].prev = At(c, (k + 1) - 1)
    BY <1>2, <1>4, <1>7, <1>8
  <2>2. \A i \in 1 .. k :
           /\ node'[c[i]].freed = node[c[i]].freed
           /\ node'[c[i]].next = IF i = (k + 1) - 1 THEN New ELSE node[c[i]].next
           /\ node'[c[i]].prev = IF i = k + 1 /\ c[i] \notin loose' THEN New ELSE node[c[i]].prev
           /\ i # k + 1 => (c[i] \in loose' <=> c[i] \in loose)
           /\ i = k + 1 /\ c[i] \in loose' => node[c[i]].prev = NULL
    <3> SUFFICES ASSUME NEW i \in 1 .. k
                 PROVE  /\ node'[c[i]].freed = node[c[i]].freed
                        /\ node'[c[i]].next = IF i = (k + 1) - 1 THEN New ELSE node[c[i]].next
                        /\ node'[c[i]].prev = IF i = k + 1 /\ c[i] \notin loose' THEN New
                                              ELSE node[c[i]].prev
                        /\ i # k + 1 => (c[i] \in loose' <=> c[i] \in loose)
                        /\ i = k + 1 /\ c[i] \in loose' => node[c[i]].prev = NULL
      OBVIOUS
    <3>1. i # k + 1 /\ (k + 1) - 1 = k /\ loose' = loose
      BY <1>2, <1>4
    <3> QED
      BY <1>14, <3>1
  <2>3. \A j \in 1 .. k + 1 : contents'[l][j] =
           IF j < k + 1 THEN c[j] ELSE IF j = k + 1 THEN New ELSE c[j - 1]
    BY <1>2, <1>12, <1>13
  <2>4. /\ contents' = [contents EXCEPT ![l] = contents'[l]]
        /\ contents'[l] \in Seq(DOMAIN node \cup {New}) /\ Len(contents'[l]) = k + 1
        /\ loose' \subseteq DOMAIN node /\ bent' = bent /\ miscounted' = miscounted
        /\ \A n \in DOMAIN node \ Range(c) : n \in loose' <=> n \in loose
    BY <1>3, <1>4, <1>12, <1>13
  <2> QED
    BY <1>15, <1>16, <2>1, <2>2, <2>3, <2>4 DEF Inserted, c, k
<1>18. k + 1 \in 1 .. Len(contents[l]) + 1
  BY <1>2 DEF k, c
<1>19. Sound(B)'
  BY <1>17, <1>18, InsertStep DEF k, c
<1> QED
  BY <1>4, <1>19, Kept

Updated(h, x, y, n) == [h EXCEPT !.head = x, !.tail = y, !.length = n]
LEMMA NewHeader ==
    ASSUME NEW h \in Header, NEW x \in Ptr, NEW y \in Ptr, NEW n \in Int
    PROVE  /\ Updated(h, x, y, n) \in Header
           /\ Updated(h, x, y, n).head = x /\ Updated(h, x, y, n).tail = y
           /\ Updated(h, x, y, n).length = n /\ Updated(h, x, y, n).open = h.open
BY DEF Header, Updated

\* Two nodes are linked to others, in either order.
Relinks(r, ns, a, y, b, x) ==
    /\ r \in Seq(Node) /\ Len(r) = Len(ns) /\ DOMAIN r = DOMAIN ns
    /\ \A m \in DOMAIN ns :
         /\ m \notin {a, b} => r[m] = ns[m]
         /\ Rewired(r[m], ns[m], IF m = a THEN y ELSE ns[m].next,
                                 IF m = b THEN x ELSE ns[m].prev)
LEMMA Relinked ==
    ASSUME NEW ns \in Seq(Node), NEW a \in DOMAIN ns \cup {NULL}, NEW y \in Ptr,
           NEW b \in DOMAIN ns \cup {NULL}, NEW x \in Ptr
    PROVE  /\ Relinks(SetPrev(SetNext(ns, a, y), b, x), ns, a, y, b, x)
           /\ Relinks(SetNext(SetPrev(ns, b, x), a, y), ns, a, y, b, x)
<1>0. SUFFICES ASSUME NEW r, \/ r = SetPrev(SetNext(ns, a, y), b, x)
                             \/ r = SetNext(SetPrev(ns, b, x), a, y)
               PROVE  Relinks(r, ns, a, y, b, x)
  OBVIOUS
<1>1. CASE r = SetPrev(SetNext(ns, a, y), b, x)
  <2> DEFINE s == SetNext(ns, a, y)
  <2>1. /\ s \in Seq(Node) /\ Len(s) = Len(ns) /\ DOMAIN s = DOMAIN ns
        /\ \A m \in DOMAIN ns :
             /\ m # a => s[m] = ns[m]
             /\ m = a => Rewired(s[m], ns[m], y, ns[m].prev)
    BY NextSet
  <2> HIDE DEF s
  <2>2. /\ r \in Seq(Node) /\ Len(r) = Len(s) /\ DOMAIN r = DOMAIN s
        /\ \A m \in DOMAIN s :
             /\ m # b => r[m] = s[m]
             /\ m = b => Rewired(r[m], s[m], s[m].next, x)
    <3>1. r = SetPrev(s, b, x)
      BY <1>1 DEF s
    <3> QED
      BY <2>1, <3>1, PrevSet
  <2> QED
    BY <2>1, <2>2 DEF Rewired, Relinks
<1>2. CASE r = SetNext(SetPrev(ns, b, x), a, y)
  <2> DEFINE s == SetPrev(ns, b, x)
  <2>1. /\ s \in Seq(Node) /\ Len(s) = Len(ns) /\ DOMAIN s = DOMAIN ns
        /\ \A m \in DOMAIN ns :
             /\ m # b => s[m] = ns[m]
             /\ m = b => Rewired(s[m], ns[m], ns[m].next, x)
    BY PrevSet
  <2> HIDE DEF s
  <2>2. /\ r \in Seq(Node) /\ Len(r) = Len(s) /\ DOMAIN r = DOMAIN s
        /\ \A m \in DOMAIN s :
             /\ m # a => r[m] = s[m]
             /\ m = a => Rewired(r[m], s[m], y, s[m].prev)
    <3>1. r = SetNext(s, a, y)
      BY <1>2 DEF s
    <3> QED
      BY <2>1, <3>1, NextSet
  <2> QED
    BY <2>1, <2>2 DEF Rewired, Relinks
<1> QED
  BY <1>0, <1>1, <1>2

\* A new node, and the nodes before and behind it linked to it.
LinksIn(l, data, a, b, next, prev) ==
    LET ns == Append(node, Allocated(l, data, next, prev))
    IN node' \in {SetPrev(SetNext(ns, a, New), b, New), SetNext(SetPrev(ns, b, New), a, New)}
HasNew(a, b, next, prev) ==
    /\ node' \in Seq(Node) /\ Len(node') = New /\ DOMAIN node' = DOMAIN node \cup {New}
    /\ ~node'[New].freed /\ node'[New].next = next /\ node'[New].prev = prev
    /\ \A n \in DOMAIN node :
         /\ n \notin {a, b} => node'[n] = node[n]
         /\ Rewired(node'[n], node[n], IF n = a THEN New ELSE node[n].next,
                                       IF n = b THEN New ELSE node[n].prev)

LEMMA LinkedIn ==
    ASSUME NEW B, Sound(B), NEW l \in ListId, NEW data \in Data,
           NEW a \in DOMAIN node \cup {NULL}, NEW b \in DOMAIN node \cup {NULL},
           NEW next \in Ptr, NEW prev \in Ptr, LinksIn(l, data, a, b, next, prev)
    PROVE  HasNew(a, b, next, prev)
<1> DEFINE cell == Allocated(l, data, next, prev)
           ns == Append(node, cell)
<1>1. /\ node \in Seq(Node) /\ Len(node) \in Nat /\ DOMAIN node = 1 .. Len(node)
      /\ New \in Nat /\ New \notin DOMAIN node /\ NULL # New
  BY StateFacts
<1>2. /\ ~cell.freed /\ cell.next = next /\ cell.prev = prev
      /\ ns \in Seq(Node) /\ Len(ns) = New /\ DOMAIN ns = 1 .. New
      /\ \A n \in DOMAIN node : ns[n] = node[n]
      /\ ns[New] = cell
  BY <1>1, NewNode
<1>3. DOMAIN ns = DOMAIN node \cup {New}
  BY <1>1, <1>2 DEF New
<1>4. node' \in {SetPrev(SetNext(ns, a, New), b, New), SetNext(SetPrev(ns, b, New), a, New)}
  BY DEF LinksIn
<1> HIDE DEF ns, cell
<1>5. Relinks(node', ns, a, New, b, New)
  <2>1. New \in Ptr /\ a \in DOMAIN ns \cup {NULL} /\ b \in DOMAIN ns \cup {NULL}
    BY <1>1, <1>3 DEF Ptr
  <2>2. /\ Relinks(SetPrev(SetNext(ns, a, New), b, New), ns, a, New, b, New)
        /\ Relinks(SetNext(SetPrev(ns, b, New), a, New), ns, a, New, b, New)
    BY <1>2, <2>1, Relinked
  <2> QED
    BY <1>4, <2>2
<1>6. node'[New] = cell
  BY <1>1, <1>2, <1>3, <1>5 DEF Relinks
<1> QED
  BY <1>1, <1>2, <1>3, <1>5, <1>6 DEF Relinks, HasNew

\* Where the place of a node in a good list is, and what is beside it.
Between(c, n, q) ==
    /\ q \in 1 .. Len(c) /\ c[q] = n /\ n \in Range(c)
    /\ \A i \in 1 .. Len(c) : /\ c[i] = n <=> i = q
                              /\ c[i] = At(c, q - 1) <=> i = q - 1
                              /\ c[i] = At(c, q + 1) <=> i = q + 1
    /\ node[n].next = At(c, q + 1)
    /\ node[n].prev = IF n \in loose THEN NULL ELSE At(c, q - 1)
    /\ n \in loose => q # 1
    /\ At(c, q - 1) = NULL <=> q = 1
    /\ At(c, q + 1) = NULL <=> q = Len(c)

LEMMA Siblings ==
    ASSUME NEW B, Sound(B), NEW l \in Good, NEW n \in Range(contents[l])
    PROVE  Between(contents[l], n, Place(l, n))
<1> DEFINE c == contents[l]
           k == Len(c)
           q == Place(l, n)
<1>1. l \in ListId /\ Chain(node, list[l], c, loose)
  BY GoodFacts
<1>2. /\ k \in Nat /\ DOMAIN c = 1 .. k
      /\ \A i \in 1 .. k : c[i] \in DOMAIN node /\ c[i] # NULL
  BY <1>1, ListFacts
<1>3. q \in 1 .. k /\ c[q] = n
  BY <1>2, PlaceOf
<1> HIDE DEF c, k, q
<1>4. \A i, j \in 1 .. k : c[i] = c[j] => i = j
  BY <1>1, <1>2 DEF Chain
<1>5. At(c, q - 1) = (IF q = 1 THEN NULL ELSE c[q - 1]) /\ (q # 1 => q - 1 \in 1 .. k)
  BY <1>2, <1>3 DEF At
<1>6. At(c, q + 1) = (IF q = k THEN NULL ELSE c[q + 1]) /\ (q # k => q + 1 \in 1 .. k)
  BY <1>2, <1>3 DEF At
<1>7. ASSUME NEW i \in 1 .. k
      PROVE  /\ c[i] = n <=> i = q
             /\ c[i] = At(c, q - 1) <=> i = q - 1
             /\ c[i] = At(c, q + 1) <=> i = q + 1
  <2>1. c[i] = n <=> i = q
    BY <1>3, <1>4
  <2>2. c[i] = At(c, q - 1) <=> i = q - 1
    BY <1>2, <1>3, <1>4, <1>5
  <2>3. c[i] = At(c, q + 1) <=> i = q + 1
    BY <1>2, <1>3, <1>4, <1>6
  <2> QED
    BY <2>1, <2>2, <2>3
<1>8. /\ node[n].next = At(c, q + 1)
      /\ node[n].prev = IF n \in loose THEN NULL ELSE At(c, q - 1)
  BY <1>1, <1>2, <1>3 DEF Chain
<1>9. n \in loose => q # 1
  BY <1>1, <1>2, <1>3 DEF Chain, At
<1>10. (At(c, q - 1) = NULL <=> q = 1) /\ (At(c, q + 1) = NULL <=> q = k)
  BY <1>2, <1>3, <1>5, <1>6
<1> QED
  BY <1>3, <1>7, <1>8, <1>9, <1>10 DEF c, k, q, Between

LEMMA BeforeStep ==
    ASSUME NEW B, Sound(B), fault = NULL, NEW l \in Good, list[l].open,
           NEW data \in Data, NEW sibling \in Range(contents[l]),
           InsertBefore(l, sibling, data)
    PROVE  IInv'
<1> DEFINE c == contents[l]
           k == Len(c)
           prev == node[sibling].prev
<1>1. /\ l \in ListId /\ l \notin bent /\ Chain(node, list[l], c, loose)
      /\ list[l].head \in DOMAIN node \cup {NULL} /\ list[l].tail \in DOMAIN node \cup {NULL}
      /\ \A i \in 1 .. k : /\ node[c[i]].prev \in DOMAIN node \cup {NULL}
                           /\ node[c[i]].next \in DOMAIN node \cup {NULL}
                           /\ ~Freed({node[c[i]].prev})
      /\ ~Freed(Range(c))
  BY GoodFacts
<1>2. /\ k \in Nat /\ DOMAIN c = 1 .. k /\ c \in Seq(DOMAIN node)
      /\ \A i \in 1 .. k : c[i] \in DOMAIN node /\ c[i] # NULL
      /\ Range(c) = {c[i] : i \in 1 .. k} /\ Range(c) \subseteq DOMAIN node
      /\ list[l] \in Header
  BY <1>1, ListFacts
<1>3. /\ node \in Seq(Node) /\ Len(node) \in Nat /\ DOMAIN node = 1 .. Len(node)
      /\ New \in Nat /\ New \notin DOMAIN node /\ NULL \notin DOMAIN node /\ NULL # New
      /\ loose \subseteq DOMAIN node /\ contents \in [ListId -> Seq(DOMAIN node)]
      /\ list \in [ListId -> Header] /\ bent \subseteq Open /\ miscounted \subseteq Open
      /\ Open \subseteq ListId /\ B \subseteq DOMAIN node /\ Closed(node, B)
  BY StateFacts
<1> DEFINE q == Place(l, sibling)
<1>4. /\ q \in 1 .. k /\ c[q] = sibling /\ sibling \in Range(c)
      /\ \A i \in 1 .. k : c[i] = sibling <=> i = q
      /\ \A i \in 1 .. k : c[i] = At(c, q - 1) <=> i = q - 1
      /\ prev = IF sibling \in loose THEN NULL ELSE At(c, q - 1)
      /\ sibling \in loose => q # 1
      /\ At(c, q - 1) = NULL <=> q = 1
  <2>1. Between(c, sibling, q)
    BY Siblings
  <2> HIDE DEF c, q
  <2> QED
    BY <2>1 DEF Between
<1>5. prev \in DOMAIN node \cup {NULL} /\ ~Freed({sibling, prev}) /\ sibling \in DOMAIN node
  BY <1>1, <1>2, <1>4 DEF Freed
<1>6. /\ node' = SetPrev(SetNext(Append(node, Allocated(l, data, sibling, prev)), prev, New),
                         sibling, New)
      /\ list' = [list EXCEPT ![l] = [list[l] EXCEPT
                    !.head = IF prev = NULL THEN New ELSE list[l].head,
                    !.tail = list[l].tail, !.length = list[l].length + 1]]
      /\ contents' = [contents EXCEPT ![l] = InsertAt(c, q, New)]
      /\ bent' = bent \cup IF sibling \in loose THEN {l} ELSE {}
      /\ fault' = fault /\ loose' = loose /\ miscounted' = miscounted
  BY <1>4, <1>5 DEF InsertBefore, Reads, Grown, Holds
<1> HIDE DEF q
<1>7. /\ node' \in Seq(Node) /\ Len(node') = New /\ DOMAIN node' = DOMAIN node \cup {New}
      /\ ~node'[New].freed /\ node'[New].next = sibling /\ node'[New].prev = prev
      /\ \A n \in DOMAIN node :
           /\ n \notin {prev, sibling} => node'[n] = node[n]
           /\ Rewired(node'[n], node[n], IF n = prev THEN New ELSE node[n].next,
                                         IF n = sibling THEN New ELSE node[n].prev)
  <2>1. prev \in Ptr /\ sibling \in Ptr
    BY <1>3, <1>5 DEF Ptr
  <2>2. LinksIn(l, data, prev, sibling, sibling, prev)
    BY <1>6 DEF LinksIn
  <2> HIDE DEF prev
  <2>3. HasNew(prev, sibling, sibling, prev)
    BY <1>1, <1>5, <2>1, <2>2, LinkedIn
  <2> QED
    BY <2>3 DEF HasNew
<1>8. /\ InsertAt(c, q, New) \in Seq(DOMAIN node \cup {New})
      /\ Len(InsertAt(c, q, New)) = k + 1
      /\ \A j \in 1 .. k + 1 : InsertAt(c, q, New)[j] =
            IF j < q THEN c[j] ELSE IF j = q THEN New ELSE c[j - 1]
  <2>1. c \in Seq(DOMAIN node \cup {New})
    BY <1>2, SeqMonotonic
  <2>2. q \in 1 .. Len(c) + 1
    BY <1>2, <1>4
  <2>3. New \in DOMAIN node \cup {New}
    OBVIOUS
  <2> HIDE DEF c
  <2>4. InsertAt(c, q, New) \in Seq(DOMAIN node \cup {New}) /\ With(InsertAt(c, q, New), c, q, New)
    BY <2>1, <2>2, <2>3, InsertedAt
  <2> QED
    BY <2>4 DEF With
<1>9. contents'[l] = InsertAt(c, q, New)
  BY <1>1, <1>3, <1>6
<1> HIDE DEF c, k, prev
<1>10. CASE sibling \notin loose
  <2>1. prev = At(c, q - 1) /\ (prev = NULL <=> q = 1)
    BY <1>4, <1>10
  <2>2. \A n \in DOMAIN node \ Range(c) : node'[n] = node[n]
    <3>1. prev \in Range(c) \cup {NULL}
      BY <1>2, <2>1 DEF At
    <3> QED
      BY <1>3, <1>4, <1>7, <3>1
  <2>3. \A i \in 1 .. k :
           /\ node'[c[i]].freed = node[c[i]].freed
           /\ node'[c[i]].next = IF i = q - 1 THEN New ELSE node[c[i]].next
           /\ node'[c[i]].prev = IF i = q /\ c[i] \notin loose' THEN New ELSE node[c[i]].prev
           /\ i # q => (c[i] \in loose' <=> c[i] \in loose)
           /\ i = q /\ c[i] \in loose' => node[c[i]].prev = NULL
    <3> SUFFICES ASSUME NEW i \in 1 .. k
                 PROVE
           /\ node'[c[i]].freed = node[c[i]].freed
           /\ node'[c[i]].next = IF i = q - 1 THEN New ELSE node[c[i]].next
           /\ node'[c[i]].prev = IF i = q /\ c[i] \notin loose' THEN New ELSE node[c[i]].prev
           /\ i # q => (c[i] \in loose' <=> c[i] \in loose)
           /\ i = q /\ c[i] \in loose' => node[c[i]].prev = NULL
      OBVIOUS
    <3>0. q \in 1 .. k
      BY <1>4
    <3>1. (c[i] = sibling <=> i = q) /\ (c[i] = prev <=> i = q - 1) /\ c[i] \in DOMAIN node
      BY <1>2, <1>4, <2>1
    <3>2. Rewired(node'[c[i]], node[c[i]], IF i = q - 1 THEN New ELSE node[c[i]].next,
                                           IF i = q THEN New ELSE node[c[i]].prev)
      BY <1>7, <3>1
    <3> QED
      BY <1>6, <1>10, <3>1, <3>2 DEF Rewired
  <2>4. list' = [list EXCEPT ![l] = [list[l] EXCEPT
                    !.head = IF q = 1 THEN New ELSE list[l].head,
                    !.tail = IF q = k + 1 THEN New ELSE list[l].tail,
                    !.length = list[l].length + 1]]
    <3>1. /\ (IF q = 1 THEN New ELSE list[l].head) = (IF prev = NULL THEN New ELSE list[l].head)
          /\ (IF q = k + 1 THEN New ELSE list[l].tail) = list[l].tail
      BY <1>2, <1>4, <2>1
    <3> QED
      BY <1>6, <3>1
  <2>5. At(c, q) = sibling
    BY <1>2, <1>4 DEF At
  <2>6. /\ contents' = [contents EXCEPT ![l] = contents'[l]]
        /\ contents'[l] \in Seq(DOMAIN node \cup {New}) /\ Len(contents'[l]) = k + 1
        /\ \A j \in 1 .. k + 1 : contents'[l][j] =
             IF j < q THEN c[j] ELSE IF j = q THEN New ELSE c[j - 1]
        /\ loose' \subseteq DOMAIN node /\ bent' = bent /\ miscounted' = miscounted
        /\ \A n \in DOMAIN node \ Range(c) : n \in loose' <=> n \in loose
    BY <1>3, <1>6, <1>8, <1>9, <1>10
  <2>7. /\ node' \in Seq(Node) /\ Len(node') = New
        /\ ~node'[New].freed /\ node'[New].next = At(c, q) /\ node'[New].prev = At(c, q - 1)
    BY <1>7, <2>1, <2>5
  <2>8. Inserted(l, q)
    BY <2>2, <2>3, <2>4, <2>6, <2>7 DEF Inserted, c, k
  <2>9. q \in 1 .. Len(contents[l]) + 1
    BY <1>2, <1>4 DEF k, c
  <2>10. Sound(B)'
    BY <2>8, <2>9, InsertStep
  <2> QED
    BY <1>6, <2>10, Kept
<1>11. CASE sibling \in loose
  <2>0. PICK W : W = B \cup Range(c) \cup {New}
    OBVIOUS
  <2> DEFINE seq == InsertAt(c, q, New)
             rec == [list[l] EXCEPT !.head = New, !.tail = list[l].tail,
                                    !.length = list[l].length + 1]
  <2>1. prev = NULL
    BY <1>4, <1>11
  <2>2. rec \in Header /\ rec.open /\ rec.head = New /\ rec.tail = list[l].tail
    <3>1. New \in Ptr /\ list[l].tail \in Ptr /\ list[l].length + 1 \in Int
      BY <1>2, <1>3 DEF Header, Ptr
    <3>2. rec = Updated(list[l], New, list[l].tail, list[l].length + 1)
      BY DEF Updated
    <3>3. rec.open = list[l].open
      BY <1>2 DEF Header
    <3> HIDE DEF rec
    <3>4. PICK h \in Header : h = list[l]
      BY <1>2
    <3>5. PICK y \in Ptr : y = list[l].tail
      BY <3>1
    <3>6. PICK n \in Int : n = list[l].length + 1
      BY <3>1
    <3>7. rec = Updated(h, New, y, n)
      BY <3>2, <3>4, <3>5, <3>6
    <3>8. Updated(h, New, y, n) \in Header
      BY <3>1, NewHeader
    <3>9. Updated(h, New, y, n).head = New /\ Updated(h, New, y, n).tail = y
      BY <3>1, NewHeader
    <3> QED
      BY <3>3, <3>5, <3>7, <3>8, <3>9
  <2>3. list' = [list EXCEPT ![l] = rec]
    BY <1>6, <2>1
  <2> HIDE DEF rec, seq
  <2>4. /\ seq \in Seq(DOMAIN node') /\ Range(seq) \subseteq W
        /\ contents' = [contents EXCEPT ![l] = seq]
    <3>1. seq \in Seq(DOMAIN node \cup {New}) /\ Len(seq) = k + 1 /\ DOMAIN seq = 1 .. k + 1
      BY <1>8, LenProperties DEF seq
    <3>2. \A j \in 1 .. k + 1 : seq[j] \in Range(c) \cup {New}
      <4> SUFFICES ASSUME NEW j \in 1 .. k + 1 PROVE seq[j] \in Range(c) \cup {New}
        OBVIOUS
      <4>1. seq[j] = IF j < q THEN c[j] ELSE IF j = q THEN New ELSE c[j - 1]
        BY <1>8 DEF seq
      <4> QED
        BY <1>2, <1>4, <4>1
    <3> QED
      BY <1>6, <1>7, <2>0, <3>1, <3>2 DEF Range, seq
  <2>5. W \subseteq DOMAIN node'
    BY <2>0, <1>2, <1>3, <1>7
  <2>6. \A n \in DOMAIN node \ W : node'[n] = node[n] /\ (n \in loose' <=> n \in loose)
    BY <1>3, <1>4, <1>6, <1>7, <2>0, <2>1
  <2>7. Closed(node', W)
    <3> SUFFICES ASSUME NEW n \in W
                 PROVE  node'[n].next \in W \cup {NULL} /\ node'[n].prev \in W \cup {NULL}
      BY DEF Closed
    <3>1. CASE n = New
      BY <1>4, <1>7, <2>0, <2>1, <3>1
    <3>2. CASE n # New
      <4>1. n \in DOMAIN node
        BY <1>2, <1>3, <2>0, <3>2
      <4>2. node[n].next \in W \cup {NULL} /\ node[n].prev \in W \cup {NULL}
        <5>1. CASE n \in B
          BY <1>3, <2>0, <5>1 DEF Closed
        <5>2. CASE n \in Range(c)
          <6>1. PICK i \in 1 .. k : n = c[i]
            BY <1>2, <5>2
          <6>2. At(c, i + 1) \in Range(c) \cup {NULL} /\ At(c, i - 1) \in Range(c) \cup {NULL}
            BY <1>2 DEF At
          <6> QED
            BY <1>1, <1>2, <2>0, <6>1, <6>2 DEF Chain
        <5> QED
          BY <2>0, <3>2, <5>1, <5>2
      <4>3. /\ node'[n].next \in {New, node[n].next}
            /\ node'[n].prev \in {New, node[n].prev}
        BY <1>7, <4>1 DEF Rewired
      <4> QED
        BY <2>0, <4>2, <4>3
    <3> QED
      BY <3>1, <3>2
  <2>8. \A m \in Good \ {l} : Range(contents[m]) \cap W = {}
    <3> SUFFICES ASSUME NEW m \in Good \ {l} PROVE Range(contents[m]) \cap W = {}
      OBVIOUS
    <3>1. Range(contents[m]) \cap B = {}
      BY DEF Sound, Apart
    <3>2. Range(contents[m]) \cap Range(c) = {}
      BY DEF Sound, Chained, c
    <3>3. Range(contents[m]) \subseteq DOMAIN node
      BY ListFacts DEF Good
    <3> QED
      BY <1>3, <2>0, <3>1, <3>2, <3>3
  <2>9. rec.tail \in W \cup {NULL}
    <3>1. list[l].tail = At(c, k)
      BY <1>1 DEF Chain, k
    <3> QED
      BY <1>2, <2>0, <2>2, <3>1 DEF At
  <2>10. /\ loose' \subseteq DOMAIN node' /\ bent' = bent \cup {l} /\ miscounted' \subseteq ListId
         /\ \A m \in ListId \ {l} : m \in miscounted' <=> m \in miscounted
         /\ node' \in Seq(Node) /\ DOMAIN node \subseteq DOMAIN node'
    BY <1>3, <1>6, <1>7, <1>11
  <2>11. B \subseteq W /\ rec.head \in W \cup {NULL}
    BY <2>0, <2>2
  <2>12. Sound(W)'
    <3>1. Bends(l, rec, seq, B, W)
      BY <1>1, <2>2, <2>3, <2>4, <2>5, <2>6, <2>7, <2>8, <2>9, <2>10, <2>11 DEF Bends
    <3> QED
      BY <3>1, BentStep
  <2> QED
    BY <1>6, <2>12, Kept
<1> QED
  BY <1>10, <1>11

\* Nothing changes.
LEMMA Idle ==
    ASSUME NEW B, Sound(B), UNCHANGED <<node, list, contents, history>>
    PROVE  Sound(B)'
BY DEF history, Sound, TypeOK, Chained, Apart, Counted, Chain, Closed, Good, Open

\* What a search finds in a good list: the first of the nodes wanted.
FoundAt(c, n, wanted, q) ==
    /\ q \in 1 .. Len(c) /\ c[q] = n /\ n \in wanted
    /\ \A i \in 1 .. q - 1 : c[i] \notin wanted
LEMMA Found ==
    ASSUME NEW B, Sound(B), NEW l \in Good, NEW wanted
    PROVE  \/ Find(l, wanted) = NULL /\ \A i \in 1 .. Len(contents[l]) : contents[l][i] \notin wanted
           \/ /\ Find(l, wanted) \in Range(contents[l])
              /\ \E q \in 1 .. Len(contents[l]) : FoundAt(contents[l], Find(l, wanted), wanted, q)
<1> DEFINE c == contents[l]
           hits == {i \in DOMAIN c : node[c[i]].freed \/ c[i] \in wanted}
           first == CHOOSE i \in hits : \A j \in hits : i <= j
<1>1. /\ l \in ListId /\ Walk(l) = c /\ Chain(node, list[l], c, loose)
  BY GoodFacts
<1>2. Len(c) \in Nat /\ DOMAIN c = 1 .. Len(c) /\ Range(c) = {c[i] : i \in 1 .. Len(c)}
  BY <1>1, ListFacts
<1>3. Find(l, wanted) = IF hits = {} THEN NULL ELSE c[first]
  BY <1>1 DEF Find
<1>4. hits = {i \in 1 .. Len(c) : c[i] \in wanted}
  BY <1>1, <1>2 DEF Chain
<1> HIDE DEF c, hits
<1>5. CASE hits = {}
  BY <1>3, <1>4, <1>5 DEF c
<1>6. CASE hits # {}
  <2>1. \E i \in hits : \A j \in hits : i <= j
    <3>1. PICK m : m \in hits
      BY <1>6
    <3>2. hits \subseteq Nat
      BY <1>4
    <3> QED
      BY <3>1, <3>2, Least
  <2>2. first \in hits /\ \A j \in hits : first <= j
    BY <2>1
  <2> HIDE DEF first
  <2>3. first \in 1 .. Len(c) /\ c[first] \in wanted
    BY <1>4, <2>2
  <2>4. \A i \in 1 .. first - 1 : c[i] \notin wanted
    BY <1>2, <1>4, <2>2, <2>3
  <2>5. FoundAt(c, c[first], wanted, first) /\ c[first] \in Range(c)
    BY <1>2, <2>3, <2>4 DEF FoundAt
  <2> QED
    BY <1>3, <1>6, <2>3, <2>5 DEF c
<1> QED
  BY <1>5, <1>6

LEMMA NewListStep ==
    ASSUME NEW B, Sound(B), fault = NULL, NEW l \in ListId, list_new(l)
    PROVE  IInv'
<1>1. /\ node \in Seq(Node) /\ NULL \notin DOMAIN node
      /\ list \in [ListId -> Header] /\ contents \in [ListId -> Seq(DOMAIN node)]
      /\ loose \subseteq DOMAIN node /\ bent \subseteq Open /\ miscounted \subseteq Open
      /\ Open \subseteq ListId
  BY StateFacts
<1>2. /\ l \notin Open /\ list' = [list EXCEPT ![l] = Empty]
      /\ node' = node /\ fault' = fault /\ contents' = contents
      /\ loose' = loose /\ bent' = bent /\ miscounted' = miscounted
  BY DEF list_new, history
<1>3. l \in Good
  BY <1>1, <1>2 DEF Good
<1>4. contents[l] = <<>>
  BY <1>2 DEF Sound, TypeOK
<1>5. contents' = [contents EXCEPT ![l] = <<>>]
  BY <1>1, <1>2, <1>4
<1>6. /\ Empty \in Header /\ Empty.open /\ Empty.head = NULL /\ Empty.tail = NULL
      /\ Empty.length = 0
  BY DEF Empty, Header, Ptr
<1>7. <<>> \in Seq(DOMAIN node') /\ Range(<<>>) = {} /\ DOMAIN <<>> = {} /\ Len(<<>>) = 0
  BY DEF Range
<1>8. Chain(node', Empty, <<>>, loose')
  BY <1>1, <1>2, <1>6, <1>7 DEF Chain, At
<1>9. /\ node' \in Seq(Node) /\ DOMAIN node \subseteq DOMAIN node' /\ loose' \subseteq DOMAIN node'
      /\ miscounted' \subseteq ListId
      /\ \A m \in ListId \ {l} : m \in miscounted' <=> m \in miscounted
      /\ \A n \in DOMAIN node \ Range(contents[l]) :
            node'[n] = node[n] /\ (n \in loose' <=> n \in loose)
      /\ Range(<<>>) \subseteq Range(contents[l]) \cup (DOMAIN node' \ DOMAIN node)
      /\ Empty.length = Len(<<>>)
  BY <1>1, <1>2, <1>6, <1>7
<1>10. Sound(B)'
  <2>1. PICK rec \in Header : rec = Empty
    BY <1>6
  <2>2. PICK seq \in Seq(DOMAIN node') : seq = <<>>
    BY <1>7
  <2>3. rec.open
    BY <1>6, <2>1
  <2>4. /\ list' = [list EXCEPT ![l] = rec] /\ contents' = [contents EXCEPT ![l] = seq]
        /\ Chain(node', rec, seq, loose') /\ rec.length = Len(seq)
        /\ Range(seq) \subseteq Range(contents[l]) \cup (DOMAIN node' \ DOMAIN node)
    BY <1>2, <1>5, <1>8, <1>9, <2>1, <2>2
  <2> QED
    BY <1>2, <1>3, <1>9, <2>3, <2>4, GoodStep
<1> QED
  BY <1>2, <1>10, Kept

LEMMA AppendUniqueStep ==
    ASSUME NEW B, Sound(B), fault = NULL, NEW l \in ListId, NEW data \in Data,
           list_append_unique(l, data)
    PROVE  IInv'
<1> DEFINE n == Find(l, {m \in DOMAIN node : node[m].data = data})
<1>1. l \in Good /\ list[l].open
  BY DEF list_append_unique, MayGrow, Good
<1>2. n = NULL \/ n \in Range(contents[l])
  BY <1>1, Found
<1>3. CASE n = NULL
  <2>1. Append1(l, data)
    BY <1>3 DEF list_append_unique
  <2> QED
    BY <1>1, <2>1, AppendStep
<1>4. CASE n # NULL
  <2>1. Reads(l, {n}, UNCHANGED <<node, list, contents, history>>)
    BY <1>4 DEF list_append_unique
  <2> HIDE DEF n
  <2>2. ~Freed({n})
    <3>1. ~Freed(Range(contents[l]))
      BY <1>1, GoodFacts
    <3> QED
      BY <1>2, <1>4, <3>1 DEF Freed
  <2>3. fault' = fault /\ UNCHANGED <<node, list, contents, history>>
    BY <2>1, <2>2 DEF Reads
  <2>4. Sound(B)'
    BY <2>3, Idle
  <2> QED
    BY <2>3, <2>4, Kept
<1> QED
  BY <1>3, <1>4

LEMMA SortedStep ==
    ASSUME NEW B, Sound(B), fault = NULL, NEW l \in ListId, NEW data \in Data,
           list_insert_sorted(l, data)
    PROVE  IInv'
<1> DEFINE n == Find(l, {m \in DOMAIN node : SortedHere(data, node[m].data)})
<1>1. l \in Good /\ list[l].open
  BY DEF list_insert_sorted, MayGrow, Good
<1>2. n = NULL \/ n \in Range(contents[l])
  BY <1>1, Found
<1>3. CASE n = NULL
  <2>1. Append1(l, data)
    BY <1>3 DEF list_insert_sorted
  <2> QED
    BY <1>1, <2>1, AppendStep
<1>4. CASE n # NULL
  <2>1. InsertBefore(l, n, data)
    BY <1>4 DEF list_insert_sorted
  <2> HIDE DEF n
  <2> QED
    BY <1>1, <1>2, <1>4, <2>1, BeforeStep
<1> QED
  BY <1>3, <1>4

\* The old head is loose from now on, and may stay so.
LEMMA PrependStep ==
    ASSUME NEW B, Sound(B), fault = NULL, NEW l \in ListId, NEW data \in Data,
           list_prepend(l, data)
    PROVE  IInv'
<1> DEFINE c == contents[l]
           k == Len(c)
           head == list[l].head
           tail == list[l].tail
           cell == Allocated(l, data, head, NULL)
<1>1. /\ l \in Good /\ list[l].open
      /\ node' = Append(node, cell)
      /\ list' = [list EXCEPT ![l] = [list[l] EXCEPT
             !.head = New, !.tail = IF tail = NULL THEN New ELSE tail,
             !.length = list[l].length + 1]]
      /\ contents' = [contents EXCEPT ![l] = <<New>> \o c]
      /\ loose' = loose \cup ({head} \ {NULL})
      /\ fault' = fault /\ bent' = bent /\ miscounted' = miscounted
  BY DEF list_prepend, MayGrow, Good, Grown, Holds
<1>2. /\ Chain(node, list[l], c, loose)
      /\ head \in DOMAIN node \cup {NULL} /\ tail \in DOMAIN node \cup {NULL}
  BY <1>1, GoodFacts
<1>3. /\ k \in Nat /\ DOMAIN c = 1 .. k
      /\ \A i \in 1 .. k : c[i] \in DOMAIN node /\ c[i] # NULL
      /\ Range(c) = {c[i] : i \in 1 .. k} /\ c \in Seq(DOMAIN node)
  BY <1>1, ListFacts
<1>4. /\ node \in Seq(Node) /\ Len(node) \in Nat /\ DOMAIN node = 1 .. Len(node)
      /\ New \in Nat /\ New \notin DOMAIN node /\ NULL \notin DOMAIN node
      /\ loose \subseteq DOMAIN node /\ contents \in [ListId -> Seq(DOMAIN node)]
  BY StateFacts
<1>5. head \in Ptr /\ NULL \in Ptr
  BY <1>2, <1>4 DEF Ptr
<1>6. /\ ~cell.freed /\ cell.next = head /\ cell.prev = NULL
      /\ Append(node, cell) \in Seq(Node) /\ Len(Append(node, cell)) = New
      /\ \A n \in DOMAIN node : Append(node, cell)[n] = node[n]
      /\ Append(node, cell)[New] = cell
  BY <1>4, <1>5, NewNode
<1> HIDE DEF cell
<1>7. head = At(c, 1) /\ tail = At(c, k) /\ At(c, 0) = NULL
  BY <1>2, <1>3 DEF Chain, At
<1>8. tail = NULL <=> k = 0
  BY <1>3, <1>7 DEF At
<1>9. /\ <<New>> \o c \in Seq(DOMAIN node \cup {New}) /\ Len(<<New>> \o c) = k + 1
      /\ \A j \in 1 .. k + 1 : (<<New>> \o c)[j] = IF j = 1 THEN New ELSE c[j - 1]
  <2>1. c \in Seq(DOMAIN node \cup {New})
    BY <1>3, SeqMonotonic
  <2>2. <<New>> \in Seq(DOMAIN node \cup {New}) /\ Len(<<New>>) = 1 /\ <<New>>[1] = New
    OBVIOUS
  <2>3. /\ <<New>> \o c \in Seq(DOMAIN node \cup {New}) /\ Len(<<New>> \o c) = Len(<<New>>) + Len(c)
        /\ \A j \in 1 .. Len(<<New>>) + Len(c) : (<<New>> \o c)[j] =
              IF j <= Len(<<New>>) THEN <<New>>[j] ELSE c[j - Len(<<New>>)]
    BY <2>1, <2>2, ConcatProperties
  <2> QED
    BY <1>3, <2>2, <2>3
<1>10. contents'[l] = <<New>> \o c
  BY <1>1, <1>4
<1>11. \A i \in 1 .. k : /\ c[i] = head <=> i = 1
                         /\ i = 1 => node[c[i]].prev = NULL
  <2>1. \A i, j \in 1 .. k : c[i] = c[j] => i = j
    BY <1>2, <1>3 DEF Chain
  <2>2. ASSUME NEW i \in 1 .. k
        PROVE  c[i] = head <=> i = 1
    BY <1>3, <1>7, <2>1 DEF At
  <2>3. ASSUME NEW i \in 1 .. k, i = 1
        PROVE  node[c[i]].prev = NULL
    BY <1>2, <1>3, <1>7, <2>3 DEF Chain, At
  <2> QED
    BY <2>2, <2>3
<1> HIDE DEF c, k
<1>12. \A i \in 1 .. k :
          /\ node'[c[i]].freed = node[c[i]].freed
          /\ node'[c[i]].next = IF i = 1 - 1 THEN New ELSE node[c[i]].next
          /\ node'[c[i]].prev = IF i = 1 /\ c[i] \notin loose' THEN New ELSE node[c[i]].prev
          /\ i # 1 => (c[i] \in loose' <=> c[i] \in loose)
          /\ i = 1 /\ c[i] \in loose' => node[c[i]].prev = NULL
  BY <1>1, <1>3, <1>6, <1>11
<1>13. list' = [list EXCEPT ![l] = [list[l] EXCEPT
                  !.head = IF 1 = 1 THEN New ELSE list[l].head,
                  !.tail = IF 1 = k + 1 THEN New ELSE list[l].tail,
                  !.length = list[l].length + 1]]
  <2>1. (IF 1 = k + 1 THEN New ELSE list[l].tail) = (IF tail = NULL THEN New ELSE tail)
    BY <1>3, <1>8
  <2> QED
    BY <1>1, <2>1
<1>14. Inserted(l, 1)
  <2>1. /\ node' \in Seq(Node) /\ Len(node') = New
        /\ ~node'[New].freed /\ node'[New].next = At(c, 1) /\ node'[New].prev = At(c, 1 - 1)
        /\ \A n \in DOMAIN node \ Range(c) : node'[n] = node[n]
    BY <1>1, <1>6, <1>7
  <2>2. \A j \in 1 .. k + 1 : contents'[l][j] =
           IF j < 1 THEN c[j] ELSE IF j = 1 THEN New ELSE c[j - 1]
    BY <1>3, <1>9, <1>10
  <2>3. head \in Range(c) \cup {NULL}
    BY <1>3, <1>7 DEF At
  <2>4. /\ contents' = [contents EXCEPT ![l] = contents'[l]]
        /\ contents'[l] \in Seq(DOMAIN node \cup {New}) /\ Len(contents'[l]) = k + 1
        /\ loose' \subseteq DOMAIN node /\ bent' = bent /\ miscounted' = miscounted
        /\ \A n \in DOMAIN node \ Range(c) : n \in loose' <=> n \in loose
    BY <1>1, <1>2, <1>4, <1>9, <1>10, <2>3
  <2> QED
    BY <1>12, <1>13, <2>1, <2>2, <2>4 DEF Inserted, c, k
<1>15. 1 \in 1 .. Len(contents[l]) + 1
  BY <1>3 DEF k, c
<1>16. Sound(B)'
  BY <1>1, <1>14, <1>15, InsertStep
<1> QED
  BY <1>1, <1>16, Kept

LEMMA AfterStep ==
    ASSUME NEW B, Sound(B), fault = NULL, NEW l \in ListId, NEW data \in Data,
           NEW sibling \in Range(contents[l]), list_insert_after(l, sibling, data)
    PROVE  IInv'
<1> DEFINE c == contents[l]
           k == Len(c)
           next == node[sibling].next
           q == Place(l, sibling)
<1>0. l \in Good /\ list[l].open
  BY DEF list_insert_after, MayGrow, Good
<1>1. /\ Chain(node, list[l], c, loose)
      /\ list[l].tail \in DOMAIN node \cup {NULL}
      /\ \A i \in 1 .. k : /\ node[c[i]].next \in DOMAIN node \cup {NULL}
                           /\ ~Freed({node[c[i]].next})
      /\ ~Freed(Range(c))
  BY <1>0, GoodFacts
<1>2. /\ k \in Nat /\ DOMAIN c = 1 .. k /\ c \in Seq(DOMAIN node)
      /\ \A i \in 1 .. k : c[i] \in DOMAIN node /\ c[i] # NULL
      /\ Range(c) = {c[i] : i \in 1 .. k} /\ Range(c) \subseteq DOMAIN node
  BY ListFacts
<1>3. /\ node \in Seq(Node) /\ Len(node) \in Nat /\ DOMAIN node = 1 .. Len(node)
      /\ New \in Nat /\ New \notin DOMAIN node /\ NULL \notin DOMAIN node /\ NULL # New
      /\ loose \subseteq DOMAIN node /\ contents \in [ListId -> Seq(DOMAIN node)]
  BY StateFacts
<1>4. /\ q \in 1 .. k /\ c[q] = sibling /\ sibling \in Range(c)
      /\ \A i \in 1 .. k : c[i] = sibling <=> i = q
      /\ \A i \in 1 .. k : c[i] = At(c, q + 1) <=> i = q + 1
      /\ next = At(c, q + 1)
      /\ At(c, q + 1) = NULL <=> q = k
  <2>1. Between(c, sibling, q)
    BY <1>0, Siblings
  <2> HIDE DEF c, q
  <2> QED
    BY <2>1 DEF Between, k
<1>5. next \in DOMAIN node \cup {NULL} /\ ~Freed({sibling, next}) /\ sibling \in DOMAIN node
  BY <1>1, <1>2, <1>4 DEF Freed
<1>6. /\ node' = SetNext(SetPrev(Append(node, Allocated(l, data, next, sibling)), next, New),
                         sibling, New)
      /\ list' = [list EXCEPT ![l] = [list[l] EXCEPT
                    !.head = list[l].head,
                    !.tail = IF next = NULL THEN New ELSE list[l].tail,
                    !.length = list[l].length + 1]]
      /\ contents' = [contents EXCEPT ![l] = InsertAt(c, q + 1, New)]
      /\ loose' = loose \ {next}
      /\ fault' = fault /\ bent' = bent /\ miscounted' = miscounted
  BY <1>5 DEF list_insert_after, Reads, Grown, Holds
<1> HIDE DEF q
<1>7. /\ node' \in Seq(Node) /\ Len(node') = New
      /\ ~node'[New].freed /\ node'[New].next = next /\ node'[New].prev = sibling
      /\ \A n \in DOMAIN node :
           /\ n \notin {sibling, next} => node'[n] = node[n]
           /\ Rewired(node'[n], node[n], IF n = sibling THEN New ELSE node[n].next,
                                         IF n = next THEN New ELSE node[n].prev)
  <2>1. next \in Ptr /\ sibling \in Ptr
    BY <1>3, <1>5 DEF Ptr
  <2>2. LinksIn(l, data, sibling, next, next, sibling)
    BY <1>6 DEF LinksIn
  <2> HIDE DEF next
  <2>3. HasNew(sibling, next, next, sibling)
    BY <1>5, <2>1, <2>2, LinkedIn
  <2> QED
    BY <2>3 DEF HasNew
<1>8. /\ InsertAt(c, q + 1, New) \in Seq(DOMAIN node \cup {New})
      /\ Len(InsertAt(c, q + 1, New)) = k + 1
      /\ \A j \in 1 .. k + 1 : InsertAt(c, q + 1, New)[j] =
            IF j < q + 1 THEN c[j] ELSE IF j = q + 1 THEN New ELSE c[j - 1]
  <2>1. c \in Seq(DOMAIN node \cup {New})
    BY <1>2, SeqMonotonic
  <2>2. PICK p \in 1 .. Len(c) + 1 : p = q + 1
    BY <1>2, <1>4
  <2>3. New \in DOMAIN node \cup {New}
    OBVIOUS
  <2> HIDE DEF c
  <2>4. InsertAt(c, p, New) \in Seq(DOMAIN node \cup {New}) /\ With(InsertAt(c, p, New), c, p, New)
    BY <2>1, <2>2, <2>3, InsertedAt
  <2> QED
    BY <2>2, <2>4 DEF With
<1>9. contents'[l] = InsertAt(c, q + 1, New)
  BY <1>3, <1>6
<1> HIDE DEF c, k, next
<1>10. next \in Range(c) \cup {NULL}
  BY <1>2, <1>4 DEF At
<1>11. \A i \in 1 .. k :
         /\ node'[c[i]].freed = node[c[i]].freed
         /\ node'[c[i]].next = IF i = (q + 1) - 1 THEN New ELSE node[c[i]].next
         /\ node'[c[i]].prev = IF i = q + 1 /\ c[i] \notin loose' THEN New ELSE node[c[i]].prev
         /\ i # q + 1 => (c[i] \in loose' <=> c[i] \in loose)
         /\ i = q + 1 /\ c[i] \in loose' => node[c[i]].prev = NULL
  <2> SUFFICES ASSUME NEW i \in 1 .. k
               PROVE
         /\ node'[c[i]].freed = node[c[i]].freed
         /\ node'[c[i]].next = IF i = (q + 1) - 1 THEN New ELSE node[c[i]].next
         /\ node'[c[i]].prev = IF i = q + 1 /\ c[i] \notin loose' THEN New ELSE node[c[i]].prev
         /\ i # q + 1 => (c[i] \in loose' <=> c[i] \in loose)
         /\ i = q + 1 /\ c[i] \in loose' => node[c[i]].prev = NULL
    OBVIOUS
  <2>1. (c[i] = sibling <=> i = q) /\ (c[i] = next <=> i = q + 1) /\ c[i] \in DOMAIN node
    BY <1>2, <1>4
  <2>2. Rewired(node'[c[i]], node[c[i]], IF i = q THEN New ELSE node[c[i]].next,
                                         IF i = q + 1 THEN New ELSE node[c[i]].prev)
    BY <1>7, <2>1
  <2>3. (q + 1) - 1 = q /\ (c[i] \in loose' <=> c[i] \in loose /\ i # q + 1)
    BY <1>4, <1>6, <2>1
  <2> QED
    BY <2>2, <2>3 DEF Rewired
<1>12. list' = [list EXCEPT ![l] = [list[l] EXCEPT
                  !.head = IF q + 1 = 1 THEN New ELSE list[l].head,
                  !.tail = IF q + 1 = k + 1 THEN New ELSE list[l].tail,
                  !.length = list[l].length + 1]]
  <2>1. /\ (IF q + 1 = 1 THEN New ELSE list[l].head) = list[l].head
        /\ (IF q + 1 = k + 1 THEN New ELSE list[l].tail)
             = (IF next = NULL THEN New ELSE list[l].tail)
    BY <1>2, <1>4
  <2> QED
    BY <1>6, <2>1
<1>13. Inserted(l, q + 1)
  <2>1. /\ node' \in Seq(Node) /\ Len(node') = New
        /\ ~node'[New].freed /\ node'[New].next = At(c, q + 1)
        /\ node'[New].prev = At(c, (q + 1) - 1)
    <3>1. (q + 1) - 1 = q /\ At(c, q) = sibling
      BY <1>2, <1>4 DEF At
    <3> QED
      BY <1>4, <1>7, <3>1
  <2>2. \A n \in DOMAIN node \ Range(c) : node'[n] = node[n]
    BY <1>3, <1>4, <1>7, <1>10
  <2>3. /\ contents' = [contents EXCEPT ![l] = contents'[l]]
        /\ contents'[l] \in Seq(DOMAIN node \cup {New}) /\ Len(contents'[l]) = k + 1
        /\ \A j \in 1 .. k + 1 : contents'[l][j] =
             IF j < q + 1 THEN c[j] ELSE IF j = q + 1 THEN New ELSE c[j - 1]
        /\ loose' \subseteq DOMAIN node /\ bent' = bent /\ miscounted' = miscounted
        /\ \A n \in DOMAIN node \ Range(c) : n \in loose' <=> n \in loose
    BY <1>3, <1>6, <1>8, <1>9, <1>10
  <2> QED
    BY <1>11, <1>12, <2>1, <2>2, <2>3 DEF Inserted, c, k
<1>14. q + 1 \in 1 .. Len(contents[l]) + 1
  BY <1>2, <1>4 DEF k, c
<1>15. Sound(B)'
  BY <1>0, <1>13, <1>14, InsertStep
<1> QED
  BY <1>6, <1>15, Kept

(***************************************************************************)
(* Removal.                                                                *)
(***************************************************************************)

\* What a list reaches: its own nodes, and what the lists that went wrong may.
Reaches(l, B, W) ==
    /\ B \subseteq W /\ W \subseteq DOMAIN node /\ Closed(node, W)
    /\ Range(contents[l]) \subseteq W
    /\ list[l].head \in W \cup {NULL} /\ list[l].tail \in W \cup {NULL}
    /\ \A m \in Good \ {l} : Range(contents[m]) \cap W = {}

LEMMA Reach ==
    ASSUME NEW B, Sound(B), NEW l \in ListId, NEW W, W = B \cup Range(contents[l])
    PROVE  Reaches(l, B, W)
<1> DEFINE c == contents[l]
<1>1. /\ B \subseteq DOMAIN node /\ Closed(node, B) /\ NULL \notin DOMAIN node
  BY StateFacts
<1>2. /\ Len(c) \in Nat /\ DOMAIN c = 1 .. Len(c) /\ Range(c) = {c[i] : i \in 1 .. Len(c)}
      /\ Range(c) \subseteq DOMAIN node
  BY ListFacts
<1>3. \A m \in Good \ {l} : Range(contents[m]) \cap W = {}
  <2> SUFFICES ASSUME NEW m \in Good \ {l} PROVE Range(contents[m]) \cap W = {}
    OBVIOUS
  <2>1. Range(contents[m]) \cap B = {}
    BY DEF Sound, Apart
  <2>2. CASE l \in bent
    BY <2>1, <2>2 DEF Sound, Apart
  <2>3. CASE l \notin bent
    BY <2>1, <2>3 DEF Sound, Chained, Good
  <2> QED
    BY <2>2, <2>3
<1>4. CASE l \in bent
  BY <1>1, <1>2, <1>3, <1>4 DEF Sound, Apart, Reaches, Closed
<1>5. CASE l \notin bent
  <2>1. Chain(node, list[l], c, loose)
    BY <1>5 DEF Sound, Chained, Good
  <2> HIDE DEF c
  <2>2. \A i \in Int : At(c, i) \in Range(c) \cup {NULL}
    BY <1>2 DEF At
  <2>3. list[l].head = At(c, 1) /\ list[l].tail = At(c, Len(c))
    BY <2>1 DEF Chain
  <2>4. \A i \in 1 .. Len(c) : /\ node[c[i]].next = At(c, i + 1)
                               /\ node[c[i]].prev \in {NULL, At(c, i - 1)}
    BY <1>2, <2>1 DEF Chain
  <2>5. ASSUME NEW i \in 1 .. Len(c)
        PROVE  node[c[i]].next \in Range(c) \cup {NULL} /\ node[c[i]].prev \in Range(c) \cup {NULL}
    <3>1. i + 1 \in Int /\ i - 1 \in Int
      OBVIOUS
    <3> QED
      BY <2>2, <2>4, <3>1
  <2>6. Closed(node, W)
    BY <1>1, <1>2, <2>5 DEF Closed, c
  <2>7. 1 \in Int /\ Len(c) \in Int
    BY <1>2
  <2> QED
    BY <1>1, <1>2, <1>3, <2>2, <2>3, <2>6, <2>7 DEF Reaches, c
<1> QED
  BY <1>4, <1>5

\* A node taken out of its list, and given back if it is of that list.
Unlinked(n, prev, next) ==
    /\ node' \in Seq(Node) /\ DOMAIN node' = DOMAIN node
    /\ \A m \in DOMAIN node \ {n} :
         /\ m \notin {prev, next} => node'[m] = node[m]
         /\ Rewired(node'[m], node[m], IF m = prev THEN next ELSE node[m].next,
                                       IF m = next THEN prev ELSE node[m].prev)
    /\ node'[n].next \in {node[n].next, next, NULL}
    /\ node'[n].prev \in {node[n].prev, prev, NULL}

LEMMA Unlinks ==
    ASSUME NEW B, Sound(B), NEW l, NEW n \in DOMAIN node,
           NEW prev \in DOMAIN node \cup {NULL}, NEW next \in DOMAIN node \cup {NULL},
           node' = FreeNodes(SetPrev(SetNext(node, prev, next), next, prev), l, {n})
    PROVE  Unlinked(n, prev, next)
<1> DEFINE ns == SetPrev(SetNext(node, prev, next), next, prev)
<1>1. node \in Seq(Node) /\ DOMAIN node \cup {NULL} \subseteq Ptr
  BY StateFacts DEF Ptr
<1>2. Relinks(ns, node, prev, next, next, prev)
  BY <1>1, Relinked
<1> HIDE DEF ns
<1>3. ns \in Seq(Node) /\ DOMAIN ns = DOMAIN node
  BY <1>2 DEF Relinks
<1>4. /\ node' \in Seq(Node) /\ DOMAIN node' = DOMAIN node
      /\ \A m \in DOMAIN node :
           /\ m # n => node'[m] = ns[m]
           /\ node'[m].next \in {ns[m].next, NULL}
           /\ node'[m].prev \in {ns[m].prev, NULL}
  <2>1. PICK rm : rm = {n}
    OBVIOUS
  <2>2. node' = FreeNodes(ns, l, rm)
    BY <2>1 DEF ns
  <2>3. /\ FreeNodes(ns, l, rm) \in Seq(Node)
        /\ DOMAIN FreeNodes(ns, l, rm) = DOMAIN ns
        /\ \A m \in DOMAIN ns :
             /\ m \notin rm \/ ns[m].mem_cache # l => FreeNodes(ns, l, rm)[m] = ns[m]
             /\ FreeNodes(ns, l, rm)[m].next \in {ns[m].next, NULL}
             /\ FreeNodes(ns, l, rm)[m].prev \in {ns[m].prev, NULL}
    BY <1>3, NodesFreed
  <2> QED
    BY <1>3, <2>1, <2>2, <2>3
<1>5. \A m \in DOMAIN node :
         /\ m \notin {prev, next} => ns[m] = node[m]
         /\ Rewired(ns[m], node[m], IF m = prev THEN next ELSE node[m].next,
                                    IF m = next THEN prev ELSE node[m].prev)
  BY <1>2 DEF Relinks
<1>6. \A m \in DOMAIN node :
         /\ ns[m].next \in {node[m].next, next}
         /\ ns[m].prev \in {node[m].prev, prev}
  BY <1>5 DEF Rewired
<1>7. /\ node'[n].next \in {node[n].next, next, NULL}
      /\ node'[n].prev \in {node[n].prev, prev, NULL}
  BY <1>4, <1>6
<1> QED
  BY <1>4, <1>5, <1>7 DEF Unlinked

LEMMA RemoveStep ==
    ASSUME NEW B, Sound(B), fault = NULL, NEW l \in ListId,
           NEW n \in Range(contents[l]), list_remove_node(l, n)
    PROVE  IInv'
<1> DEFINE c == contents[l]
           k == Len(c)
           prev == node[n].prev
           next == node[n].next
           q == Place(l, n)
           h == IF prev = NULL THEN next ELSE list[l].head
           t == IF next = NULL THEN prev ELSE list[l].tail
           rec == Updated(list[l], h, t, list[l].length - 1)
           seq == RemoveAt(c, q)
<1>1. /\ node \in Seq(Node) /\ Len(node) \in Nat /\ DOMAIN node = 1 .. Len(node)
      /\ NULL \notin DOMAIN node /\ list \in [ListId -> Header]
      /\ loose \subseteq DOMAIN node /\ contents \in [ListId -> Seq(DOMAIN node)]
      /\ bent \subseteq Open /\ miscounted \subseteq Open
      /\ Open \subseteq ListId /\ B \subseteq DOMAIN node /\ Closed(node, B)
  BY StateFacts
<1>2. /\ k \in Nat /\ DOMAIN c = 1 .. k /\ c \in Seq(DOMAIN node)
      /\ \A i \in 1 .. k : c[i] \in DOMAIN node /\ c[i] # NULL
      /\ Range(c) = {c[i] : i \in 1 .. k} /\ Range(c) \subseteq DOMAIN node
      /\ list[l] \in Header
  BY ListFacts
<1>3. q \in 1 .. k /\ c[q] = n
  BY <1>2, PlaceOf
<1>4. list[l].open
  <2>1. c # <<>>
    BY <1>2, <1>3
  <2> QED
    BY <2>1 DEF Sound, TypeOK, Open
<1>5. PICK W : W = B \cup Range(contents[l])
  OBVIOUS
<1>6. Reaches(l, B, W)
  BY <1>5, Reach
<1>7. prev \in W \cup {NULL} /\ next \in W \cup {NULL} /\ n \in DOMAIN node
  BY <1>2, <1>6 DEF Reaches, Closed
<1>8. CASE Freed({n, prev, next})
  <2>1. fault' = l /\ UNCHANGED <<node, list, contents, history>>
    BY <1>8 DEF list_remove_node, Reads
  <2>2. l \in bent
    <3> SUFFICES ASSUME l \in Good PROVE FALSE
      BY DEF Good
    <3>1. /\ ~Freed(Range(c))
          /\ \A i \in 1 .. k : ~Freed({node[c[i]].next}) /\ ~Freed({node[c[i]].prev})
      BY GoodFacts
    <3> QED
      BY <1>3, <1>8, <3>1 DEF Freed
  <2>3. Sound(B)'
    BY <2>1, Idle
  <2>4. fault' \in bent'
    BY <2>1, <2>2 DEF history
  <2> QED
    BY <2>3, <2>4, Kept
<1>9. CASE ~Freed({n, prev, next})
  <2>1. /\ node' = FreeNodes(SetPrev(SetNext(node, prev, next), next, prev), l, {n})
        /\ list' = [list EXCEPT ![l] = rec]
        /\ contents' = [contents EXCEPT ![l] = seq]
        /\ loose' = loose \ {n, next}
        /\ bent' = bent \cup IF n \in loose THEN {l} ELSE {}
        /\ fault' = fault /\ miscounted' = miscounted
    BY <1>9 DEF list_remove_node, Reads, Holds, RemovedTail, Updated
  <2> HIDE DEF c, k, prev, next, q, h, t, rec, seq
  <2>2. prev \in DOMAIN node \cup {NULL} /\ next \in DOMAIN node \cup {NULL}
    BY <1>6, <1>7 DEF Reaches
  <2>3. Unlinked(n, prev, next)
    BY <1>7, <2>1, <2>2, Unlinks
  <2>4. rec \in Header /\ rec.open /\ rec.head = h /\ rec.tail = t
        /\ rec.length = list[l].length - 1
    <3>1. h \in Ptr /\ t \in Ptr /\ list[l].length - 1 \in Int
      BY <1>1, <1>2, <2>2 DEF h, t, Header, Ptr
    <3>2. PICK r \in Header : r = list[l]
      BY <1>2
    <3>3. PICK d \in Int : d = list[l].length - 1
      BY <3>1
    <3>4. rec = Updated(r, h, t, d)
      BY <3>2, <3>3 DEF rec
    <3>5. /\ Updated(r, h, t, d) \in Header
          /\ Updated(r, h, t, d).head = h /\ Updated(r, h, t, d).tail = t
          /\ Updated(r, h, t, d).length = d /\ Updated(r, h, t, d).open = r.open
      BY <3>1, NewHeader
    <3> QED
      BY <1>4, <3>2, <3>3, <3>4, <3>5
  <2>5. /\ seq \in Seq(DOMAIN node) /\ Len(seq) = k - 1
        /\ \A j \in 1 .. k - 1 : seq[j] = IF j < q THEN c[j] ELSE c[j + 1]
    <3>1. q \in 1 .. Len(c)
      BY <1>3 DEF k
    <3>2. RemoveAt(c, q) \in Seq(DOMAIN node) /\ Without(RemoveAt(c, q), c, q)
      BY <1>2, <3>1, RemovedAt
    <3> QED
      BY <3>2 DEF Without, seq, k
  <2>6. DOMAIN seq = 1 .. k - 1
    BY <2>5, LenProperties
  <2>7. Range(seq) \subseteq Range(c)
    <3> SUFFICES ASSUME NEW j \in 1 .. k - 1 PROVE seq[j] \in Range(c)
      BY <2>6 DEF Range
    <3> QED
      BY <1>2, <2>5
  <2>8. /\ node' \in Seq(Node) /\ DOMAIN node \subseteq DOMAIN node'
        /\ seq \in Seq(DOMAIN node')
        /\ loose' \subseteq DOMAIN node' /\ miscounted' \subseteq ListId
        /\ \A m \in ListId \ {l} : m \in miscounted' <=> m \in miscounted
    BY <1>1, <2>1, <2>3, <2>5 DEF Unlinked
  <2>9. CASE bent' = bent \cup {l}
    <3>1. \A m \in DOMAIN node \ W : node'[m] = node[m] /\ (m \in loose' <=> m \in loose)
      BY <1>1, <1>2, <1>3, <1>5, <1>7, <2>1, <2>3 DEF Unlinked, c
    <3>2. W \subseteq DOMAIN node' /\ B \subseteq W
      BY <1>6, <2>3 DEF Reaches, Unlinked
    <3>3. Closed(node', W)
      <4> SUFFICES ASSUME NEW m \in W
                   PROVE  node'[m].next \in W \cup {NULL} /\ node'[m].prev \in W \cup {NULL}
        BY DEF Closed
      <4>1. m \in DOMAIN node /\ node[m].next \in W \cup {NULL} /\ node[m].prev \in W \cup {NULL}
        BY <1>6 DEF Reaches, Closed
      <4> QED
        BY <1>7, <2>3, <4>1 DEF Unlinked, Rewired
    <3>4. \A m \in Good \ {l} : Range(contents[m]) \cap W = {}
      BY <1>6 DEF Reaches
    <3>5. /\ Range(seq) \subseteq W /\ rec.head \in W \cup {NULL} /\ rec.tail \in W \cup {NULL}
      BY <1>5, <1>6, <1>7, <2>4, <2>7 DEF Reaches, h, t, c
    <3>6. Bends(l, rec, seq, B, W)
      BY <2>1, <2>4, <2>8, <2>9, <3>1, <3>2, <3>3, <3>4, <3>5 DEF Bends
    <3>7. Sound(W)'
      BY <3>6, BentStep
    <3> QED
      BY <2>1, <3>7, Kept
  <2>10. CASE bent' # bent \cup {l}
    <3>1. l \in Good /\ n \notin loose /\ bent' = bent
      BY <2>1, <2>10 DEF Good
    <3>2. /\ Chain(node, list[l], c, loose)
          /\ l \notin miscounted => list[l].length = k
      BY <3>1, GoodFacts DEF c, k
    <3>3. /\ \A i \in 1 .. k : /\ c[i] = n <=> i = q
                               /\ c[i] = prev <=> i = q - 1
                               /\ c[i] = next <=> i = q + 1
          /\ next = At(c, q + 1) /\ prev = At(c, q - 1)
          /\ prev = NULL <=> q = 1
          /\ next = NULL <=> q = k
      <4>1. Between(c, n, q)
        BY <3>1, Siblings DEF c, q
      <4> QED
        BY <3>1, <4>1 DEF Between, k, prev, next
    <3>4. \A m \in DOMAIN node \ Range(c) : node'[m] = node[m] /\ (m \in loose' <=> m \in loose)
      <4>1. prev \in Range(c) \cup {NULL} /\ next \in Range(c) \cup {NULL} /\ n \in Range(c)
        BY <1>2, <1>3, <3>3 DEF At
      <4> QED
        BY <1>1, <2>1, <2>3, <4>1 DEF Unlinked
    <3>5. Range(seq) \subseteq Range(c) \cup (DOMAIN node' \ DOMAIN node)
      BY <2>7
    <3>6. l \notin miscounted' => rec.length = Len(seq)
      BY <2>1, <2>4, <2>5, <3>2
    <3>7. \A i \in 0 .. k : At(seq, i) = IF i < q THEN At(c, i) ELSE At(c, i + 1)
      <4> SUFFICES ASSUME NEW i \in 0 .. k
                   PROVE  At(seq, i) = IF i < q THEN At(c, i) ELSE At(c, i + 1)
        OBVIOUS
      <4>1. CASE i < q
        BY <1>2, <1>3, <2>5, <2>6, <4>1 DEF At
      <4>2. CASE i >= q
        BY <1>2, <1>3, <2>5, <2>6, <4>2 DEF At
      <4> QED
        BY <1>2, <1>3, <4>1, <4>2
    <3>8. \A i, j \in 1 .. k - 1 : seq[i] = seq[j] => i = j
      <4>1. \A x, y \in 1 .. k : c[x] = c[y] => x = y
        BY <1>2, <3>2 DEF Chain
      <4> SUFFICES ASSUME NEW i \in 1 .. k - 1, NEW j \in 1 .. k - 1, seq[i] = seq[j]
                   PROVE  i = j
        OBVIOUS
      <4>2. /\ seq[i] = IF i < q THEN c[i] ELSE c[i + 1]
            /\ seq[j] = IF j < q THEN c[j] ELSE c[j + 1]
            /\ i \in 1 .. k /\ i + 1 \in 1 .. k /\ j \in 1 .. k /\ j + 1 \in 1 .. k
        BY <1>2, <2>5
      <4>3. i \in Int /\ j \in Int /\ q \in Int
        BY <1>2, <1>3
      <4>4. CASE i < q /\ j < q
        BY <4>1, <4>2, <4>4
      <4>5. CASE ~(i < q) /\ ~(j < q)
        <5>1. c[i + 1] = c[j + 1]
          BY <4>2, <4>5
        <5>2. i + 1 = j + 1
          BY <4>1, <4>2, <5>1
        <5> QED
          BY <4>3, <5>2
      <4>6. CASE i < q /\ ~(j < q)
        <5>1. c[i] = c[j + 1]
          BY <4>2, <4>6
        <5>2. i = j + 1
          BY <4>1, <4>2, <5>1
        <5> QED
          BY <4>3, <4>6, <5>2
      <4>7. CASE ~(i < q) /\ j < q
        <5>1. c[i + 1] = c[j]
          BY <4>2, <4>7
        <5>2. i + 1 = j
          BY <4>1, <4>2, <5>1
        <5> QED
          BY <4>3, <4>7, <5>2
      <4> QED
        BY <4>4, <4>5, <4>6, <4>7
    <3>9. \A i \in 1 .. k : i # q =>
            /\ ~node'[c[i]].freed
            /\ node'[c[i]].next = IF i = q - 1 THEN At(c, q + 1) ELSE At(c, i + 1)
            /\ node'[c[i]].prev = IF c[i] \in loose' THEN NULL
                                  ELSE IF i = q + 1 THEN At(c, q - 1) ELSE At(c, i - 1)
      <4> SUFFICES ASSUME NEW i \in 1 .. k, i # q
                   PROVE
            /\ ~node'[c[i]].freed
            /\ node'[c[i]].next = IF i = q - 1 THEN At(c, q + 1) ELSE At(c, i + 1)
            /\ node'[c[i]].prev = IF c[i] \in loose' THEN NULL
                                  ELSE IF i = q + 1 THEN At(c, q - 1) ELSE At(c, i - 1)
        OBVIOUS
      <4>1. c[i] \in DOMAIN node \ {n} /\ (c[i] = prev <=> i = q - 1) /\ (c[i] = next <=> i = q + 1)
        BY <1>2, <3>3
      <4>2. Rewired(node'[c[i]], node[c[i]], IF i = q - 1 THEN next ELSE node[c[i]].next,
                                             IF i = q + 1 THEN prev ELSE node[c[i]].prev)
        BY <2>3, <4>1 DEF Unlinked
      <4>3. /\ ~node[c[i]].freed /\ node[c[i]].next = At(c, i + 1)
            /\ node[c[i]].prev = IF c[i] \in loose THEN NULL ELSE At(c, i - 1)
        BY <1>2, <3>2 DEF Chain
      <4>4. c[i] \in loose' <=> c[i] \in loose /\ i # q + 1
        BY <2>1, <4>1
      <4> QED
        BY <3>3, <4>2, <4>3, <4>4 DEF Rewired
    <3>10. ASSUME NEW j \in 1 .. k - 1
           PROVE  /\ ~node'[seq[j]].freed
                  /\ node'[seq[j]].next = At(seq, j + 1)
                  /\ node'[seq[j]].prev = IF seq[j] \in loose' THEN NULL ELSE At(seq, j - 1)
      <4>0. j - 1 \in 0 .. k /\ j + 1 \in 0 .. k /\ j \in 1 .. k /\ j + 1 \in 1 .. k
        BY <1>2
      <4>1. CASE j < q
        <5>1. seq[j] = c[j] /\ j # q /\ j # q + 1 /\ At(seq, j - 1) = At(c, j - 1)
          BY <1>2, <1>3, <2>5, <3>7, <4>0, <4>1
        <5>2. At(seq, j + 1) = IF j = q - 1 THEN At(c, q + 1) ELSE At(c, j + 1)
          BY <1>2, <1>3, <3>7, <4>0, <4>1
        <5> QED
          BY <3>9, <4>0, <5>1, <5>2
      <4>2. CASE j >= q
        <5>1. /\ seq[j] = c[j + 1] /\ j + 1 # q /\ j + 1 # q - 1 /\ (j + 1) - 1 = j
              /\ j + 1 = q + 1 <=> j = q
          BY <1>2, <1>3, <2>5, <4>0, <4>2
        <5>2. At(seq, j + 1) = At(c, (j + 1) + 1)
          BY <1>2, <1>3, <3>7, <4>0, <4>2
        <5>3. At(seq, j - 1) = IF j = q THEN At(c, q - 1) ELSE At(c, j)
          <6>1. At(seq, j - 1) = IF j - 1 < q THEN At(c, j - 1) ELSE At(c, (j - 1) + 1)
            BY <3>7, <4>0
          <6>2. (j - 1) + 1 = j /\ (j - 1 < q <=> j = q)
            BY <1>3, <4>0, <4>2
          <6> QED
            BY <6>1, <6>2
        <5> QED
          BY <3>9, <4>0, <5>1, <5>2, <5>3
      <4> QED
        BY <1>2, <1>3, <4>1, <4>2
    <3>11. At(seq, 1) \notin loose'
      <4>1. At(seq, 1) = IF 1 < q THEN At(c, 1) ELSE At(c, 2)
        BY <1>2, <1>3, <3>7
      <4>2. At(c, 1) \notin loose
        BY <3>2 DEF Chain
      <4> QED
        BY <1>2, <1>3, <2>1, <3>3, <4>1, <4>2
    <3>12. rec.head = At(seq, 1) /\ rec.tail = At(seq, k - 1)
      <4>1. list[l].head = At(c, 1) /\ list[l].tail = At(c, k)
        BY <3>2 DEF Chain, k
      <4>2. /\ At(seq, 1) = IF 1 < q THEN At(c, 1) ELSE At(c, 2)
            /\ At(seq, k - 1) = IF k - 1 < q THEN At(c, k - 1) ELSE At(c, k)
        BY <1>2, <1>3, <3>7
      <4> QED
        BY <1>2, <1>3, <2>4, <3>3, <4>1, <4>2 DEF h, t
    <3>13. Chain(node', rec, seq, loose')
      BY <2>5, <2>6, <3>8, <3>10, <3>11, <3>12 DEF Chain
    <3>14. Sound(B)'
      BY <2>1, <2>4, <2>8, <3>1, <3>4, <3>5, <3>6, <3>13, GoodStep DEF c
    <3> QED
      BY <2>1, <3>14, Kept
  <2> QED
    BY <2>9, <2>10
<1> QED
  BY <1>8, <1>9

LEMMA RemoveDataStep ==
    ASSUME NEW B, Sound(B), fault = NULL, NEW l \in ListId, NEW data \in Data,
           list_remove(l, data)
    PROVE  IInv'
<1> DEFINE n == Find(l, {m \in DOMAIN node : node[m].data = data})
<1>1. l \in Good
  BY StateFacts DEF list_remove, Good
<1>2. n = NULL \/ n \in Range(contents[l])
  BY <1>1, Found
<1>3. CASE n = NULL
  <2>1. UNCHANGED vars
    BY <1>3 DEF list_remove
  <2>2. fault' = fault /\ UNCHANGED <<node, list, contents, history>>
    BY <2>1 DEF vars, history
  <2>3. Sound(B)'
    BY <2>2, Idle
  <2> QED
    BY <2>2, <2>3, Kept
<1>4. CASE n # NULL
  <2>1. list_remove_node(l, n)
    BY <1>4 DEF list_remove
  <2> HIDE DEF n
  <2> QED
    BY <1>2, <1>4, <2>1, RemoveStep
<1> QED
  BY <1>3, <1>4

(***************************************************************************)
(* Calls on whole lists.                                                   *)
(***************************************************************************)

LEMMA Faulted ==
    ASSUME NEW B, Sound(B), NEW l \in ListId, NEW S, Freed(S),
           l \in Good => ~Freed(S),
           fault' = l /\ UNCHANGED <<node, list, contents, history>>
    PROVE  IInv'
<1>1. Sound(B)'
  BY Idle
<1>2. fault' \in bent'
  BY DEF Good, history
<1> QED
  BY <1>1, <1>2, Kept

\* The walk of a list stays among the nodes it reaches.
LEMMA WalkReaches ==
    ASSUME NEW B, Sound(B), NEW l \in ListId, NEW W, Reaches(l, B, W)
    PROVE  /\ Walk(l) \in Seq(W) /\ Len(Walk(l)) \in Nat /\ DOMAIN Walk(l) = 1 .. Len(Walk(l))
           /\ \A i \in 1 .. Len(Walk(l)) : Walk(l)[i] \in W
           /\ Range(Walk(l)) \subseteq W
           /\ l \in Good => Walk(l) = contents[l] /\ ~Freed(Range(Walk(l)))
<1>1. node \in Seq(Node)
  BY StateFacts
<1>2. PICK n \in W \cup {NULL} : n = list[l].head
  BY DEF Reaches
<1>3. From(n) \in Seq(W)
  BY <1>1, <1>2, WalkInside DEF Reaches
<1>4. Walk(l) \in Seq(W)
  BY <1>2, <1>3 DEF Walk
<1>5. Len(Walk(l)) \in Nat /\ DOMAIN Walk(l) = 1 .. Len(Walk(l))
  BY <1>4, LenProperties
<1>6. \A i \in 1 .. Len(Walk(l)) : Walk(l)[i] \in W
  BY <1>4, ElementOfSeq
<1>7. Range(Walk(l)) \subseteq W
  BY <1>5, <1>6 DEF Range
<1>8. l \in Good => Walk(l) = contents[l] /\ ~Freed(Range(Walk(l)))
  BY GoodFacts
<1> QED
  BY <1>4, <1>5, <1>6, <1>7, <1>8

LEMMA ForeachStep ==
    ASSUME NEW B, Sound(B), fault = NULL, NEW l \in ListId, list_foreach(l)
    PROVE  IInv'
<1>1. PICK W : W = B \cup Range(contents[l])
  OBVIOUS
<1>2. l \in Good => ~Freed(Range(Walk(l)))
  BY <1>1, Reach, WalkReaches
<1>3. PICK S : S = Range(Walk(l))
  OBVIOUS
<1>4. Reads(l, S, UNCHANGED <<node, list, contents, history>>)
  BY <1>3 DEF list_foreach
<1>5. CASE Freed(S)
  <2>1. fault' = l /\ UNCHANGED <<node, list, contents, history>>
    BY <1>4, <1>5 DEF Reads
  <2> QED
    BY <1>2, <1>3, <1>5, <2>1, Faulted
<1>6. CASE ~Freed(S)
  <2>1. fault' = fault /\ UNCHANGED <<node, list, contents, history>>
    BY <1>4, <1>6 DEF Reads
  <2>2. Sound(B)'
    BY <2>1, Idle
  <2> QED
    BY <2>1, <2>2, Kept
<1> QED
  BY <1>5, <1>6

\* A list without nodes is a chain.
LEMMA EmptyChain ==
    ASSUME NEW ns, NEW rec, rec.head = NULL, rec.tail = NULL, NEW lo, NULL \notin lo
    PROVE  Chain(ns, rec, <<>>, lo) /\ Range(<<>>) = {} /\ Len(<<>>) = 0
BY DEF Chain, At, Range

\* Headers of a list without nodes.
LEMMA EmptyHeaders ==
    /\ Absent \in Header /\ Absent.head = NULL /\ Absent.tail = NULL /\ Absent.length = 0
    /\ \A n \in Int : /\ [Empty EXCEPT !.length = n] \in Header
                      /\ [Empty EXCEPT !.length = n].open
                      /\ [Empty EXCEPT !.length = n].head = NULL
                      /\ [Empty EXCEPT !.length = n].tail = NULL
                      /\ [Empty EXCEPT !.length = n].length = n
<1>1. Empty \in Header /\ Empty.head = NULL /\ Empty.tail = NULL /\ Empty.length = 0 /\ Empty.open
  BY DEF Empty, Header, Ptr
<1>2. PICK h \in Header : h = Empty
  BY <1>1
<1>3. /\ [h EXCEPT !.open = FALSE] \in Header
      /\ [h EXCEPT !.open = FALSE].head = h.head
      /\ [h EXCEPT !.open = FALSE].tail = h.tail
      /\ [h EXCEPT !.open = FALSE].length = h.length
  BY DEF Header
<1>4. ASSUME NEW n \in Int
      PROVE  /\ [h EXCEPT !.length = n] \in Header
             /\ [h EXCEPT !.length = n].open = h.open
             /\ [h EXCEPT !.length = n].head = h.head
             /\ [h EXCEPT !.length = n].tail = h.tail
             /\ [h EXCEPT !.length = n].length = n
  BY DEF Header
<1>5. Absent = [h EXCEPT !.open = FALSE]
  BY <1>2 DEF Absent
<1>6. \A n \in Int : [Empty EXCEPT !.length = n] = [h EXCEPT !.length = n]
  BY <1>2
<1>7. /\ Absent \in Header /\ Absent.head = NULL /\ Absent.tail = NULL /\ Absent.length = 0
  BY <1>1, <1>2, <1>3, <1>5
<1> QED
  BY <1>1, <1>2, <1>4, <1>6, <1>7

LEMMA RemoveAllStep ==
    ASSUME NEW B, Sound(B), fault = NULL, NEW l \in ListId, list_remove_all(l)
    PROVE  IInv'
<1>1. PICK W : W = B \cup Range(contents[l])
  OBVIOUS
<1>2. Reaches(l, B, W)
  BY <1>1, Reach
<1>3. /\ Len(Walk(l)) \in Nat /\ Range(Walk(l)) \subseteq W
      /\ l \in Good => Walk(l) = contents[l] /\ ~Freed(Range(Walk(l)))
  BY <1>2, WalkReaches
<1>4. /\ node \in Seq(Node) /\ NULL \notin DOMAIN node
      /\ list \in [ListId -> Header] /\ contents \in [ListId -> Seq(DOMAIN node)]
      /\ loose \subseteq DOMAIN node /\ bent \subseteq ListId /\ miscounted \subseteq ListId
      /\ B \subseteq DOMAIN node /\ Closed(node, B)
  BY StateFacts
<1>5. PICK S : S = Range(Walk(l))
  OBVIOUS
<1>6. CASE Freed(S)
  <2>1. fault' = l /\ UNCHANGED <<node, list, contents, history>>
    BY <1>5, <1>6 DEF list_remove_all, Reads
  <2> QED
    BY <1>3, <1>5, <1>6, <2>1, Faulted
<1>7. CASE ~Freed(S)
  <2>1. /\ node' = FreeNodes(node, l, S)
        /\ list' = [list EXCEPT ![l] = RemovedAll(l)]
        /\ contents' = [contents EXCEPT ![l] = <<>>]
        /\ bent' = bent \ {l} /\ miscounted' = miscounted \cup (bent \cap {l})
        /\ loose' = loose \ S /\ fault' = fault
    BY <1>5, <1>7 DEF list_remove_all, Reads, Holds
  <2>2. /\ node' \in Seq(Node) /\ DOMAIN node' = DOMAIN node
        /\ \A m \in DOMAIN node :
             /\ m \notin S => node'[m] = node[m]
             /\ node'[m].next \in {node[m].next, NULL}
             /\ node'[m].prev \in {node[m].prev, NULL}
    BY <1>4, <2>1, NodesFreed
  <2>3. PICK L : L = {l}
    OBVIOUS
  <2>4. /\ L \subseteq ListId
        /\ node' \in Seq(Node) /\ DOMAIN node \subseteq DOMAIN node'
        /\ loose' \subseteq DOMAIN node' /\ bent' \subseteq ListId /\ miscounted' \subseteq ListId
    BY <1>4, <2>1, <2>2, <2>3
  <2>5. list[l].length \in Int
    BY <1>4 DEF Header
  <2>6. /\ RemovedAll(l) \in Header /\ RemovedAll(l).open
        /\ RemovedAll(l).head = NULL /\ RemovedAll(l).tail = NULL
        /\ RemovedAll(l).length = list[l].length - Len(Walk(l))
    <3>1. PICK n \in Int : n = list[l].length - Len(Walk(l))
      BY <1>3, <2>5
    <3>2. RemovedAll(l) = [Empty EXCEPT !.length = n]
      BY <3>1 DEF RemovedAll
    <3> QED
      BY <3>1, <3>2, EmptyHeaders
  <2>7. /\ list' \in [ListId -> Header] /\ list'[l] = RemovedAll(l)
        /\ \A m \in ListId \ {l} : list'[m] = list[m]
    BY <1>4, <2>1, <2>6
  <2>8. /\ contents' \in [ListId -> Seq(DOMAIN node')] /\ contents'[l] = <<>>
        /\ \A m \in ListId \ {l} : contents'[m] = contents[m]
    <3>1. <<>> \in Seq(DOMAIN node)
      OBVIOUS
    <3> QED
      BY <1>4, <2>1, <2>2, <3>1
  <2>9. \A m \in ListId \ L : /\ list'[m] = list[m] /\ contents'[m] = contents[m]
                              /\ m \in bent' <=> m \in bent
                              /\ m \in miscounted' <=> m \in miscounted
    BY <2>1, <2>3, <2>7, <2>8
  <2>10. \A n \in DOMAIN node \ W : node'[n] = node[n] /\ (n \in loose' <=> n \in loose)
    BY <1>3, <1>5, <2>1, <2>2
  <2>11. \A m \in Good \ L : Range(contents[m]) \cap (W \cup B) = {}
    BY <1>2, <2>3 DEF Reaches
  <2>12. Closed(node', B)
    BY <1>4, <2>2 DEF Closed
  <2>13. Chain(node', list'[l], contents'[l], loose') /\ Range(contents'[l]) = {}
         /\ Len(contents'[l]) = 0
    <3>1. NULL \notin loose'
      BY <1>4, <2>1
    <3> QED
      BY <2>6, <2>7, <2>8, <3>1, EmptyChain
  <2>14. l \notin miscounted' => list'[l].length = Len(contents'[l])
    <3> SUFFICES ASSUME l \notin miscounted' PROVE list'[l].length = 0
      BY <2>13
    <3>1. l \in Good /\ l \notin miscounted
      BY <2>1 DEF Good
    <3>2. list[l].length = Len(Walk(l))
      BY <1>3, <3>1, GoodFacts
    <3> QED
      BY <1>3, <2>6, <2>7, <3>2
  <2>15. /\ \A m \in L : list'[m].open
         /\ \A m \in L \cap bent' : FALSE
         /\ \A m \in L \ bent' : m = l
    BY <2>1, <2>3, <2>6, <2>7
  <2>16. Changes(L, W, B, B)
    BY <1>4, <2>2, <2>4, <2>7, <2>8, <2>9, <2>10, <2>11, <2>12, <2>13, <2>14, <2>15 DEF Changes
  <2>17. Sound(B)'
    BY <2>16, Step
  <2> QED
    BY <2>1, <2>17, Kept
<1> QED
  BY <1>6, <1>7

LEMMA FreeStep ==
    ASSUME NEW B, Sound(B), fault = NULL, NEW l \in ListId, list_free(l)
    PROVE  IInv'
<1>1. \A m \in ListId : Reaches(m, B, B \cup Range(contents[m]))
  <2> SUFFICES ASSUME NEW m \in ListId PROVE Reaches(m, B, B \cup Range(contents[m]))
    OBVIOUS
  <2>1. PICK V : V = B \cup Range(contents[m])
    OBVIOUS
  <2>2. Reaches(m, B, V)
    BY <2>1, Reach
  <2> QED
    BY <2>1, <2>2
<1>2. /\ node \in Seq(Node) /\ NULL \notin DOMAIN node
      /\ list \in [ListId -> Header] /\ contents \in [ListId -> Seq(DOMAIN node)]
      /\ loose \subseteq DOMAIN node /\ bent \subseteq Open /\ miscounted \subseteq Open
      /\ Open \subseteq ListId
      /\ B \subseteq DOMAIN node /\ Closed(node, B)
  BY StateFacts
<1>3. PICK S : S = Range(Walk(l))
  OBVIOUS
<1>4. CASE Freed(S)
  <2>1. fault' = l /\ UNCHANGED <<node, list, contents, history>>
    BY <1>3, <1>4 DEF list_free, Reads
  <2>2. l \in Good => ~Freed(S)
    BY <1>3, GoodFacts
  <2> QED
    BY <1>4, <2>1, <2>2, Faulted
<1>5. CASE ~Freed(S)
  <2>1. PICK M : M = {m \in Open \ {l} : \E n \in Range(contents[m]) : node[n].mem_cache = l}
    OBVIOUS
  <2>2. PICK X : X = {n \in DOMAIN node : node[n].mem_cache = l}
    OBVIOUS
  <2>3. PICK W : W = B \cup UNION {Range(contents[m]) : m \in M}
    OBVIOUS
  <2>4. PICK L : L = M \cup {l}
    OBVIOUS
  <2>5. /\ node' = FreeNodes(node, l, DOMAIN node)
        /\ list' = [list EXCEPT ![l] = Absent]
        /\ contents' = [contents EXCEPT ![l] = <<>>]
        /\ bent' = (bent \ {l}) \cup M /\ miscounted' = miscounted \ {l}
        /\ loose' = {n \in loose : node[n].mem_cache # l} /\ fault' = fault
    BY <1>3, <1>5, <2>1 DEF list_free, Reads, Holds
  <2>6. /\ node' \in Seq(Node) /\ DOMAIN node' = DOMAIN node
        /\ \A m \in DOMAIN node :
             /\ m \notin X => node'[m] = node[m]
             /\ node'[m].next \in {node[m].next, NULL}
             /\ node'[m].prev \in {node[m].prev, NULL}
    BY <1>2, <2>2, <2>5, NodesFreed
  <2>7. /\ L \subseteq ListId /\ M \subseteq Open /\ l \notin M
        /\ node' \in Seq(Node) /\ DOMAIN node \subseteq DOMAIN node'
        /\ loose' \subseteq DOMAIN node' /\ bent' \subseteq ListId /\ miscounted' \subseteq ListId
    BY <1>2, <2>1, <2>4, <2>5, <2>6
  <2>8. /\ Absent \in Header /\ Absent.head = NULL /\ Absent.tail = NULL /\ Absent.length = 0
    BY EmptyHeaders
  <2>9. /\ list' \in [ListId -> Header] /\ list'[l] = Absent
        /\ \A m \in ListId \ {l} : list'[m] = list[m]
    BY <1>2, <2>5, <2>8
  <2>10. /\ contents' \in [ListId -> Seq(DOMAIN node')] /\ contents'[l] = <<>>
         /\ \A m \in ListId \ {l} : contents'[m] = contents[m]
    <3>1. <<>> \in Seq(DOMAIN node)
      OBVIOUS
    <3> QED
      BY <1>2, <2>5, <2>6, <3>1
  <2>11. \A m \in ListId \ L : /\ list'[m] = list[m] /\ contents'[m] = contents[m]
                               /\ m \in bent' <=> m \in bent
                               /\ m \in miscounted' <=> m \in miscounted
    BY <2>4, <2>5, <2>9, <2>10
  <2>12. \A n \in DOMAIN node \ X : node'[n] = node[n] /\ (n \in loose' <=> n \in loose)
    BY <2>2, <2>5, <2>6
  <2>13. \A m \in Good \ L : Range(contents[m]) \cap (X \cup W) = {}
    <3> SUFFICES ASSUME NEW m \in Good \ L PROVE Range(contents[m]) \cap (X \cup W) = {}
      OBVIOUS
    <3>1. m \in ListId /\ m \notin M /\ m # l
      BY <2>4 DEF Good
    <3>2. Range(contents[m]) \cap X = {}
      <4>1. CASE m \in Open
        BY <2>1, <2>2, <3>1, <4>1
      <4>2. CASE m \notin Open
        BY <3>1, <4>2 DEF Sound, TypeOK, Range
      <4> QED
        BY <4>1, <4>2
    <3>3. \A j \in ListId \ {m} : Range(contents[m]) \cap (B \cup Range(contents[j])) = {}
      BY <1>1, <3>1 DEF Reaches
    <3>4. Range(contents[m]) \cap B = {}
      BY DEF Sound, Apart
    <3>5. \A j \in M : j \in ListId \ {m}
      BY <1>2, <2>7, <3>1
    <3> QED
      BY <2>3, <3>2, <3>3, <3>4, <3>5
  <2>14. B \subseteq W /\ W \subseteq DOMAIN node'
    <3>1. \A m \in M : Range(contents[m]) \subseteq DOMAIN node
      BY <1>1, <1>2, <2>7 DEF Reaches
    <3> QED
      BY <1>2, <2>3, <2>6, <3>1
  <2>15. Closed(node', W)
    <3> SUFFICES ASSUME NEW n \in W
                 PROVE  node'[n].next \in W \cup {NULL} /\ node'[n].prev \in W \cup {NULL}
      BY DEF Closed
    <3>1. n \in DOMAIN node
      BY <2>6, <2>14
    <3>2. node[n].next \in W \cup {NULL} /\ node[n].prev \in W \cup {NULL}
      <4>1. CASE n \in B
        BY <1>2, <2>3, <4>1 DEF Closed
      <4>2. CASE n \notin B
        <5>1. PICK m \in M : n \in Range(contents[m])
          BY <2>3, <4>2
        <5>2. Closed(node, B \cup Range(contents[m]))
          BY <1>1, <1>2, <2>7 DEF Reaches
        <5>3. B \cup Range(contents[m]) \subseteq W
          BY <2>3
        <5> QED
          BY <5>1, <5>2, <5>3 DEF Closed
      <4> QED
        BY <4>1, <4>2
    <3> QED
      BY <2>6, <3>1, <3>2
  <2>16. \A m \in M : /\ Range(contents'[m]) \subseteq W
                      /\ list'[m].head \in W \cup {NULL}
                      /\ list'[m].tail \in W \cup {NULL}
                      /\ list'[m].open
    <3> SUFFICES ASSUME NEW m \in M
                 PROVE  /\ Range(contents'[m]) \subseteq W
                        /\ list'[m].head \in W \cup {NULL}
                        /\ list'[m].tail \in W \cup {NULL}
                        /\ list'[m].open
      OBVIOUS
    <3>1. m \in ListId \ {l} /\ list[m].open
      BY <1>2, <2>7 DEF Open
    <3>2. /\ list[m].head \in B \cup Range(contents[m]) \cup {NULL}
          /\ list[m].tail \in B \cup Range(contents[m]) \cup {NULL}
      BY <1>1, <3>1 DEF Reaches
    <3>3. B \cup Range(contents[m]) \subseteq W
      BY <2>3
    <3> QED
      BY <2>9, <2>10, <3>1, <3>2, <3>3
  <2>17. /\ Chain(node', list'[l], contents'[l], loose') /\ Range(contents'[l]) = {}
         /\ list'[l].length = Len(contents'[l])
    <3>1. NULL \notin loose'
      BY <1>2, <2>5
    <3>2. PICK rec : rec = Absent
      OBVIOUS
    <3>3. Chain(node', rec, <<>>, loose') /\ Range(<<>>) = {} /\ Len(<<>>) = 0
      BY <2>8, <3>1, <3>2, EmptyChain
    <3> QED
      BY <2>8, <2>9, <2>10, <3>2, <3>3
  <2>18. /\ \A m \in L \cap bent' : m \in M
         /\ \A m \in L \ bent' : m = l
         /\ \A m \in L : m \in M \/ m = l
         /\ l \notin bent' \cup miscounted'
    BY <2>4, <2>5, <2>7
  <2>19. \A m \in L : \/ list'[m].open
                      \/ /\ list'[m] = Absent /\ contents'[m] = <<>>
                         /\ m \notin bent' \cup miscounted'
    BY <2>9, <2>10, <2>16, <2>18
  <2>20. Changes(L, X, B, W)
    BY <2>6, <2>7, <2>9, <2>10, <2>11, <2>12, <2>13, <2>14, <2>15, <2>16, <2>17, <2>18, <2>19
    DEF Changes
  <2>21. Sound(W)'
    BY <2>20, Step
  <2> QED
    BY <2>5, <2>21, Kept
<1> QED
  BY <1>4, <1>5

LEMMA ReverseStep ==
    ASSUME NEW B, Sound(B), fault = NULL, NEW l \in ListId, list_reverse(l)
    PROVE  IInv'
<1> DEFINE c == contents[l]
           k == Len(c)
           seq == Reverse(c)
           rec == Updated(list[l], list[l].tail, list[l].head, list[l].length)
<1>1. PICK W : W = B \cup Range(c)
  OBVIOUS
<1>2. Reaches(l, B, W)
  BY <1>1, Reach
<1>3. /\ node \in Seq(Node) /\ list \in [ListId -> Header]
      /\ contents \in [ListId -> Seq(DOMAIN node)]
      /\ loose \subseteq DOMAIN node /\ miscounted \subseteq ListId
  BY StateFacts
<1>4. /\ k \in Nat /\ DOMAIN c = 1 .. k /\ c \in Seq(DOMAIN node)
      /\ \A i \in 1 .. k : c[i] \in DOMAIN node /\ c[i] # NULL
      /\ Range(c) = {c[i] : i \in 1 .. k}
      /\ list[l] \in Header
  BY ListFacts
<1>5. /\ list[l].open /\ list[l].head # NULL
      /\ node' = node /\ fault' = fault /\ loose' = loose /\ miscounted' = miscounted
      /\ contents' = [contents EXCEPT ![l] = seq]
      /\ bent' = bent \cup IF list[l].head = list[l].tail THEN {} ELSE {l}
      /\ list' = [list EXCEPT ![l] = [list[l] EXCEPT !.head = list[l].tail,
                                                     !.tail = list[l].head]]
  BY DEF list_reverse, Holds, Open
<1>6. /\ seq \in Seq(DOMAIN node) /\ DOMAIN seq = 1 .. k /\ Range(seq) \subseteq Range(c)
      /\ \A i \in 1 .. k : seq[i] = c[(k - i) + 1]
  <2>1. seq = [i \in 1 .. k |-> c[(k - i) + 1]]
    BY DEF Reverse
  <2>2. \A i \in 1 .. k : (k - i) + 1 \in 1 .. k
    BY <1>4
  <2>3. \A i \in 1 .. k : seq[i] = c[(k - i) + 1]
    BY <2>1
  <2>4. seq \in [1 .. k -> DOMAIN node]
    BY <1>4, <2>1, <2>2
  <2>5. seq \in Seq(DOMAIN node)
    BY <1>4, <2>4, SeqDef
  <2>6. \A i \in 1 .. k : seq[i] \in Range(c)
    BY <1>4, <2>2, <2>3
  <2>7. DOMAIN seq = 1 .. k
    BY <2>1
  <2> HIDE DEF seq, c
  <2> QED
    BY <2>3, <2>5, <2>6, <2>7 DEF Range
<1> HIDE DEF c, k, seq
<1>7. CASE bent' = bent \cup {l}
  <2>1. rec \in Header /\ rec.open /\ rec.head = list[l].tail /\ rec.tail = list[l].head
    <3>1. PICK h \in Header : h = list[l]
      BY <1>4
    <3>2. h.head \in Ptr /\ h.tail \in Ptr /\ h.length \in Int
      BY DEF Header
    <3>3. /\ Updated(h, h.tail, h.head, h.length) \in Header
          /\ Updated(h, h.tail, h.head, h.length).head = h.tail
          /\ Updated(h, h.tail, h.head, h.length).tail = h.head
          /\ Updated(h, h.tail, h.head, h.length).open = h.open
      BY <3>2, NewHeader
    <3> QED
      BY <1>5, <3>1, <3>3
  <2>2. list' = [list EXCEPT ![l] = rec]
    <3>1. PICK h \in Header : h = list[l]
      BY <1>4
    <3>2. [h EXCEPT !.head = h.tail, !.tail = h.head]
             = [h EXCEPT !.head = h.tail, !.tail = h.head, !.length = h.length]
      BY DEF Header
    <3> QED
      BY <1>5, <3>1, <3>2 DEF Updated
  <2> HIDE DEF rec
  <2>3. W \subseteq DOMAIN node' /\ B \subseteq W /\ Closed(node', W)
    BY <1>2, <1>5 DEF Reaches
  <2>4. /\ Range(seq) \subseteq W /\ rec.head \in W \cup {NULL} /\ rec.tail \in W \cup {NULL}
    BY <1>1, <1>2, <1>6, <2>1 DEF Reaches
  <2>5. /\ \A m \in Good \ {l} : Range(contents[m]) \cap W = {}
        /\ \A n \in DOMAIN node \ W : node'[n] = node[n] /\ (n \in loose' <=> n \in loose)
        /\ \A m \in ListId \ {l} : m \in miscounted' <=> m \in miscounted
    BY <1>2, <1>5 DEF Reaches
  <2>6. Bends(l, rec, seq, B, W)
    BY <1>3, <1>5, <1>6, <1>7, <2>1, <2>2, <2>3, <2>4, <2>5 DEF Bends
  <2>7. Sound(W)'
    BY <2>6, BentStep
  <2> QED
    BY <1>5, <2>7, Kept
<1>8. CASE bent' # bent \cup {l}
  <2>1. l \in Good /\ list[l].head = list[l].tail /\ bent' = bent
    BY <1>5, <1>8 DEF Good
  <2>2. Chain(node, list[l], c, loose)
    BY <2>1, GoodFacts DEF c
  <2>3. k = 1
    <3>1. At(c, 1) = At(c, k) /\ At(c, 1) # NULL
      BY <1>5, <2>1, <2>2 DEF Chain, k
    <3>2. 1 \in 1 .. k
      BY <1>4, <3>1 DEF At
    <3>3. k \in 1 .. k
      BY <1>4, <3>2
    <3>4. c[1] = c[k]
      BY <1>4, <3>1, <3>2, <3>3 DEF At
    <3> QED
      BY <1>4, <2>2, <3>2, <3>3, <3>4 DEF Chain
  <2>4. seq = c
    <3>1. \A i \in 1 .. k : seq[i] = c[i]
      BY <1>6, <2>3
    <3>2. c \in [1 .. k -> DOMAIN node] /\ seq \in [1 .. k -> DOMAIN node]
      BY <1>4, <1>6, SeqDef, LenProperties DEF k
    <3>3. c = [i \in 1 .. k |-> c[i]] /\ seq = [i \in 1 .. k |-> seq[i]]
      BY <3>2
    <3> QED
      BY <3>1, <3>3
  <2>5. contents' = contents
    BY <1>3, <1>5, <2>4 DEF c
  <2>6. list' = list
    <3>1. PICK h \in Header : h = list[l]
      BY <1>4
    <3>2. [h EXCEPT !.head = h.head, !.tail = h.head] = h
      BY <2>1, <3>1 DEF Header
    <3>3. list' = [list EXCEPT ![l] = h]
      BY <1>5, <2>1, <3>1, <3>2
    <3> QED
      BY <1>3, <3>1, <3>3
  <2>7. Sound(B)'
    BY <1>5, <2>1, <2>5, <2>6, Idle DEF history
  <2> QED
    BY <1>5, <2>7, Kept
<1> QED
  BY <1>7, <1>8

\* The nodes of a copy.
Copies(l, new_list) ==
    LET walk == Walk(l)
        copy(i) == Len(node) + i
        end == Len(walk)
    IN [i \in 1 .. end |->
            Allocated(new_list, node[walk[i]].data,
                      IF i = end THEN NULL ELSE copy(i + 1),
                      IF i = 1 THEN NULL ELSE copy(i - 1))]
LEMMA CopiesMade ==
    ASSUME NEW B, Sound(B), NEW l \in ListId, NEW new_list \in ListId,
           node' = node \o Copies(l, new_list)
    PROVE  /\ node' \in Seq(Node) /\ DOMAIN node' = 1 .. Len(node) + Len(Walk(l))
           /\ \A n \in DOMAIN node : node'[n] = node[n]
           /\ \A i \in 1 .. Len(Walk(l)) :
                /\ ~node'[Len(node) + i].freed
                /\ node'[Len(node) + i].next =
                      IF i = Len(Walk(l)) THEN NULL ELSE Len(node) + (i + 1)
                /\ node'[Len(node) + i].prev = IF i = 1 THEN NULL ELSE Len(node) + (i - 1)
<1> DEFINE walk == Walk(l)
           end == Len(walk)
           copies == Copies(l, new_list)
           next(i) == IF i = end THEN NULL ELSE Len(node) + (i + 1)
           prev(i) == IF i = 1 THEN NULL ELSE Len(node) + (i - 1)
<1>1. PICK W : W = B \cup Range(contents[l])
  OBVIOUS
<1>2. Reaches(l, B, W)
  BY <1>1, Reach
<1>3. end \in Nat /\ \A i \in 1 .. end : walk[i] \in W
  BY <1>2, WalkReaches
<1>4. /\ node \in Seq(Node) /\ Len(node) \in Nat /\ DOMAIN node = 1 .. Len(node)
      /\ \A n \in DOMAIN node : node[n] \in Node
  BY StateFacts
<1> HIDE DEF walk, end
<1>5. \A i \in 1 .. end : node[walk[i]].data \in Int
  BY <1>2, <1>3, <1>4 DEF Reaches, Node
<1>6. \A i \in 1 .. end : next(i) \in Ptr /\ prev(i) \in Ptr
  BY <1>3, <1>4 DEF Ptr
<1>7. copies = [i \in 1 .. end |-> Allocated(new_list, node[walk[i]].data, next(i), prev(i))]
  BY DEF Copies, walk, end
<1> HIDE DEF next, prev, copies
<1>8. \A i \in 1 .. end : /\ copies[i] \in Node
                          /\ ~copies[i].freed
                          /\ copies[i].next = next(i) /\ copies[i].prev = prev(i)
  <2> SUFFICES ASSUME NEW i \in 1 .. end
               PROVE  /\ copies[i] \in Node
                      /\ ~copies[i].freed
                      /\ copies[i].next = next(i) /\ copies[i].prev = prev(i)
    OBVIOUS
  <2>1. copies[i] = Allocated(new_list, node[walk[i]].data, next(i), prev(i))
    BY <1>7
  <2> QED
    BY <1>5, <1>6, <2>1 DEF Allocated, Node
<1>9. copies \in Seq(Node) /\ Len(copies) = end
  <2>1. copies \in [1 .. end -> Node]
    BY <1>7, <1>8
  <2>2. copies \in Seq(Node)
    BY <1>3, <2>1, SeqDef
  <2>3. DOMAIN copies = 1 .. Len(copies) /\ Len(copies) \in Nat
    BY <2>2, LenProperties
  <2> QED
    BY <1>3, <2>1, <2>2, <2>3
<1>10. /\ node' \in Seq(Node) /\ Len(node') = Len(node) + Len(copies)
       /\ \A j \in 1 .. Len(node) + Len(copies) :
             node'[j] = IF j <= Len(node) THEN node[j] ELSE copies[j - Len(node)]
  <2>1. node' = node \o copies
    BY DEF copies
  <2> QED
    BY <1>4, <1>9, <2>1, ConcatProperties
<1>11. DOMAIN node' = 1 .. Len(node) + end
  BY <1>9, <1>10, LenProperties
<1>12. \A n \in DOMAIN node : node'[n] = node[n]
  BY <1>3, <1>4, <1>9, <1>10
<1>13. \A i \in 1 .. end : node'[Len(node) + i] = copies[i]
  <2> SUFFICES ASSUME NEW i \in 1 .. end PROVE node'[Len(node) + i] = copies[i]
    OBVIOUS
  <2>1. /\ Len(node) + i \in 1 .. Len(node) + Len(copies) /\ ~(Len(node) + i <= Len(node))
        /\ (Len(node) + i) - Len(node) = i
    BY <1>3, <1>4, <1>9
  <2> QED
    BY <1>10, <2>1
<1> QED
  BY <1>8, <1>10, <1>11, <1>12, <1>13 DEF next, prev, end, walk

LEMMA DuplicateStep ==
    ASSUME NEW B, Sound(B), fault = NULL, NEW l \in ListId, NEW new_list \in ListId,
           list_duplicate(l, new_list)
    PROVE  IInv'
<1> DEFINE base == Len(node)
           end == Len(Walk(l))
           seq == [i \in 1 .. end |-> base + i]
           h == IF end = 0 THEN NULL ELSE base + 1
           t == IF end = 0 THEN NULL ELSE base + end
           rec == Updated(Empty, h, t, list[l].length + end)
<1>1. PICK V : V = B \cup Range(contents[l])
  OBVIOUS
<1>2. Reaches(l, B, V)
  BY <1>1, Reach
<1>3. /\ end \in Nat
      /\ l \in Good => ~Freed(Range(Walk(l)))
  BY <1>2, WalkReaches
<1>4. /\ node \in Seq(Node) /\ base \in Nat /\ DOMAIN node = 1 .. base
      /\ NULL \notin DOMAIN node
      /\ list \in [ListId -> Header] /\ contents \in [ListId -> Seq(DOMAIN node)]
      /\ loose \subseteq DOMAIN node /\ bent \subseteq Open /\ miscounted \subseteq Open
      /\ Open \subseteq ListId
      /\ B \subseteq DOMAIN node /\ Closed(node, B)
  BY StateFacts
<1>5. new_list \notin Open
  BY DEF list_duplicate
<1>6. PICK S : S = Range(Walk(l))
  OBVIOUS
<1>7. CASE Freed(S)
  <2>1. fault' = l /\ UNCHANGED <<node, list, contents, history>>
    BY <1>6, <1>7 DEF list_duplicate, Reads
  <2> QED
    BY <1>3, <1>6, <1>7, <2>1, Faulted
<1>8. CASE ~Freed(S)
  <2>1. /\ node' = node \o Copies(l, new_list)
        /\ list' = [list EXCEPT ![new_list] = rec]
        /\ contents' = [contents EXCEPT ![new_list] = seq]
        /\ bent' = bent \cup IF l \in bent THEN {new_list} ELSE {}
        /\ miscounted' = miscounted \cup IF list[l].length = 0 THEN {} ELSE {new_list}
        /\ loose' = loose /\ fault' = fault
    BY <1>6, <1>8 DEF list_duplicate, Reads, Holds, Copies, Updated
  <2>2. /\ node' \in Seq(Node) /\ DOMAIN node' = 1 .. base + end
        /\ \A n \in DOMAIN node : node'[n] = node[n]
        /\ \A i \in 1 .. end :
             /\ ~node'[base + i].freed
             /\ node'[base + i].next = IF i = end THEN NULL ELSE base + (i + 1)
             /\ node'[base + i].prev = IF i = 1 THEN NULL ELSE base + (i - 1)
    BY <2>1, CopiesMade
  <2>3. /\ seq \in Seq(DOMAIN node') /\ Len(seq) = end /\ DOMAIN seq = 1 .. end
        /\ \A i \in 1 .. end : seq[i] = base + i
    <3>1. seq \in [1 .. end -> DOMAIN node']
      BY <1>3, <1>4, <2>2
    <3>2. seq \in Seq(DOMAIN node') /\ DOMAIN seq = 1 .. end /\ \A i \in 1 .. end : seq[i] = base + i
      BY <1>3, <3>1, SeqDef
    <3> HIDE DEF seq
    <3>3. DOMAIN seq = 1 .. Len(seq) /\ Len(seq) \in Nat
      BY <3>2, LenProperties
    <3> QED
      BY <1>3, <3>2, <3>3
  <2>4. Range(seq) = DOMAIN node' \ DOMAIN node
    <3> HIDE DEF seq
    <3>1. Range(seq) = {base + i : i \in 1 .. end}
      BY <2>3 DEF Range
    <3>2. ASSUME NEW n \in DOMAIN node' \ DOMAIN node
          PROVE  n \in {base + i : i \in 1 .. end}
      <4>1. n - base \in 1 .. end /\ n = base + (n - base)
        BY <1>3, <1>4, <2>2
      <4> QED
        BY <4>1
    <3>3. ASSUME NEW i \in 1 .. end
          PROVE  base + i \in DOMAIN node' \ DOMAIN node
      BY <1>3, <1>4, <2>2
    <3> QED
      BY <3>1, <3>2, <3>3
  <2>5. rec \in Header /\ rec.open /\ rec.head = h /\ rec.tail = t
        /\ rec.length = list[l].length + end
    <3>1. Empty \in Header /\ Empty.open
      BY DEF Empty, Header, Ptr
    <3>2. h \in Ptr /\ t \in Ptr
      BY <1>3, <1>4 DEF Ptr
    <3>3. PICK d \in Int : d = list[l].length + end
      <4>1. list[l].length \in Int
        BY <1>4 DEF Header
      <4> QED
        BY <1>3, <4>1
    <3>4. PICK e \in Header : e = Empty
      BY <3>1
    <3> HIDE DEF h, t
    <3>5. /\ Updated(e, h, t, d) \in Header
          /\ Updated(e, h, t, d).head = h /\ Updated(e, h, t, d).tail = t
          /\ Updated(e, h, t, d).length = d /\ Updated(e, h, t, d).open = e.open
      BY <3>2, NewHeader
    <3> QED
      BY <3>1, <3>3, <3>4, <3>5
  <2>6. /\ DOMAIN node \subseteq DOMAIN node'
        /\ loose' \subseteq DOMAIN node' /\ miscounted' \subseteq ListId
        /\ \A m \in ListId \ {new_list} : m \in miscounted' <=> m \in miscounted
        /\ \A n \in DOMAIN node : node'[n] = node[n] /\ (n \in loose' <=> n \in loose)
    <3>1. DOMAIN node \subseteq DOMAIN node'
      BY <1>3, <1>4, <2>2
    <3> QED
      BY <1>4, <2>1, <2>2, <3>1
  <2>7. contents[new_list] = <<>>
    BY <1>5 DEF Sound, TypeOK
  <2>8. new_list \in Good
    BY <1>4, <1>5 DEF Good
  <2> HIDE DEF seq, rec
  <2>9. \A i \in 0 .. end + 1 : At(seq, i) = IF i = 0 \/ i = end + 1 THEN NULL ELSE base + i
    BY <1>3, <2>3 DEF At
  <2>10. CASE l \notin bent
    <3>1. bent' = bent
      BY <2>1, <2>10
    <3>2. \A i, j \in 1 .. end : seq[i] = seq[j] => i = j
      <4> SUFFICES ASSUME NEW i \in 1 .. end, NEW j \in 1 .. end, base + i = base + j
                   PROVE  i = j
        BY <2>3
      <4> QED
        BY <1>3, <1>4
    <3>3. rec.head = At(seq, 1) /\ rec.tail = At(seq, end)
      BY <1>3, <2>5, <2>9
    <3>4. At(seq, 1) \notin loose'
      BY <1>3, <1>4, <2>1, <2>9
    <3>5. ASSUME NEW i \in 1 .. end
          PROVE  /\ ~node'[seq[i]].freed
                 /\ node'[seq[i]].next = At(seq, i + 1)
                 /\ node'[seq[i]].prev = IF seq[i] \in loose' THEN NULL ELSE At(seq, i - 1)
      <4>1. seq[i] = base + i /\ seq[i] \notin loose'
        BY <1>3, <1>4, <2>1, <2>3
      <4>2. At(seq, i + 1) = IF i = end THEN NULL ELSE base + (i + 1)
        BY <1>3, <2>9
      <4>3. At(seq, i - 1) = IF i = 1 THEN NULL ELSE base + (i - 1)
        BY <1>3, <2>9
      <4> QED
        BY <2>2, <4>1, <4>2, <4>3
    <3>6. Chain(node', rec, seq, loose')
      BY <2>3, <3>2, <3>3, <3>4, <3>5 DEF Chain
    <3>7. new_list \notin miscounted' => rec.length = Len(seq)
      BY <1>3, <2>1, <2>3, <2>5
    <3>8. Range(seq) \subseteq Range(contents[new_list]) \cup (DOMAIN node' \ DOMAIN node)
      BY <2>4
    <3>9. \A n \in DOMAIN node \ Range(contents[new_list]) :
             node'[n] = node[n] /\ (n \in loose' <=> n \in loose)
      BY <2>6
    <3>10. Sound(B)'
      BY <2>1, <2>2, <2>3, <2>5, <2>6, <2>8, <3>1, <3>6, <3>7, <3>8, <3>9, GoodStep
    <3> QED
      BY <2>1, <3>10, Kept
  <2>11. CASE l \in bent
    <3>1. PICK W : W = B \cup (DOMAIN node' \ DOMAIN node)
      OBVIOUS
    <3>2. B \subseteq W /\ W \subseteq DOMAIN node'
      BY <1>4, <2>6, <3>1
    <3>3. \A i \in 1 .. end : base + i \in W
      BY <2>3, <2>4, <3>1 DEF Range
    <3>4. Closed(node', W)
      <4> SUFFICES ASSUME NEW n \in W
                   PROVE  node'[n].next \in W \cup {NULL} /\ node'[n].prev \in W \cup {NULL}
        BY DEF Closed
      <4>1. CASE n \in B
        BY <1>4, <2>6, <3>1, <4>1 DEF Closed
      <4>2. CASE n \notin B
        <5>1. PICK i \in 1 .. end : n = base + i
          BY <2>3, <2>4, <3>1, <4>2 DEF Range
        <5>2. node'[n].next \in W \cup {NULL}
          <6>1. CASE i = end
            BY <2>2, <5>1, <6>1
          <6>2. CASE i # end
            <7>1. i + 1 \in 1 .. end
              BY <1>3, <6>2
            <7> QED
              BY <2>2, <3>3, <5>1, <6>2, <7>1
          <6> QED
            BY <6>1, <6>2
        <5>3. node'[n].prev \in W \cup {NULL}
          <6>1. CASE i = 1
            BY <2>2, <5>1, <6>1
          <6>2. CASE i # 1
            <7>1. i - 1 \in 1 .. end
              BY <1>3, <6>2
            <7> QED
              BY <2>2, <3>3, <5>1, <6>2, <7>1
          <6> QED
            BY <6>1, <6>2
        <5> QED
          BY <5>2, <5>3
      <4> QED
        BY <4>1, <4>2
    <3>5. \A m \in Good \ {new_list} : Range(contents[m]) \cap W = {}
      <4> SUFFICES ASSUME NEW m \in Good PROVE Range(contents[m]) \cap W = {}
        OBVIOUS
      <4>1. Range(contents[m]) \subseteq DOMAIN node
        BY ListFacts DEF Good
      <4>2. Range(contents[m]) \cap B = {}
        BY DEF Sound, Apart
      <4> QED
        BY <3>1, <4>1, <4>2
    <3>6. Range(seq) \subseteq W /\ rec.head \in W \cup {NULL} /\ rec.tail \in W \cup {NULL}
      <4>1. end # 0 => 1 \in 1 .. end /\ end \in 1 .. end
        BY <1>3
      <4> QED
        BY <2>4, <2>5, <3>1, <3>3, <4>1
    <3>7. bent' = bent \cup {new_list}
      BY <2>1, <2>11
    <3>8. Bends(new_list, rec, seq, B, W)
      BY <2>1, <2>2, <2>3, <2>5, <2>6, <3>2, <3>4, <3>5, <3>6, <3>7 DEF Bends
    <3>9. Sound(W)'
      BY <3>8, BentStep
    <3> QED
      BY <2>1, <3>9, Kept
  <2> QED
    BY <2>10, <2>11
<1> QED
  BY <1>7, <1>8

\* Chains joined: the last node of c1 and the first of c2 are linked.
LEMMA Joined ==
    ASSUME NEW B, Sound(B), NEW list1 \in Good, NEW list2 \in Good, list1 # list2,
           list[list2].head # NULL, NEW seq, NEW rec,
           seq = contents[list1] \o contents[list2],
           rec.head = IF list[list1].head = NULL THEN list[list2].head ELSE list[list1].head,
           rec.tail = list[list2].tail,
           loose' = loose,
           node' = IF list[list1].head = NULL THEN node
                   ELSE SetPrev(SetNext(node, list[list1].tail, list[list2].head),
                                list[list2].head, list[list1].tail)
    PROVE  /\ Chain(node', rec, seq, loose')
           /\ Len(seq) = Len(contents[list1]) + Len(contents[list2])
<1> DEFINE c1 == contents[list1]
           c2 == contents[list2]
           k1 == Len(c1)
           k2 == Len(c2)
           tail == list[list1].tail
           head == list[list2].head
<1>1. /\ Chain(node, list[list1], c1, loose) /\ Chain(node, list[list2], c2, loose)
      /\ list1 \in ListId /\ list2 \in ListId
      /\ tail \in DOMAIN node \cup {NULL} /\ head \in DOMAIN node \cup {NULL}
  BY GoodFacts
<1>2. /\ k1 \in Nat /\ DOMAIN c1 = 1 .. k1 /\ c1 \in Seq(DOMAIN node)
      /\ \A i \in 1 .. k1 : c1[i] \in DOMAIN node /\ c1[i] # NULL
      /\ Range(c1) = {c1[i] : i \in 1 .. k1}
  BY <1>1, ListFacts
<1>3. /\ k2 \in Nat /\ DOMAIN c2 = 1 .. k2 /\ c2 \in Seq(DOMAIN node)
      /\ \A i \in 1 .. k2 : c2[i] \in DOMAIN node /\ c2[i] # NULL
      /\ Range(c2) = {c2[i] : i \in 1 .. k2}
  BY <1>1, ListFacts
<1>4. node \in Seq(Node) /\ NULL \notin DOMAIN node /\ DOMAIN node \subseteq Nat
  BY StateFacts
<1>5. \A i \in 1 .. k1, j \in 1 .. k2 : c1[i] # c2[j]
  <2>1. Range(c1) \cap Range(c2) = {}
    BY DEF Sound, Chained
  <2> QED
    BY <1>2, <1>3, <2>1
<1>6. /\ seq \in Seq(DOMAIN node) /\ Len(seq) = k1 + k2
      /\ \A j \in 1 .. k1 + k2 : seq[j] = IF j <= k1 THEN c1[j] ELSE c2[j - k1]
  <2>1. /\ c1 \o c2 \in Seq(DOMAIN node) /\ Len(c1 \o c2) = Len(c1) + Len(c2)
        /\ \A j \in 1 .. Len(c1) + Len(c2) : (c1 \o c2)[j] =
              IF j <= Len(c1) THEN c1[j] ELSE c2[j - Len(c1)]
    BY <1>2, <1>3, ConcatProperties
  <2> QED
    BY <2>1
<1>7. DOMAIN seq = 1 .. k1 + k2
  BY <1>6, LenProperties
<1> HIDE DEF c1, c2, k1, k2
<1>8. ASSUME NEW j \in 1 .. k1 + k2
      PROVE  /\ j <= k1 => j \in 1 .. k1 /\ seq[j] = c1[j]
             /\ ~(j <= k1) => j - k1 \in 1 .. k2 /\ seq[j] = c2[j - k1]
  <2>1. k1 \in Nat /\ k2 \in Nat
    BY <1>2, <1>3
  <2>2. seq[j] = IF j <= k1 THEN c1[j] ELSE c2[j - k1]
    BY <1>6
  <2>3. j <= k1 => j \in 1 .. k1
    BY <2>1
  <2>4. ~(j <= k1) => j - k1 \in 1 .. k2
    BY <2>1
  <2> QED
    BY <2>2, <2>3, <2>4
<1>9. \A i, j \in 1 .. k1 + k2 : seq[i] = seq[j] => i = j
  <2> SUFFICES ASSUME NEW i \in 1 .. k1 + k2, NEW j \in 1 .. k1 + k2, seq[i] = seq[j]
               PROVE  i = j
    OBVIOUS
  <2>1. \A x, y \in 1 .. k1 : c1[x] = c1[y] => x = y
    BY <1>1, <1>2 DEF Chain
  <2>2. \A x, y \in 1 .. k2 : c2[x] = c2[y] => x = y
    BY <1>1, <1>3 DEF Chain
  <2>3. CASE j <= k1 /\ i <= k1
    <3>1. i \in 1 .. k1 /\ j \in 1 .. k1 /\ c1[i] = c1[j]
      BY <1>8, <2>3
    <3> QED
      BY <2>1, <3>1
  <2>4. CASE ~(i <= k1) /\ ~(j <= k1)
    <3>1. /\ i - k1 \in 1 .. k2 /\ j - k1 \in 1 .. k2
          /\ c2[i - k1] = c2[j - k1]
      BY <1>8, <2>4
    <3>2. i - k1 = j - k1
      BY <2>2, <3>1
    <3>3. i \in Int /\ j \in Int /\ k1 \in Int
      BY <1>2, <1>3
    <3> QED
      BY <3>2, <3>3
  <2>5. CASE i <= k1 /\ ~(j <= k1)
    <3>1. i \in 1 .. k1 /\ j - k1 \in 1 .. k2 /\ c1[i] = c2[j - k1]
      BY <1>8, <2>5
    <3> QED
      BY <1>5, <3>1
  <2>6. CASE ~(i <= k1) /\ j <= k1
    <3>1. j \in 1 .. k1 /\ i - k1 \in 1 .. k2 /\ c1[j] = c2[i - k1]
      BY <1>8, <2>6
    <3> QED
      BY <1>5, <3>1
  <2> QED
    BY <2>3, <2>4, <2>5, <2>6
<1>10. /\ list[list1].head = At(c1, 1) /\ tail = At(c1, k1)
       /\ head = At(c2, 1) /\ list[list2].tail = At(c2, k2)
       /\ At(c1, 1) \notin loose /\ At(c2, 1) \notin loose
  BY <1>1 DEF Chain, k1, k2
<1>11. k2 # 0 /\ head = c2[1] /\ 1 \in 1 .. k2 /\ k2 \in 1 .. k2
  <2>1. At(c2, 1) # NULL
    BY <1>10
  <2>2. 1 \in 1 .. k2
    BY <1>3, <2>1 DEF At
  <2> QED
    BY <1>3, <1>10, <2>2 DEF At
<1>12. (list[list1].head = NULL <=> k1 = 0) /\ (tail = NULL <=> k1 = 0)
  BY <1>2, <1>10 DEF At
<1>13. \A i \in 0 .. k1 + k2 + 1 :
          At(seq, i) = IF i <= k1 THEN At(c1, i) ELSE At(c2, i - k1)
  <2> SUFFICES ASSUME NEW i \in 0 .. k1 + k2 + 1
               PROVE  At(seq, i) = IF i <= k1 THEN At(c1, i) ELSE At(c2, i - k1)
    OBVIOUS
  <2>0. k1 \in Nat /\ k2 \in Nat
    BY <1>2, <1>3
  <2>1. CASE i <= k1
    <3>1. CASE i = 0
      BY <1>2, <1>7, <2>1, <3>1 DEF At
    <3>2. CASE i # 0
      <4>1. i \in 1 .. k1 + k2
        BY <2>0, <2>1, <3>2
      <4>2. i \in 1 .. k1 /\ seq[i] = c1[i]
        BY <1>8, <2>1, <4>1
      <4> QED
        BY <1>2, <1>7, <2>1, <4>1, <4>2 DEF At
    <3> QED
      BY <3>1, <3>2
  <2>2. CASE ~(i <= k1)
    <3>1. CASE i = k1 + k2 + 1
      <4>1. i - k1 = k2 + 1 /\ i \notin 1 .. k1 + k2 /\ k2 + 1 \notin 1 .. k2
        BY <2>0, <3>1
      <4> QED
        BY <1>3, <1>7, <2>2, <4>1 DEF At
    <3>2. CASE i # k1 + k2 + 1
      <4>1. i \in 1 .. k1 + k2
        BY <2>0, <2>2, <3>2
      <4>2. i - k1 \in 1 .. k2 /\ seq[i] = c2[i - k1]
        BY <1>8, <2>2, <4>1
      <4> QED
        BY <1>3, <1>7, <2>2, <4>1, <4>2 DEF At
    <3> QED
      BY <3>1, <3>2
  <2> QED
    BY <2>1, <2>2
<1>14. /\ \A i \in 1 .. k1 : /\ ~node[c1[i]].freed
                             /\ node[c1[i]].next = At(c1, i + 1)
                             /\ node[c1[i]].prev = IF c1[i] \in loose THEN NULL ELSE At(c1, i - 1)
       /\ \A i \in 1 .. k2 : /\ ~node[c2[i]].freed
                             /\ node[c2[i]].next = At(c2, i + 1)
                             /\ node[c2[i]].prev = IF c2[i] \in loose THEN NULL ELSE At(c2, i - 1)
  BY <1>1, <1>2, <1>3 DEF Chain
<1>15. \A n \in DOMAIN node :
          /\ node'[n].freed = node[n].freed
          /\ node'[n].next = IF k1 # 0 /\ n = tail THEN head ELSE node[n].next
          /\ node'[n].prev = IF k1 # 0 /\ n = head THEN tail ELSE node[n].prev
  <2>1. CASE k1 = 0
    BY <1>12, <2>1
  <2>2. CASE k1 # 0
    <3>1. tail \in Ptr /\ head \in Ptr
      BY <1>1, <1>4 DEF Ptr
    <3>2. node' = SetPrev(SetNext(node, tail, head), head, tail)
      BY <1>12, <2>2
    <3> HIDE DEF tail, head
    <3>3. Relinks(node', node, tail, head, head, tail)
      BY <1>1, <1>4, <3>1, <3>2, Relinked
    <3> QED
      BY <2>2, <3>3 DEF Relinks, Rewired
  <2> QED
    BY <2>1, <2>2
<1> HIDE DEF head, tail
<1>16. \A i \in 1 .. k1 : (c1[i] = tail <=> i = k1) /\ c1[i] # head /\ c1[i] \in DOMAIN node
  <2> SUFFICES ASSUME NEW i \in 1 .. k1
               PROVE  (c1[i] = tail <=> i = k1) /\ c1[i] # head /\ c1[i] \in DOMAIN node
    OBVIOUS
  <2>1. c1[i] # head /\ c1[i] \in DOMAIN node
    BY <1>2, <1>5, <1>11
  <2>2. tail = c1[k1] /\ k1 \in 1 .. k1
    BY <1>2, <1>10 DEF At
  <2>3. \A x, y \in 1 .. k1 : c1[x] = c1[y] => x = y
    BY <1>1, <1>2 DEF Chain
  <2> QED
    BY <2>1, <2>2, <2>3
<1>17. \A i \in 1 .. k2 : (c2[i] = head <=> i = 1) /\ (k1 # 0 => c2[i] # tail) /\ c2[i] \in DOMAIN node
  <2> SUFFICES ASSUME NEW i \in 1 .. k2
               PROVE  (c2[i] = head <=> i = 1) /\ (k1 # 0 => c2[i] # tail) /\ c2[i] \in DOMAIN node
    OBVIOUS
  <2>1. k1 # 0 => tail = c1[k1] /\ k1 \in 1 .. k1
    BY <1>2, <1>10 DEF At
  <2>2. k1 # 0 => c2[i] # tail
    BY <1>5, <2>1
  <2>3. \A x, y \in 1 .. k2 : c2[x] = c2[y] => x = y
    BY <1>1, <1>3 DEF Chain
  <2> QED
    BY <1>3, <1>11, <2>2, <2>3
<1>18. ASSUME NEW j \in 1 .. k1 + k2
       PROVE  /\ ~node'[seq[j]].freed
              /\ node'[seq[j]].next = At(seq, j + 1)
              /\ node'[seq[j]].prev = IF seq[j] \in loose' THEN NULL ELSE At(seq, j - 1)
  <2>0. j + 1 \in 0 .. k1 + k2 + 1 /\ j - 1 \in 0 .. k1 + k2 + 1
    BY <1>2, <1>3
  <2>1. CASE j <= k1
    <3>1. j \in 1 .. k1 /\ seq[j] = c1[j]
      BY <1>8, <2>1
    <3>2. At(seq, j - 1) = At(c1, j - 1)
      BY <1>2, <1>13, <2>0, <2>1
    <3>3. At(seq, j + 1) = IF j = k1 THEN head ELSE At(c1, j + 1)
      <4>1. CASE j = k1
        <5>1. ~(j + 1 <= k1) /\ (j + 1) - k1 = 1
          BY <1>2, <4>1
        <5> QED
          BY <1>10, <1>13, <2>0, <4>1, <5>1
      <4>2. CASE j # k1
        <5>1. j + 1 <= k1
          BY <1>2, <3>1, <4>2
        <5> QED
          BY <1>13, <2>0, <4>2, <5>1
      <4> QED
        BY <4>1, <4>2
    <3>4. k1 # 0
      BY <1>2, <3>1
    <3> QED
      BY <1>14, <1>15, <1>16, <3>1, <3>2, <3>3, <3>4
  <2>2. CASE ~(j <= k1)
    <3>1. j - k1 \in 1 .. k2 /\ seq[j] = c2[j - k1]
      BY <1>8, <2>2
    <3>2. At(seq, j + 1) = At(c2, (j - k1) + 1)
      <4>1. ~(j + 1 <= k1) /\ (j + 1) - k1 = (j - k1) + 1
        BY <1>2, <1>3, <2>2
      <4> QED
        BY <1>13, <2>0, <4>1
    <3>3. At(seq, j - 1) = IF j - k1 = 1 THEN At(c1, k1) ELSE At(c2, (j - k1) - 1)
      <4>1. CASE j - k1 = 1
        <5>1. j - 1 = k1 /\ j - 1 <= k1
          BY <1>2, <1>3, <4>1
        <5> QED
          BY <1>13, <2>0, <4>1, <5>1
      <4>2. CASE j - k1 # 1
        <5>1. ~(j - 1 <= k1) /\ (j - 1) - k1 = (j - k1) - 1
          BY <1>2, <1>3, <2>2, <4>2
        <5> QED
          BY <1>13, <2>0, <4>2, <5>1
      <4> QED
        BY <4>1, <4>2
    <3>4. At(c2, 0) = NULL /\ (k1 = 0 => At(c1, k1) = NULL)
      BY <1>2, <1>3 DEF At
    <3>5. PICK i \in 1 .. k2 : i = j - k1
      BY <3>1
    <3>6. /\ ~node'[c2[i]].freed
          /\ node'[c2[i]].next = At(c2, i + 1)
      BY <1>14, <1>15, <1>17
    <3>7. node'[c2[i]].prev = IF c2[i] \in loose THEN NULL
                              ELSE IF i = 1 THEN At(c1, k1) ELSE At(c2, i - 1)
      <4>1. c2[1] \notin loose
        BY <1>10, <1>11
      <4> QED
        BY <1>10, <1>14, <1>15, <1>17, <3>4, <4>1
    <3> QED
      BY <3>1, <3>2, <3>3, <3>5, <3>6, <3>7
  <2> QED
    BY <2>1, <2>2
<1>19. At(seq, 1) = IF k1 = 0 THEN At(c2, 1) ELSE At(c1, 1)
  BY <1>2, <1>3, <1>13
<1>20. At(seq, k1 + k2) = At(c2, k2)
  <2>1. ~(k1 + k2 <= k1) /\ (k1 + k2) - k1 = k2 /\ k1 + k2 \in 0 .. k1 + k2 + 1
    BY <1>2, <1>3, <1>11
  <2> QED
    BY <1>13, <2>1
<1>21. rec.head = At(seq, 1) /\ rec.tail = At(seq, Len(seq)) /\ At(seq, 1) \notin loose'
  BY <1>6, <1>10, <1>12, <1>19, <1>20 DEF head
<1>22. Chain(node', rec, seq, loose')
  BY <1>6, <1>7, <1>9, <1>18, <1>21 DEF Chain
<1> QED
  BY <1>6, <1>22 DEF c1, c2, k1, k2

LEMMA ConcatStep ==
    ASSUME NEW B, Sound(B), fault = NULL, NEW list1 \in ListId, NEW list2 \in ListId,
           list_concat(list1, list2)
    PROVE  IInv'
<1> DEFINE l1 == list[list1]
           l2 == list[list2]
           rec1 == IF l1.head = NULL THEN l2
                   ELSE Updated(l2, l1.head, l2.tail, l1.length + l2.length)
           rec2 == Updated(l2, NULL, NULL, l2.length)
           seq == contents[list1] \o contents[list2]
<1>1. /\ list1 \in Open /\ list2 \in Open /\ list1 # list2 /\ miscounted = {}
      /\ l1.open /\ l2.open /\ l2.head # NULL
  BY DEF list_concat, Open
<1>2. /\ node \in Seq(Node) /\ NULL \notin DOMAIN node
      /\ list \in [ListId -> Header] /\ contents \in [ListId -> Seq(DOMAIN node)]
      /\ loose \subseteq DOMAIN node /\ bent \subseteq ListId
      /\ B \subseteq DOMAIN node /\ Closed(node, B)
  BY StateFacts
<1>3. PICK R1 : R1 = B \cup Range(contents[list1])
  OBVIOUS
<1>4. PICK R2 : R2 = B \cup Range(contents[list2])
  OBVIOUS
<1>5. Reaches(list1, B, R1) /\ Reaches(list2, B, R2)
  BY <1>3, <1>4, Reach
<1>6. PICK W : W = R1 \cup R2
  OBVIOUS
<1>7. PICK S : S = IF l1.head = NULL THEN {} ELSE {l1.tail, l2.head}
  OBVIOUS
<1>8. PICK bad \in ListId : bad = IF Freed({l1.tail}) THEN list1 ELSE list2
  OBVIOUS
<1>9. CASE Freed(S)
  <2>1. fault' = bad /\ UNCHANGED <<node, list, contents, history>>
    BY <1>7, <1>8, <1>9 DEF list_concat, Reads
  <2>2. bad \in Good => ~Freed(S)
    <3> SUFFICES ASSUME bad \in Good PROVE FALSE
      OBVIOUS
    <3>1. ~Freed({l1.tail})
      BY <1>8, GoodFacts
    <3>2. ~Freed({l2.head})
      BY <1>8, <3>1, GoodFacts
    <3> QED
      BY <1>7, <1>9, <3>1, <3>2 DEF Freed
  <2> QED
    BY <1>9, <2>1, <2>2, Faulted
<1>10. CASE ~Freed(S)
  <2>1. /\ node' = IF l1.head = NULL THEN node
                   ELSE SetPrev(SetNext(node, l1.tail, l2.head), l2.head, l1.tail)
        /\ list' = [list EXCEPT ![list1] = rec1, ![list2] = [l2 EXCEPT !.head = NULL, !.tail = NULL]]
        /\ contents' = [contents EXCEPT ![list1] = seq, ![list2] = <<>>]
        /\ bent' = (bent \ {list2}) \cup IF list2 \in bent THEN {list1} ELSE {}
        /\ miscounted' = (bent \cap {list1}) \cup {list2}
        /\ loose' = loose /\ fault' = fault
    <3>1. PICK h2 \in Header : h2 = l2
      BY <1>2
    <3>2. [h2 EXCEPT !.head = l1.head, !.length = l1.length + l2.length]
             = Updated(h2, l1.head, h2.tail, l1.length + l2.length)
      BY DEF Updated, Header
    <3>3. (IF l1.head = NULL THEN l2 ELSE [l2 EXCEPT !.head = l1.head, !.length = l1.length + l2.length])
             = rec1
      BY <3>1, <3>2
    <3>4. Reads(bad, S,
           /\ node' = IF l1.head = NULL THEN node
                      ELSE SetPrev(SetNext(node, l1.tail, l2.head), l2.head, l1.tail)
           /\ list' = [list EXCEPT
                ![list1] = IF l1.head = NULL THEN l2
                           ELSE [l2 EXCEPT !.head = l1.head,
                                           !.length = l1.length + l2.length],
                ![list2] = [l2 EXCEPT !.head = NULL, !.tail = NULL]]
           /\ contents' = [contents EXCEPT
                ![list1] = contents[list1] \o contents[list2], ![list2] = <<>>]
           /\ bent' = (bent \ {list2}) \cup IF list2 \in bent THEN {list1} ELSE {}
           /\ miscounted' =
                (IF l1.head = NULL THEN miscounted \ ({list1} \ bent) ELSE miscounted)
                \cup (bent \cap {list1})
                \cup {list2} \cup IF list2 \in miscounted THEN {list1} ELSE {}
           /\ UNCHANGED loose)
      BY <1>7, <1>8 DEF list_concat
    <3>5. /\ fault' = fault
          /\ node' = IF l1.head = NULL THEN node
                     ELSE SetPrev(SetNext(node, l1.tail, l2.head), l2.head, l1.tail)
          /\ list' = [list EXCEPT
                ![list1] = IF l1.head = NULL THEN l2
                           ELSE [l2 EXCEPT !.head = l1.head,
                                           !.length = l1.length + l2.length],
                ![list2] = [l2 EXCEPT !.head = NULL, !.tail = NULL]]
          /\ contents' = [contents EXCEPT
                ![list1] = contents[list1] \o contents[list2], ![list2] = <<>>]
          /\ bent' = (bent \ {list2}) \cup IF list2 \in bent THEN {list1} ELSE {}
          /\ miscounted' =
                (IF l1.head = NULL THEN miscounted \ ({list1} \ bent) ELSE miscounted)
                \cup (bent \cap {list1})
                \cup {list2} \cup IF list2 \in miscounted THEN {list1} ELSE {}
          /\ loose' = loose
      BY <1>10, <3>4 DEF Reads
    <3>6. miscounted' = (bent \cap {list1}) \cup {list2}
      BY <1>1, <3>5
    <3> HIDE DEF rec1
    <3> QED
      BY <3>3, <3>5, <3>6
  <2>2. /\ rec1 \in Header /\ rec1.open
        /\ rec1.head = (IF l1.head = NULL THEN l2.head ELSE l1.head)
        /\ rec1.tail = l2.tail
        /\ rec1.length = IF l1.head = NULL THEN l2.length ELSE l1.length + l2.length
    <3>1. PICK h1 \in Header : h1 = l1
      BY <1>2
    <3>2. PICK h2 \in Header : h2 = l2
      BY <1>2
    <3>3. h1.head \in Ptr /\ h2.tail \in Ptr /\ h1.length + h2.length \in Int
      BY DEF Header
    <3>4. /\ Updated(h2, h1.head, h2.tail, h1.length + h2.length) \in Header
          /\ Updated(h2, h1.head, h2.tail, h1.length + h2.length).head = h1.head
          /\ Updated(h2, h1.head, h2.tail, h1.length + h2.length).tail = h2.tail
          /\ Updated(h2, h1.head, h2.tail, h1.length + h2.length).length = h1.length + h2.length
          /\ Updated(h2, h1.head, h2.tail, h1.length + h2.length).open = h2.open
      BY <3>3, NewHeader
    <3> QED
      BY <1>1, <3>1, <3>2, <3>4
  <2>3. PICK e \in Header : /\ e = [l2 EXCEPT !.head = NULL, !.tail = NULL]
                            /\ e.open /\ e.head = NULL /\ e.tail = NULL
    <3>1. PICK h2 \in Header : h2 = l2
      BY <1>2
    <3>2. /\ [h2 EXCEPT !.head = NULL, !.tail = NULL] \in Header
          /\ [h2 EXCEPT !.head = NULL, !.tail = NULL].head = NULL
          /\ [h2 EXCEPT !.head = NULL, !.tail = NULL].tail = NULL
          /\ [h2 EXCEPT !.head = NULL, !.tail = NULL].open = h2.open
      BY DEF Header, Ptr
    <3> QED
      BY <1>1, <3>1, <3>2
  <2> HIDE DEF rec1
  <2>4. /\ list' \in [ListId -> Header] /\ list'[list1] = rec1 /\ list'[list2] = e
        /\ \A m \in ListId \ {list1, list2} : list'[m] = list[m]
    <3>1. list' = [list EXCEPT ![list1] = rec1, ![list2] = e]
      BY <2>1, <2>3
    <3> QED
      BY <1>1, <1>2, <2>2, <2>3, <3>1
  <2>5. /\ seq \in Seq(DOMAIN node) /\ Range(seq) \subseteq Range(contents[list1]) \cup Range(contents[list2])
    <3>1. contents[list1] \in Seq(DOMAIN node) /\ contents[list2] \in Seq(DOMAIN node)
      BY <1>2
    <3>2. seq \in Seq(DOMAIN node)
      BY <3>1, ConcatProperties
    <3>3. \A s1, s2 \in Seq(DOMAIN node) : Range(s1 \o s2) = Range(s1) \cup Range(s2)
      BY RangeConcatenation
    <3> QED
      BY <3>1, <3>2, <3>3
  <2> HIDE DEF seq
  <2>6. PICK L : L = {list1, list2}
    OBVIOUS
  <2>7. DOMAIN node' = DOMAIN node /\ node' \in Seq(Node)
        /\ \A k \in DOMAIN node :
              /\ k \notin W => node'[k] = node[k]
              /\ k \in W => node'[k].next \in W \cup {NULL} /\ node'[k].prev \in W \cup {NULL}
        /\ \A n \in DOMAIN node \ (Range(contents[list1]) \cup Range(contents[list2])) :
              list1 \notin bent /\ list2 \notin bent => node'[n] = node[n]
    <3>1. /\ \A n \in DOMAIN node : n \in W =>
                node[n].next \in W \cup {NULL} /\ node[n].prev \in W \cup {NULL}
          /\ l1.tail \in W \cup {NULL} /\ l2.head \in W \cup {NULL}
          /\ W \subseteq DOMAIN node
      BY <1>5, <1>6 DEF Reaches, Closed
    <3>2. CASE l1.head = NULL
      BY <1>2, <2>1, <3>1, <3>2
    <3>3. CASE l1.head # NULL
      <4>1. PICK a \in DOMAIN node \cup {NULL} : a = l1.tail
        BY <3>1
      <4>2. PICK b \in DOMAIN node \cup {NULL} : b = l2.head
        BY <3>1
      <4>3. a \in Ptr /\ b \in Ptr
        <5>1. DOMAIN node \subseteq Nat
          BY StateFacts
        <5> QED
          BY <5>1 DEF Ptr
      <4>4. Relinks(SetPrev(SetNext(node, a, b), b, a), node, a, b, b, a)
        BY <1>2, <4>3, Relinked
      <4>5. Relinks(node', node, a, b, b, a)
        BY <2>1, <3>3, <4>1, <4>2, <4>4
      <4>6. list1 \notin bent /\ list2 \notin bent =>
               /\ a \in Range(contents[list1]) \cup {NULL}
               /\ b \in Range(contents[list2]) \cup {NULL}
        <5> SUFFICES ASSUME list1 \in Good, list2 \in Good
                     PROVE  /\ a \in Range(contents[list1]) \cup {NULL}
                            /\ b \in Range(contents[list2]) \cup {NULL}
          BY DEF Good
        <5>1. Chain(node, l1, contents[list1], loose) /\ Chain(node, l2, contents[list2], loose)
          BY GoodFacts
        <5> QED
          BY <4>1, <4>2, <5>1 DEF Chain, At, Range
      <4>7. DOMAIN node' = DOMAIN node /\ node' \in Seq(Node)
        BY <4>5 DEF Relinks
      <4>8. \A n \in DOMAIN node : n \notin {a, b} => node'[n] = node[n]
        BY <4>5 DEF Relinks
      <4>9. \A n \in DOMAIN node : /\ node'[n].next \in {node[n].next, b}
                                   /\ node'[n].prev \in {node[n].prev, a}
        BY <4>5 DEF Relinks, Rewired
      <4>10. a \in W \cup {NULL} /\ b \in W \cup {NULL}
        BY <3>1, <4>1, <4>2
      <4>11. \A n \in DOMAIN node : n \notin W => node'[n] = node[n]
        BY <1>2, <4>8, <4>10
      <4>12. \A n \in DOMAIN node : n \in W =>
                node'[n].next \in W \cup {NULL} /\ node'[n].prev \in W \cup {NULL}
        BY <3>1, <4>9, <4>10
      <4>13. \A n \in DOMAIN node \ (Range(contents[list1]) \cup Range(contents[list2])) :
                list1 \notin bent /\ list2 \notin bent => node'[n] = node[n]
        BY <1>2, <4>6, <4>8
      <4> QED
        BY <4>7, <4>11, <4>12, <4>13
    <3> QED
      BY <3>2, <3>3
  <2>8. /\ contents' \in [ListId -> Seq(DOMAIN node')]
        /\ contents'[list1] = seq /\ contents'[list2] = <<>>
        /\ \A m \in ListId \ {list1, list2} : contents'[m] = contents[m]
    <3>1. <<>> \in Seq(DOMAIN node)
      OBVIOUS
    <3> QED
      BY <1>1, <1>2, <2>1, <2>5, <2>7, <3>1
  <2>9. \A m \in ListId \ L : /\ list'[m] = list[m] /\ contents'[m] = contents[m]
                              /\ m \in bent' <=> m \in bent
                              /\ m \in miscounted' <=> m \in miscounted
    BY <1>1, <2>1, <2>4, <2>6, <2>8
  <2>10. /\ L \subseteq ListId /\ DOMAIN node \subseteq DOMAIN node'
         /\ loose' \subseteq DOMAIN node' /\ bent' \subseteq ListId /\ miscounted' \subseteq ListId
    BY <1>2, <2>1, <2>6, <2>7
  <2>11. \A m \in Good \ L : Range(contents[m]) \cap W = {}
    BY <1>5, <1>6, <2>6 DEF Reaches
  <2>12. \A m \in L : list'[m].open
    BY <2>2, <2>3, <2>4, <2>6
  <2>13. /\ Chain(node', list'[list2], contents'[list2], loose')
         /\ Range(contents'[list2]) = {}
         /\ list2 \notin bent' /\ list2 \in miscounted'
    <3>1. NULL \notin loose'
      BY <1>2, <2>1
    <3>2. Chain(node', e, <<>>, loose') /\ Range(<<>>) = {}
      BY <2>3, <3>1, EmptyChain
    <3> QED
      BY <1>1, <2>1, <2>4, <2>8, <3>2
  <2>14. CASE list1 \notin bent'
    <3>1. list1 \in Good /\ list2 \in Good
      BY <1>1, <2>1, <2>14 DEF Good
    <3>2. PICK X : X = Range(contents[list1]) \cup Range(contents[list2])
      OBVIOUS
    <3>3. Chain(node', rec1, seq, loose') /\ Len(seq) = Len(contents[list1]) + Len(contents[list2])
      BY <1>1, <2>1, <2>2, <3>1, Joined DEF seq
    <3>4. \A n \in DOMAIN node \ X : node'[n] = node[n] /\ (n \in loose' <=> n \in loose)
      BY <2>1, <2>7, <3>1, <3>2 DEF Good
    <3>5. \A m \in Good \ L : Range(contents[m]) \cap (X \cup B) = {}
      BY <1>3, <1>4, <1>6, <2>11, <3>2
    <3>6. X \cap B = {}
      BY <3>1, <3>2 DEF Sound, Apart
    <3>7. Closed(node', B)
      BY <1>2, <3>4, <3>6 DEF Closed
    <3>8. list1 \notin miscounted' => list'[list1].length = Len(contents'[list1])
      <4>1. l1.length = Len(contents[list1]) /\ l2.length = Len(contents[list2])
        BY <1>1, <3>1, GoodFacts
      <4>2. Len(contents[list1]) \in Nat /\ Len(contents[list2]) \in Nat
        BY ListFacts
      <4>3. l1.head = NULL => Len(contents[list1]) = 0
        <5>1. Chain(node, l1, contents[list1], loose)
          BY <3>1, GoodFacts
        <5>2. /\ DOMAIN contents[list1] = 1 .. Len(contents[list1])
              /\ \A i \in 1 .. Len(contents[list1]) : contents[list1][i] # NULL
          BY ListFacts
        <5> QED
          BY <4>2, <5>1, <5>2 DEF Chain, At
      <4>4. rec1.length = Len(contents[list1]) + Len(contents[list2])
        <5>1. CASE l1.head = NULL
          <6>1. rec1.length = l2.length
            BY <2>2, <5>1
          <6>2. Len(contents[list1]) = 0 /\ Len(contents[list2]) \in Nat
            BY <4>2, <4>3, <5>1
          <6>3. rec1.length = Len(contents[list2])
            BY <4>1, <6>1
          <6> QED
            BY <6>2, <6>3
        <5>2. CASE l1.head # NULL
          BY <2>2, <4>1, <5>2
        <5> QED
          BY <5>1, <5>2
      <4> QED
        BY <2>4, <2>8, <3>3, <4>4
    <3>9. /\ Range(contents'[list1]) \cap B = {}
          /\ \A m \in ListId \ bent' : list1 # m =>
                Range(contents'[list1]) \cap Range(contents'[m]) = {}
      <4>1. Range(contents'[list1]) \subseteq X
        BY <2>5, <2>8, <3>2
      <4>2. ASSUME NEW m \in ListId \ bent', list1 # m
            PROVE  X \cap Range(contents'[m]) = {}
        <5>1. CASE m = list2
          BY <2>13, <5>1
        <5>2. CASE m # list2
          <6>1. m \in Good \ L
            BY <2>1, <2>6, <4>2, <5>2 DEF Good
          <6> QED
            BY <2>9, <2>6, <3>5, <6>1 DEF Good
        <5> QED
          BY <5>1, <5>2
      <4> QED
        BY <3>6, <4>1, <4>2
    <3>10. \A m \in L \cap bent' : FALSE
      BY <2>6, <2>13, <2>14
    <3>11. \A m \in L : m = list1 \/ m = list2
      BY <2>6
    <3>12. Changes(L, X, B, B)
      BY <1>2, <2>4, <2>7, <2>8, <2>9, <2>10, <2>12, <2>13, <3>3, <3>4, <3>5, <3>7, <3>8, <3>9,
         <3>10, <3>11
      DEF Changes
    <3>13. Sound(B)'
      BY <3>12, Step
    <3> QED
      BY <2>1, <3>13, Kept
  <2>15. CASE list1 \in bent'
    <3>1. \A n \in DOMAIN node \ W : node'[n] = node[n] /\ (n \in loose' <=> n \in loose)
      BY <2>1, <2>7
    <3>2. \A m \in Good \ L : Range(contents[m]) \cap (W \cup W) = {}
      BY <2>11
    <3>3. B \subseteq W /\ W \subseteq DOMAIN node'
      BY <1>3, <1>5, <1>6, <2>7 DEF Reaches
    <3>4. Closed(node', W)
      BY <2>7, <3>3 DEF Closed
    <3>5. \A m \in L \cap bent' : m = list1
      BY <2>6, <2>13
    <3>6. \A m \in L \ bent' : m = list2
      BY <2>6, <2>15
    <3>7. /\ Range(contents'[list1]) \subseteq W
          /\ list'[list1].head \in W \cup {NULL} /\ list'[list1].tail \in W \cup {NULL}
      BY <1>3, <1>4, <1>5, <1>6, <2>2, <2>4, <2>5, <2>8 DEF Reaches
    <3>8. Changes(L, W, B, W)
      BY <2>4, <2>7, <2>8, <2>9, <2>10, <2>12, <2>13, <3>1, <3>2, <3>3, <3>4, <3>5, <3>6, <3>7
      DEF Changes
    <3>9. Sound(W)'
      BY <3>8, Step
    <3> QED
      BY <2>1, <3>9, Kept
  <2> QED
    BY <2>14, <2>15
<1> QED
  BY <1>9, <1>10

(***************************************************************************)
(* The theorems.                                                           *)
(***************************************************************************)

LEMMA InitInvariant == Init => IInv
<1> SUFFICES ASSUME Init PROVE IInv
  OBVIOUS
<1>1. Absent \in Header /\ Absent.head = NULL /\ Absent.tail = NULL /\ Absent.length = 0
  BY EmptyHeaders
<1>2. ~Absent.open
  BY DEF Absent, Empty
<1>3. node = <<>> /\ DOMAIN node = {} /\ node \in Seq(Node)
  BY DEF Init
<1>4. \A l \in ListId : list[l] = Absent /\ contents[l] = <<>> /\ contents[l] \in Seq(DOMAIN node)
  BY DEF Init
<1>5. Open = {}
  BY <1>2, <1>4 DEF Open
<1>6. Range(<<>>) = {} /\ Len(<<>>) = 0
  BY DEF Range
<1>7. TypeOK
  <2>1. list \in [ListId -> Header]
    BY <1>1, <1>4 DEF Init
  <2>2. contents \in [ListId -> Seq(DOMAIN node)]
    BY <1>4 DEF Init
  <2> QED
    BY <1>3, <1>4, <1>5, <2>1, <2>2 DEF Init, TypeOK
<1>8. Chained
  <2>1. PICK rec : rec = Absent
    OBVIOUS
  <2>2. PICK lo : lo = loose
    OBVIOUS
  <2>3. Chain(node, rec, <<>>, lo)
    BY <1>1, <2>1, <2>2, EmptyChain DEF Init
  <2> QED
    BY <1>4, <1>6, <2>1, <2>2, <2>3 DEF Chained, Good
<1>9. Apart({})
  BY <1>4, <1>6 DEF Apart, Closed, Init, Good
<1>10. Counted
  BY <1>1, <1>4, <1>6 DEF Counted, Good
<1>11. Sound({})
  BY <1>7, <1>8, <1>9, <1>10 DEF Sound
<1> QED
  BY <1>11 DEF IInv, Init

LEMMA NextInvariant == IInv /\ [Next]_vars => IInv'
<1> SUFFICES ASSUME IInv, [Next]_vars PROVE IInv'
  OBVIOUS
<1>1. PICK B : Sound(B)
  BY DEF IInv
<1>2. CASE UNCHANGED vars
  <2>1. fault' = fault /\ UNCHANGED <<node, list, contents, history>>
    BY <1>2 DEF vars, history
  <2>2. Sound(B)'
    BY <1>1, <2>1, Idle
  <2>3. fault' \in bent' \cup {NULL}
    BY <2>1 DEF IInv, history
  <2> QED
    BY <2>2, <2>3, Kept
<1>3. CASE Next
  <2>1. fault = NULL
    BY <1>3 DEF Next
  <2>2. PICK l \in ListId :
         \/ list_new(l) \/ list_free(l) \/ list_remove_all(l)
         \/ list_reverse(l) \/ list_foreach(l)
         \/ \E m \in ListId : list_concat(l, m) \/ list_duplicate(l, m)
         \/ \E n \in Range(contents[l]) : list_remove_node(l, n)
         \/ \E data \in Data :
              \/ list_append(l, data) \/ list_append_unique(l, data)
              \/ list_prepend(l, data) \/ list_insert_sorted(l, data)
              \/ list_remove(l, data)
              \/ \E sibling \in Range(contents[l]) :
                    \/ list_insert_before(l, sibling, data)
                    \/ list_insert_after(l, sibling, data)
    BY <1>3 DEF Next
  <2>3. CASE list_new(l)
    BY <1>1, <2>1, <2>3, NewListStep
  <2>4. CASE list_free(l)
    BY <1>1, <2>1, <2>4, FreeStep
  <2>5. CASE list_remove_all(l)
    BY <1>1, <2>1, <2>5, RemoveAllStep
  <2>6. CASE list_reverse(l)
    BY <1>1, <2>1, <2>6, ReverseStep
  <2>7. CASE list_foreach(l)
    BY <1>1, <2>1, <2>7, ForeachStep
  <2>8. CASE \E m \in ListId : list_concat(l, m)
    BY <1>1, <2>1, <2>8, ConcatStep
  <2>9. CASE \E m \in ListId : list_duplicate(l, m)
    BY <1>1, <2>1, <2>9, DuplicateStep
  <2>10. CASE \E n \in Range(contents[l]) : list_remove_node(l, n)
    BY <1>1, <2>1, <2>10, RemoveStep
  <2>11. CASE \E data \in Data : list_append(l, data)
    <3>1. PICK data \in Data : list_append(l, data)
      BY <2>11
    <3>2. l \in Good /\ list[l].open /\ Append1(l, data)
      BY <3>1 DEF list_append, MayGrow, Good
    <3> QED
      BY <1>1, <2>1, <3>2, AppendStep
  <2>12. CASE \E data \in Data : list_append_unique(l, data)
    BY <1>1, <2>1, <2>12, AppendUniqueStep
  <2>13. CASE \E data \in Data : list_prepend(l, data)
    BY <1>1, <2>1, <2>13, PrependStep
  <2>14. CASE \E data \in Data : list_insert_sorted(l, data)
    BY <1>1, <2>1, <2>14, SortedStep
  <2>15. CASE \E data \in Data : list_remove(l, data)
    BY <1>1, <2>1, <2>15, RemoveDataStep
  <2>16. CASE \E data \in Data, sibling \in Range(contents[l]) :
                 list_insert_before(l, sibling, data)
    <3>1. PICK data \in Data, sibling \in Range(contents[l]) :
             list_insert_before(l, sibling, data)
      BY <2>16
    <3>2. l \in Good /\ list[l].open /\ InsertBefore(l, sibling, data)
      BY <3>1 DEF list_insert_before, MayGrow, Good
    <3> QED
      BY <1>1, <2>1, <3>2, BeforeStep
  <2>17. CASE \E data \in Data, sibling \in Range(contents[l]) :
                 list_insert_after(l, sibling, data)
    BY <1>1, <2>1, <2>17, AfterStep
  <2> QED
    BY <2>2, <2>3, <2>4, <2>5, <2>6, <2>7, <2>8, <2>9, <2>10, <2>11, <2>12, <2>13, <2>14, <2>15,
       <2>16, <2>17
<1> QED
  BY <1>2, <1>3

\* The inductive invariant: there are nodes B, closed under the pointers, that
\* hold all the lists that went wrong may reach and none of a good list.
THEOREM Invariant == Spec => []IInv
<1>1. Init => IInv
  BY InitInvariant
<1>2. IInv /\ [Next]_vars => IInv'
  BY NextInvariant
<1> QED
  BY <1>1, <1>2, PTL DEF Spec

\* Every list that no call has spoilt is walked in the order list.h promises,
\* its tail is its last node, and its prevs are right but those of old heads.
THEOREM PromiseKept == Spec => []KeepsPromise
<1>1. IInv => KeepsPromise
  <2> SUFFICES ASSUME IInv, NEW l \in Open \ bent
               PROVE  LET seq == contents[l]
                          at(i) == IF i \in DOMAIN seq THEN seq[i] ELSE NULL
                      IN /\ Walk(l) = seq
                         /\ list[l].tail = at(Len(seq))
                         /\ \A i \in DOMAIN seq :
                               node[seq[i]].prev = IF seq[i] \in loose THEN NULL ELSE at(i - 1)
    BY DEF KeepsPromise
  <2>1. PICK B : Sound(B)
    BY DEF IInv
  <2>2. l \in Good
    BY DEF Open, Good
  <2>3. Walk(l) = contents[l] /\ Chain(node, list[l], contents[l], loose)
    BY <2>1, <2>2, GoodFacts
  <2> QED
    BY <2>3 DEF Chain, At
<1> QED
  BY <1>1, Invariant, PTL

\* list_size of such a list is right unless a call has miscounted it.
THEOREM LengthsRight == Spec => []LengthExact
<1>1. IInv => LengthExact
  BY DEF IInv, Sound, Counted, LengthExact, Open, Good
<1> QED
  BY <1>1, Invariant, PTL

\* No call on a list that is as it should be reads a node that was freed.
THEOREM FreedStaysUnread == Spec => []FreedNodesUnread
<1>1. IInv => FreedNodesUnread
  BY DEF IInv, FreedNodesUnread
<1> QED
  BY <1>1, Invariant, PTL

\* A new node put where it belongs in a list in descending order.
LEMMA SortedAt ==
    ASSUME NEW c, Len(c) \in Nat, NEW c2, NEW p \in 1 .. Len(c) + 1, With(c2, c, p, New),
           Descending(c, node), NEW data \in Int, node'[New].data = data,
           \A i \in 1 .. Len(c) : node[c[i]].data \in Int /\ node'[c[i]].data = node[c[i]].data,
           \A i \in 1 .. p - 1 : node[c[i]].data >= data,
           p <= Len(c) => data >= node[c[p]].data
    PROVE  Descending(c2, node')
<1> DEFINE k == Len(c)
           d(i) == node[c[i]].data
           e(j) == node'[c2[j]].data
<1>1. k \in Nat /\ Len(c2) = k + 1 /\ p \in 1 .. k + 1
  BY DEF With
<1>2. \A j \in 1 .. k + 1 : c2[j] = IF j < p THEN c[j] ELSE IF j = p THEN New ELSE c[j - 1]
  BY DEF With
<1>3. \A i \in 1 .. k : d(i) \in Int
  OBVIOUS
<1>4. \A i \in 1 .. k - 1 : d(i) >= d(i + 1)
  BY DEF Descending
<1>5. \A i \in 1 .. p - 1 : d(i) >= data
  OBVIOUS
<1>6. p <= k => data >= d(p)
  OBVIOUS
<1>7. \A j \in 1 .. k + 1 : e(j) = IF j < p THEN d(j) ELSE IF j = p THEN data ELSE d(j - 1)
  <2> SUFFICES ASSUME NEW j \in 1 .. k + 1
               PROVE  e(j) = IF j < p THEN d(j) ELSE IF j = p THEN data ELSE d(j - 1)
    OBVIOUS
  <2>1. CASE j < p
    <3>1. j \in 1 .. k /\ c2[j] = c[j]
      BY <1>1, <1>2, <2>1
    <3> QED
      BY <2>1, <3>1
  <2>2. CASE j = p
    <3>1. c2[j] = New
      BY <1>1, <1>2, <2>2
    <3> QED
      BY <1>1, <2>2, <3>1
  <2>3. CASE j > p
    <3>1. j - 1 \in 1 .. k /\ c2[j] = c[j - 1]
      BY <1>1, <1>2, <2>3
    <3> QED
      BY <1>1, <2>3, <3>1
  <2> QED
    BY <1>1, <2>1, <2>2, <2>3
<1> HIDE DEF k, d, e
<1>8. ASSUME NEW j \in 1 .. k
      PROVE  e(j) >= e(j + 1)
  <2>0. j \in 1 .. k + 1 /\ j + 1 \in 1 .. k + 1 /\ (j + 1) - 1 = j
    BY <1>1
  <2>1. CASE j + 1 < p
    <3>1. e(j) = d(j) /\ e(j + 1) = d(j + 1) /\ j \in 1 .. k - 1
      BY <1>1, <1>7, <2>0, <2>1
    <3> QED
      BY <1>4, <3>1
  <2>2. CASE j + 1 = p
    <3>1. e(j) = d(j) /\ e(j + 1) = data /\ j \in 1 .. p - 1
      BY <1>1, <1>7, <2>0, <2>2
    <3> QED
      BY <1>5, <3>1
  <2>3. CASE j = p
    <3>1. e(j) = data /\ e(j + 1) = d(p) /\ p <= k
      BY <1>1, <1>7, <2>0, <2>3
    <3> QED
      BY <1>6, <3>1
  <2>4. CASE j > p
    <3>1. e(j) = d(j - 1) /\ e(j + 1) = d(j) /\ j - 1 \in 1 .. k - 1 /\ (j - 1) + 1 = j
      BY <1>1, <1>7, <2>0, <2>4
    <3> QED
      BY <1>4, <3>1
  <2> QED
    BY <1>1, <2>1, <2>2, <2>3, <2>4
<1>9. Len(c2) - 1 = k
  BY <1>1
<1> QED
  BY <1>8, <1>9 DEF Descending, e

LEMMA AppendData ==
    ASSUME NEW B, Sound(B), NEW l \in Good, NEW data \in Data, Append1(l, data)
    PROVE  /\ node'[New].data = data
           /\ \A n \in DOMAIN node : node'[n].data = node[n].data
           /\ contents'[l] = Append(contents[l], New)
<1> DEFINE tail == list[l].tail
           ns == SetNext(node, tail, New)
           cell == Allocated(l, data, NULL, tail)
<1>1. /\ l \in ListId /\ tail \in DOMAIN node \cup {NULL} /\ ~Freed({tail})
  BY GoodFacts
<1>2. /\ node \in Seq(Node) /\ Len(node) \in Nat /\ DOMAIN node = 1 .. Len(node)
      /\ New \in Nat /\ New \notin DOMAIN node
      /\ contents \in [ListId -> Seq(DOMAIN node)]
  BY StateFacts
<1>3. tail \in Ptr /\ NULL \in Ptr /\ New \in Ptr
  BY <1>1, <1>2 DEF Ptr
<1>4. node' = Append(ns, cell) /\ contents' = [contents EXCEPT ![l] = Append(contents[l], New)]
  BY <1>1 DEF Append1, Reads, Holds
<1>5. cell.data = data
  BY DEF Allocated
<1> HIDE DEF tail
<1>6. /\ ns \in Seq(Node) /\ Len(ns) = Len(node) /\ DOMAIN ns = DOMAIN node
      /\ \A m \in DOMAIN node : /\ m # tail => ns[m] = node[m]
                                /\ m = tail => Rewired(ns[m], node[m], New, node[m].prev)
  BY <1>1, <1>2, <1>3, NextSet
<1> HIDE DEF ns
<1>7. /\ \A n \in DOMAIN ns : Append(ns, cell)[n] = ns[n]
      /\ Append(ns, cell)[New] = cell
  BY <1>1, <1>2, <1>3, <1>6, NewNode
<1>8. \A n \in DOMAIN node : ns[n].data = node[n].data
  BY <1>6 DEF Rewired
<1>9. contents'[l] = Append(contents[l], New)
  BY <1>1, <1>2, <1>4
<1> QED
  BY <1>4, <1>5, <1>6, <1>7, <1>8, <1>9

LEMMA BeforeData ==
    ASSUME NEW B, Sound(B), NEW l \in Good, NEW data \in Data,
           NEW n \in Range(contents[l]), InsertBefore(l, n, data)
    PROVE  /\ node'[New].data = data
           /\ \A m \in DOMAIN node : node'[m].data = node[m].data
           /\ contents'[l] = InsertAt(contents[l], Place(l, n), New)
<1> DEFINE prev == node[n].prev
           cell == Allocated(l, data, n, prev)
           ns == Append(node, cell)
<1>1. l \in ListId
  BY GoodFacts
<1>2. /\ node \in Seq(Node) /\ Len(node) \in Nat /\ DOMAIN node = 1 .. Len(node)
      /\ New \in Nat /\ New \notin DOMAIN node /\ DOMAIN node \cup {NULL} \subseteq Ptr
      /\ contents \in [ListId -> Seq(DOMAIN node)]
  BY StateFacts DEF Ptr
<1>3. /\ n \in DOMAIN node /\ prev \in DOMAIN node \cup {NULL} /\ ~Freed({n, prev})
  <2>1. /\ Len(contents[l]) \in Nat
        /\ \A i \in 1 .. Len(contents[l]) : contents[l][i] \in DOMAIN node
        /\ Range(contents[l]) = {contents[l][i] : i \in 1 .. Len(contents[l])}
    BY <1>1, ListFacts
  <2>2. /\ ~Freed(Range(contents[l]))
        /\ \A i \in 1 .. Len(contents[l]) :
              /\ node[contents[l][i]].prev \in DOMAIN node \cup {NULL}
              /\ ~Freed({node[contents[l][i]].prev})
    BY GoodFacts
  <2>3. ~Freed({n}) /\ ~Freed({prev})
    BY <2>1, <2>2 DEF Freed
  <2> QED
    BY <2>1, <2>2, <2>3 DEF Freed
<1>4. /\ node' = SetPrev(SetNext(ns, prev, New), n, New)
      /\ contents' = [contents EXCEPT ![l] = InsertAt(contents[l], Place(l, n), New)]
  BY <1>3 DEF InsertBefore, Reads, Holds
<1>5. cell.data = data
  BY DEF Allocated
<1>6. /\ ns \in Seq(Node) /\ DOMAIN ns = 1 .. New
      /\ \A m \in DOMAIN node : ns[m] = node[m]
      /\ ns[New] = cell
  <2>1. n \in Ptr /\ prev \in Ptr
    BY <1>2, <1>3
  <2> HIDE DEF prev
  <2> QED
    BY <1>1, <1>2, <2>1, NewNode
<1>7. DOMAIN ns = DOMAIN node \cup {New}
  BY <1>2, <1>6 DEF New
<1> HIDE DEF ns, prev, cell
<1>8. Relinks(node', ns, prev, New, n, New)
  <2>1. New \in Ptr /\ prev \in DOMAIN ns \cup {NULL} /\ n \in DOMAIN ns \cup {NULL}
    BY <1>2, <1>3, <1>7 DEF Ptr
  <2> QED
    BY <1>4, <1>6, <2>1, Relinked
<1>9. \A m \in DOMAIN ns : node'[m].data = ns[m].data
  BY <1>8 DEF Relinks, Rewired
<1>10. contents'[l] = InsertAt(contents[l], Place(l, n), New)
  BY <1>1, <1>2, <1>4
<1> QED
  BY <1>5, <1>6, <1>7, <1>9, <1>10

LEMMA SortedInsertion ==
    ASSUME NEW B, Sound(B), NEW l \in Open \ bent, NEW data \in Data,
           Descending(contents[l], node), list_insert_sorted(l, data)
    PROVE  Descending(contents'[l], node')
<1> DEFINE c == contents[l]
           wanted == {m \in DOMAIN node : SortedHere(data, node[m].data)}
           n == Find(l, wanted)
<1>1. l \in Good /\ l \in ListId
  BY DEF Open, Good
<1>2. /\ c \in Seq(DOMAIN node) /\ Len(c) \in Nat
      /\ \A i \in 1 .. Len(c) : c[i] \in DOMAIN node
  BY <1>1, ListFacts
<1>3. /\ node \in Seq(Node) /\ New \in Nat /\ NULL \notin DOMAIN node
      /\ \A m \in DOMAIN node : node[m] \in Node
  BY StateFacts
<1>4. \A m \in DOMAIN node : node[m].data \in Int
  BY <1>3 DEF Node
<1>5. data \in Int
  BY DataAssumption
<1>6. \A m \in DOMAIN node : m \in wanted <=> data > node[m].data
  BY DEF SortedHere
<1>7. \/ n = NULL /\ \A i \in 1 .. Len(c) : c[i] \notin wanted
      \/ n \in Range(c) /\ \E q \in 1 .. Len(c) : FoundAt(c, n, wanted, q)
  BY <1>1, Found
<1>8. IF n = NULL THEN Append1(l, data) ELSE InsertBefore(l, n, data)
  BY DEF list_insert_sorted
<1> HIDE DEF wanted, n
<1>9. c \in Seq(DOMAIN node \cup {New}) /\ New \in DOMAIN node \cup {New}
  BY <1>2, SeqMonotonic
<1>10. CASE n = NULL
  <2>1. Append1(l, data)
    BY <1>8, <1>10
  <2>2. /\ node'[New].data = data
        /\ \A m \in DOMAIN node : node'[m].data = node[m].data
        /\ contents'[l] = Append(c, New)
    BY <1>1, <2>1, AppendData
  <2>3. NULL \notin Range(c)
    BY <1>2, <1>3, RangeOfSeq
  <2>4. \A i \in 1 .. Len(c) : c[i] \notin wanted
    BY <1>7, <1>10, <2>3
  <2>5. PICK p \in 1 .. Len(c) + 1 : p = Len(c) + 1
    BY <1>2
  <2> HIDE DEF c
  <2>6. With(Append(c, New), c, p, New)
    <3>1. /\ Len(Append(c, New)) = Len(c) + 1
          /\ \A i \in 1 .. Len(c) : Append(c, New)[i] = c[i]
          /\ Append(c, New)[Len(c) + 1] = New
      BY <1>9, AppendProperties
    <3> QED
      BY <1>2, <2>5, <3>1 DEF With
  <2>7. \A i \in 1 .. Len(c) : node[c[i]].data >= data
    BY <1>2, <1>4, <1>5, <1>6, <2>4
  <2>8. /\ \A i \in 1 .. Len(c) : node[c[i]].data \in Int /\ node'[c[i]].data = node[c[i]].data
        /\ \A i \in 1 .. p - 1 : node[c[i]].data >= data
        /\ p <= Len(c) => data >= node[c[p]].data
    BY <1>2, <1>4, <2>2, <2>5, <2>7
  <2>9. Descending(c, node)
    BY DEF c
  <2> QED
    BY <1>2, <1>5, <2>2, <2>6, <2>8, <2>9, SortedAt
<1>11. CASE n # NULL
  <2>1. InsertBefore(l, n, data)
    BY <1>8, <1>11
  <2>2. PICK q \in 1 .. Len(c) : FoundAt(c, n, wanted, q)
    BY <1>7, <1>11
  <2>3. n \in Range(c)
    BY <1>7, <1>11
  <2>4. Place(l, n) = q
    <3>1. Between(c, n, Place(l, n))
      BY <1>1, <2>3, Siblings
    <3> QED
      BY <2>2, <3>1 DEF Between, FoundAt
  <2>5. /\ node'[New].data = data
        /\ \A m \in DOMAIN node : node'[m].data = node[m].data
        /\ contents'[l] = InsertAt(c, q, New)
    BY <1>1, <2>1, <2>3, <2>4, BeforeData
  <2>6. PICK p \in 1 .. Len(c) + 1 : p = q
    BY <1>2
  <2> HIDE DEF c
  <2>7. With(InsertAt(c, p, New), c, p, New)
    BY <1>9, InsertedAt
  <2>8. /\ data > node[c[q]].data
        /\ \A i \in 1 .. q - 1 : ~(data > node[c[i]].data)
    <3>1. \A i \in 1 .. q - 1 : i \in 1 .. Len(c)
      BY <1>2
    <3> QED
      BY <1>2, <1>6, <2>2, <3>1 DEF FoundAt
  <2>9. /\ \A i \in 1 .. Len(c) : node[c[i]].data \in Int /\ node'[c[i]].data = node[c[i]].data
        /\ \A i \in 1 .. p - 1 : node[c[i]].data >= data
        /\ p <= Len(c) => data >= node[c[p]].data
    BY <1>2, <1>4, <1>5, <2>5, <2>6, <2>8
  <2>10. Descending(c, node)
    BY DEF c
  <2> QED
    BY <1>2, <1>5, <2>5, <2>6, <2>7, <2>9, <2>10, SortedAt
<1> QED
  BY <1>10, <1>11

\* list_insert_sorted keeps the descending order of a list that is not bent,
\* however it came about; list.h says ascending, which it does not keep.
THEOREM OrderKept == Spec => DescendingKept
<1>1. IInv /\ [Next]_vars =>
         [\A l \in Open \ bent, data \in Data :
             Descending(contents[l], node) /\ list_insert_sorted(l, data)
                => Descending(contents'[l], node')]_vars
  <2> SUFFICES ASSUME IInv, NEW l \in Open \ bent, NEW data \in Data,
                      Descending(contents[l], node), list_insert_sorted(l, data)
               PROVE  Descending(contents'[l], node')
    OBVIOUS
  <2>1. PICK B : Sound(B)
    BY DEF IInv
  <2> QED
    BY <2>1, SortedInsertion
<1> QED
  BY <1>1, Invariant, PTL DEF Spec, DescendingKept
=============================================================================
