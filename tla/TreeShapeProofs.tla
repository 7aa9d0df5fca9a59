-------------------------- MODULE TreeShapeProofs --------------------------
(***************************************************************************)
(* What the operations of tree.cpp do to the shape of a tree, for trees of *)
(* any size: Holds(t, D, pos) says that the nodes D of t are in the order  *)
(* of pos, balanced with exact balances, and threaded to their neighbours; *)
(* searches and walks are right on such a tree, and an insertion keeps it  *)
(* one.  Removal is in TreeProofs.                                         *)
(***************************************************************************)
EXTENDS TreeOps, Numbers, FiniteSetTheorems, TLAPS

(* The balance arithmetic is right for subtrees of any height.              *)

Taller(h, k) == IF h >= k THEN h ELSE k

\* rotate_left: x with subtrees A and (y with B and C) becomes y with subtrees
\* (x with A and B) and C.  The stored balances are the new height differences.
THEOREM RotateLeftHeights ==
    ASSUME NEW hA \in Nat, NEW hB \in Nat, NEW hC \in Nat
    PROVE  LET a == (1 + Taller(hB, hC)) - hA
               b == hC - hB
           IN /\ RotateLeftDown(a, b) = hB - hA
              /\ RotateLeftTop(a, b) = hC - (1 + Taller(hA, hB))
  BY DEF Taller, RotateLeftDown, RotateLeftTop

\* rotate_right, the mirror image: x with subtrees (y with A and B) and C
\* becomes y with subtrees A and (x with B and C).
THEOREM RotateRightHeights ==
    ASSUME NEW hA \in Nat, NEW hB \in Nat, NEW hC \in Nat
    PROVE  LET a == hC - (1 + Taller(hA, hB))
               b == hB - hA
           IN /\ RotateRightDown(a, b) = hC - hB
              /\ RotateRightTop(a, b) = (1 + Taller(hB, hC)) - hA
  BY DEF Taller, RotateRightDown, RotateRightTop

\* tree_node_balance, right-heavy by two: the single rotation when the right
\* child does not lean left ...
THEOREM SingleLeftBalances ==
    ASSUME NEW b \in 0 .. 1
    PROVE  Balanced(RotateLeftTop(2, b)) /\ Balanced(RotateLeftDown(2, b))
  BY DEF Balanced, RotateLeftTop, RotateLeftDown

\* ... and the double one when it does (c is the balance of its left child):
\* all three nodes end up balanced.
THEOREM DoubleLeftBalances ==
    ASSUME NEW c \in -1 .. 1
    PROVE  LET top == RotateRightTop(-1, c)
           IN /\ Balanced(RotateRightDown(-1, c))
              /\ Balanced(RotateLeftTop(2, top))
              /\ Balanced(RotateLeftDown(2, top))
<1>1. CASE c = -1
  BY <1>1 DEF Balanced, RotateLeftTop, RotateLeftDown, RotateRightTop, RotateRightDown
<1>2. CASE c = 0
  BY <1>2 DEF Balanced, RotateLeftTop, RotateLeftDown, RotateRightTop, RotateRightDown
<1>3. CASE c = 1
  BY <1>3 DEF Balanced, RotateLeftTop, RotateLeftDown, RotateRightTop, RotateRightDown
<1> QED
  BY <1>1, <1>2, <1>3

\* Left-heavy by two, the mirror images.
THEOREM SingleRightBalances ==
    ASSUME NEW b \in -1 .. 0
    PROVE  Balanced(RotateRightTop(-2, b)) /\ Balanced(RotateRightDown(-2, b))
  BY DEF Balanced, RotateRightTop, RotateRightDown

\* ... and the double one when the left child leans right.
THEOREM DoubleRightBalances ==
    ASSUME NEW c \in -1 .. 1
    PROVE  LET top == RotateLeftTop(1, c)
           IN /\ Balanced(RotateLeftDown(1, c))
              /\ Balanced(RotateRightTop(-2, top))
              /\ Balanced(RotateRightDown(-2, top))
<1>1. CASE c = -1
  BY <1>1 DEF Balanced, RotateLeftTop, RotateLeftDown, RotateRightTop, RotateRightDown
<1>2. CASE c = 0
  BY <1>2 DEF Balanced, RotateLeftTop, RotateLeftDown, RotateRightTop, RotateRightDown
<1>3. CASE c = 1
  BY <1>3 DEF Balanced, RotateLeftTop, RotateLeftDown, RotateRightTop, RotateRightDown
<1> QED
  BY <1>1, <1>2, <1>3

-----------------------------------------------------------------------------
Node(K, V, L) ==
    [key : K, value : V, left : L, right : L,
     left_child : BOOLEAN, right_child : BOOLEAN, balance : Int]
Trees(D, N, L) == [root : L, node : [D -> N], nnodes : Int]
TreeType(t, D) == \E K, V : t \in Trees(D, Node(K, V, D \cup {NULL}), D \cup {NULL})

\* u is t but for the node n, which is x.
Changed(t, u, n, x) ==
    /\ u.root = t.root /\ u.nnodes = t.nnodes
    /\ u.node[n] = x
    /\ \A m \in DOMAIN t.node \ {n} : u.node[m] = t.node[m]

LEMMA NodeChanged ==
    ASSUME NEW D, NEW N, NEW L, NEW t, t \in Trees(D, N, L),
           NEW n \in D, NEW x \in N, NEW u, u = [t EXCEPT !.node[n] = x]
    PROVE  u \in Trees(D, N, L) /\ Changed(t, u, n, x)
BY DEF Trees, Changed

LEMMA RightChanged ==
    ASSUME NEW K, NEW V, NEW L, NEW x \in Node(K, V, L),
           NEW right \in L, NEW child \in BOOLEAN, NEW b \in Int
    PROVE  [x EXCEPT !.right = right, !.right_child = child, !.balance = b] \in Node(K, V, L)
BY Zenon DEF Node
LEMMA LeftChanged ==
    ASSUME NEW K, NEW V, NEW L, NEW x \in Node(K, V, L),
           NEW left \in L, NEW child \in BOOLEAN, NEW b \in Int
    PROVE  [x EXCEPT !.left = left, !.left_child = child, !.balance = b] \in Node(K, V, L)
BY Zenon DEF Node


-----------------------------------------------------------------------------
(* The shape of a tree: D are its nodes, pos orders them; lo[n] and hi[n]   *)
(* are the nodes between which n's subtree lies, NULL at the ends, and      *)
(* up[n] is n's parent.                                                     *)

\* NULL stands for both ends.
Before(pos, a, b) == a # NULL /\ b # NULL => pos[a] < pos[b]
Adjacent(D, pos, a, b) ==
    \A m \in D : ~((a # NULL => pos[a] < pos[m]) /\ (b # NULL => pos[m] < pos[b]))

LeftPlaced(t, D, pos, lo, hi, up, n) ==
    LET l == t.node[n].left IN
    /\ Before(pos, lo[n], n)
    /\ t.node[n].left_child => l \in D /\ up[l] = n /\ lo[l] = lo[n] /\ hi[l] = n
    /\ ~t.node[n].left_child => l = lo[n] /\ Adjacent(D, pos, l, n)
RightPlaced(t, D, pos, lo, hi, up, n) ==
    LET r == t.node[n].right IN
    /\ Before(pos, n, hi[n])
    /\ t.node[n].right_child => r \in D /\ up[r] = n /\ lo[r] = n /\ hi[r] = hi[n]
    /\ ~t.node[n].right_child => r = hi[n] /\ Adjacent(D, pos, n, r)
Placed(t, D, pos, lo, hi, up, n) ==
    LeftPlaced(t, D, pos, lo, hi, up, n) /\ RightPlaced(t, D, pos, lo, hi, up, n)

Ghosts(D, pos, lo, hi, up) ==
    /\ pos \in [D -> Int] /\ \A m, n \in D : pos[m] = pos[n] => m = n
    /\ lo \in [D -> D \cup {NULL}] /\ hi \in [D -> D \cup {NULL}]
    /\ up \in [D -> D \cup {NULL}]
    /\ NULL \notin D

Rooted(t, D, lo, hi, up) ==
    IF D = {} THEN t.root = NULL
    ELSE t.root \in D /\ lo[t.root] = NULL /\ hi[t.root] = NULL /\ up[t.root] = NULL

Shape(t, D, pos, lo, hi, up) ==
    /\ Ghosts(D, pos, lo, hi, up)
    /\ Rooted(t, D, lo, hi, up)
    /\ \A n \in D : Placed(t, D, pos, lo, hi, up, n)

\* n hangs below p, or is the root when p is NULL.
LeftOf(t, n, p) == t.node[p].left_child /\ t.node[p].left = n
RightOf(t, n, p) == t.node[p].right_child /\ t.node[p].right = n
OnSide(left_node, t, n, p) == p # NULL => (left_node <=> LeftOf(t, n, p))
Below(t, D, n, p) ==
    IF p = NULL THEN t.root = n ELSE p \in D /\ (LeftOf(t, n, p) \/ RightOf(t, n, p))

Sides(x, left, left_child, right, right_child) ==
    /\ x.left = left /\ x.left_child = left_child
    /\ x.right = right /\ x.right_child = right_child

\* In u, where n hung in t below p hangs m.
Linked(t, u, n, m, p) ==
    IF p = NULL THEN u.root = m
    ELSE /\ u.root = t.root
         /\ IF LeftOf(t, n, p)
            THEN Sides(u.node[p], m, TRUE, t.node[p].right, t.node[p].right_child)
            ELSE Sides(u.node[p], t.node[p].left, t.node[p].left_child, m, TRUE)

SameSides(t, u, n) ==
    Sides(u.node[n], t.node[n].left, t.node[n].left_child,
                     t.node[n].right, t.node[n].right_child)

\* u is t with n's subtree rotated, and the node on top linked to the parent p.
TurnedLeft(t, u, D, n, r, p) ==
    /\ Sides(u.node[n], t.node[n].left, t.node[n].left_child,
             IF t.node[r].left_child THEN t.node[r].left ELSE r, t.node[r].left_child)
    /\ Sides(u.node[r], n, TRUE, t.node[r].right, t.node[r].right_child)
    /\ Linked(t, u, n, r, p)
    /\ \A m \in D \ {n, r, p} : SameSides(t, u, m)
    /\ u.node[n].balance = RotateLeftDown(t.node[n].balance, t.node[r].balance)
    /\ u.node[r].balance = RotateLeftTop(t.node[n].balance, t.node[r].balance)
    /\ \A m \in D \ {n, r} : u.node[m].balance = t.node[m].balance
TurnedRight(t, u, D, n, l, p) ==
    /\ Sides(u.node[n], IF t.node[l].right_child THEN t.node[l].right ELSE l,
             t.node[l].right_child, t.node[n].right, t.node[n].right_child)
    /\ Sides(u.node[l], t.node[l].left, t.node[l].left_child, n, TRUE)
    /\ Linked(t, u, n, l, p)
    /\ \A m \in D \ {n, l, p} : SameSides(t, u, m)
    /\ u.node[n].balance = RotateRightDown(t.node[n].balance, t.node[l].balance)
    /\ u.node[l].balance = RotateRightTop(t.node[n].balance, t.node[l].balance)
    /\ \A m \in D \ {n, l} : u.node[m].balance = t.node[m].balance

LEMMA ParentUnique ==
    ASSUME NEW t, NEW D, NEW pos, NEW lo, NEW hi, NEW up, Shape(t, D, pos, lo, hi, up),
           NEW n \in D, NEW p, Below(t, D, n, p)
    PROVE  /\ up[n] = p
           /\ p # NULL => /\ p # n
                          /\ LeftOf(t, n, p) <=> t.node[p].left = n
                          /\ LeftOf(t, n, p) => lo[n] = lo[p] /\ hi[n] = p /\ ~RightOf(t, n, p)
                          /\ ~LeftOf(t, n, p) => hi[n] = hi[p] /\ lo[n] = p /\ RightOf(t, n, p)
<1>1. CASE p = NULL
  BY <1>1 DEF Below, Shape, Ghosts, Rooted
<1>2. CASE p # NULL
  <2>1. /\ p \in D /\ Placed(t, D, pos, lo, hi, up, p) /\ Placed(t, D, pos, lo, hi, up, n)
        /\ pos[n] \in Int /\ pos[p] \in Int /\ n # NULL
    BY <1>2 DEF Below, Shape, Ghosts
  <2>2. LeftOf(t, n, p) => up[n] = p /\ lo[n] = lo[p] /\ hi[n] = p /\ pos[n] < pos[p]
    BY <1>2, <2>1 DEF LeftOf, Placed, LeftPlaced, RightPlaced, Before
  <2>3. RightOf(t, n, p) => up[n] = p /\ lo[n] = p /\ hi[n] = hi[p] /\ pos[p] < pos[n]
    BY <1>2, <2>1 DEF RightOf, Placed, LeftPlaced, RightPlaced, Before
  <2>4. LeftOf(t, n, p) \/ RightOf(t, n, p)
    BY <1>2 DEF Below
  <2>5. ASSUME t.node[p].left = n, ~t.node[p].left_child PROVE FALSE
    <3>1. lo[p] = n /\ pos[n] < pos[p]
      BY <1>2, <2>1, <2>5 DEF Placed, LeftPlaced, Before
    <3>2. RightOf(t, n, p)
      BY <2>4, <2>5 DEF LeftOf
    <3> QED
      BY <2>1, <2>3, <3>1, <3>2
  <2>6. LeftOf(t, n, p) <=> t.node[p].left = n
    BY SMTT(40), <2>5 DEF LeftOf
  <2> QED
    BY <2>1, <2>2, <2>3, <2>4, <2>6
<1> QED
  BY <1>1, <1>2

\* What bounds and parents become when r, the right child of n, takes n's place
\* below p and n becomes its left child.
LoLeft(D, lo, n, r) == [m \in D |-> IF m = r THEN lo[n] ELSE lo[m]]
HiLeft(D, hi, n, r) == [m \in D |-> IF m = n THEN r ELSE hi[m]]
UpLeft(t, D, up, n, r, p) ==
    [m \in D |-> IF m = n THEN r ELSE IF m = r THEN p
                 ELSE IF t.node[r].left_child /\ m = t.node[r].left THEN n ELSE up[m]]

LEMMA TurnLeftShape ==
    ASSUME NEW t, NEW D, NEW pos, NEW lo, NEW hi, NEW up, Shape(t, D, pos, lo, hi, up),
           NEW n \in D, NEW r \in D, t.node[n].right_child, r = t.node[n].right,
           NEW p, Below(t, D, n, p), NEW u, TurnedLeft(t, u, D, n, r, p),
           NEW lo2, lo2 = LoLeft(D, lo, n, r), NEW hi2, hi2 = HiLeft(D, hi, n, r),
           NEW up2, up2 = UpLeft(t, D, up, n, r, p)
    PROVE  Shape(u, D, pos, lo2, hi2, up2)
<1>1. up[n] = p /\ (p # NULL => p # n)
  BY ParentUnique
<1>2. /\ \A m \in D : lo[m] \in D \cup {NULL} /\ hi[m] \in D \cup {NULL} /\ up[m] \in D \cup {NULL}
      /\ NULL \notin D
      /\ \A m \in D : LeftPlaced(t, D, pos, lo, hi, up, m) /\ RightPlaced(t, D, pos, lo, hi, up, m)
  BY DEF Shape, Ghosts, Placed
<1>3. p \in D \cup {NULL}
  BY <1>1, <1>2
<1>4. /\ up[r] = n /\ lo[r] = n /\ hi[r] = hi[n] /\ Before(pos, n, r) /\ Before(pos, r, hi[n])
      /\ Before(pos, lo[n], n) /\ Before(pos, n, hi[n])
  BY <1>2 DEF LeftPlaced, RightPlaced
<1>5. /\ \A m \in D : pos[m] \in Int
      /\ Before(pos, lo[n], r) /\ r # n
  <2>1. \A m \in D : pos[m] \in Int
    BY DEF Shape, Ghosts
  <2> QED
    BY <1>2, <1>4, <2>1 DEF Before
<1>6. r # p
  <2> SUFFICES ASSUME r = p PROVE FALSE
    OBVIOUS
  <2>1. r # NULL /\ (lo[n] = r \/ hi[n] = r)
    BY <1>2, ParentUnique
  <2>2. pos[r] \in Int /\ pos[n] \in Int
    BY <1>5
  <2>3. pos[n] < pos[r]
    BY <1>2, <1>4 DEF Before
  <2>4. lo[n] = r => pos[r] < pos[n]
    BY <1>2, <1>4 DEF Before
  <2>5. hi[n] = r => pos[r] < pos[r]
    BY <1>2, <1>4 DEF Before
  <2> QED
    BY <2>1, <2>2, <2>3, <2>4, <2>5
<1>7. /\ \A m \in D : lo2[m] = IF m = r THEN lo[n] ELSE lo[m]
      /\ \A m \in D : hi2[m] = IF m = n THEN r ELSE hi[m]
      /\ \A m \in D : up2[m] = IF m = n THEN r ELSE IF m = r THEN p
                 ELSE IF t.node[r].left_child /\ m = t.node[r].left THEN n ELSE up[m]
  BY DEF LoLeft, HiLeft, UpLeft
<1>8. Ghosts(D, pos, lo2, hi2, up2)
  <2>1. lo2 \in [D -> D \cup {NULL}]
    BY <1>2 DEF LoLeft
  <2>2. hi2 \in [D -> D \cup {NULL}]
    BY <1>2 DEF HiLeft
  <2>3. up2 \in [D -> D \cup {NULL}]
    BY ZenonT(60), <1>2, <1>3 DEF UpLeft
  <2> QED
    BY <2>1, <2>2, <2>3 DEF Ghosts, Shape
<1>9. /\ lo2[n] = lo[n] /\ hi2[n] = r /\ up2[n] = r
      /\ lo2[r] = lo[n] /\ hi2[r] = hi[n] /\ up2[r] = p
  <2>1. r \in D /\ n \in D /\ r # n /\ hi[r] = hi[n]
    BY Zenon, <1>4, <1>5
  <2>2. lo2[n] = lo[n] /\ lo2[r] = lo[n]
    BY Zenon, <2>1 DEF LoLeft
  <2>3. hi2[n] = r /\ hi2[r] = hi[n]
    BY Zenon, <2>1 DEF HiLeft
  <2>4. up2[n] = r /\ up2[r] = p
    BY Zenon, <2>1 DEF UpLeft
  <2> QED
    BY Zenon, <2>2, <2>3, <2>4
<1>10. ASSUME NEW y \in D, y # n, y # r, up[y] # r
       PROVE  lo2[y] = lo[y] /\ hi2[y] = hi[y] /\ up2[y] = up[y]
  <2>1. ~(t.node[r].left_child /\ y = t.node[r].left)
    BY Zenon, <1>2, <1>10 DEF LeftPlaced
  <2>2. lo2[y] = lo[y]
    BY Zenon, <1>10 DEF LoLeft
  <2>3. hi2[y] = hi[y]
    BY Zenon, <1>10 DEF HiLeft
  <2>4. up2[y] = up[y]
    BY Zenon, <1>10, <2>1 DEF UpLeft
  <2> QED
    BY Zenon, <2>2, <2>3, <2>4
<1>11. LeftPlaced(u, D, pos, lo2, hi2, up2, n)
  <2>1. u.node[n].left = t.node[n].left /\ u.node[n].left_child = t.node[n].left_child
    BY DEF TurnedLeft, Sides
  <2>2. LeftPlaced(t, D, pos, lo, hi, up, n) /\ n \in D /\ n # r /\ lo[n] # n /\ hi[n] # n
    BY <1>2, <1>4, <1>5 DEF Before
  <2> QED
    <3>1. PICK y : y = t.node[n].left
      BY Zenon
    <3>2. ASSUME t.node[n].left_child
          PROVE  y \in D /\ up2[y] = n /\ lo2[y] = lo[n] /\ hi2[y] = n
      <4>1. y \in D /\ up[y] = n /\ lo[y] = lo[n] /\ hi[y] = n
        BY Zenon, <2>2, <3>1, <3>2 DEF LeftPlaced
      <4>2. y # n /\ y # r
        BY Zenon, <1>4, <2>2, <4>1
      <4> QED
        BY Zenon, <1>10, <2>2, <4>1, <4>2
    <3> QED
      BY Zenon, <1>9, <2>1, <2>2, <3>1, <3>2 DEF LeftPlaced
<1>12. RightPlaced(u, D, pos, lo2, hi2, up2, n)
  <2>1. CASE t.node[r].left_child
    <3>1. u.node[n].right = t.node[r].left /\ u.node[n].right_child = t.node[r].left_child
      BY <2>1 DEF TurnedLeft, Sides
    <3>2. LeftPlaced(t, D, pos, lo, hi, up, r) /\ n # r
      BY <1>2, <1>5
    <3>3. hi[r] # r /\ up[n] # r
      BY <1>1, <1>2, <1>4, <1>5, <1>6 DEF Before
    <3>4. PICK x : x = t.node[r].left
      BY ZenonT(60)
    <3>5. x \in D /\ up[x] = r /\ lo[x] = n /\ hi[x] = r /\ x # r /\ x # n
      BY ZenonT(60), <1>1, <1>4, <1>6, <2>1, <3>2, <3>3, <3>4 DEF LeftPlaced
    <3>6. up2[x] = n /\ lo2[x] = n /\ hi2[x] = r /\ hi2[n] = r
      BY ZenonT(60), <1>7, <2>1, <3>4, <3>5
    <3> QED
      BY ZenonT(60), <1>4, <2>1, <3>1, <3>4, <3>5, <3>6 DEF RightPlaced
  <2>2. CASE ~t.node[r].left_child
    <3>1. u.node[n].right = r /\ u.node[n].right_child = t.node[r].left_child
      BY ZenonT(60), <2>2 DEF TurnedLeft, Sides
    <3>2. LeftPlaced(t, D, pos, lo, hi, up, r) /\ n # r
      BY <1>2, <1>5
    <3> QED
      <4>1. hi2[n] = r /\ Before(pos, n, r)
        BY Zenon, <1>4, <1>9
      <4>2. t.node[r].left = n /\ Adjacent(D, pos, n, r)
        BY Zenon, <1>4, <2>2, <3>2 DEF LeftPlaced
      <4> QED
        BY Zenon, <2>2, <3>1, <4>1, <4>2 DEF RightPlaced
  <2> QED
    BY ZenonT(60), <2>1, <2>2
<1>13. LeftPlaced(u, D, pos, lo2, hi2, up2, r)
  <2>1. u.node[r].left = n /\ u.node[r].left_child = TRUE
    BY DEF TurnedLeft, Sides
  <2> QED
    BY Zenon, <1>5, <1>9, <2>1 DEF LeftPlaced
<1>14. RightPlaced(u, D, pos, lo2, hi2, up2, r)
  <2>1. u.node[r].right = t.node[r].right /\ u.node[r].right_child = t.node[r].right_child
    BY DEF TurnedLeft, Sides
  <2>2. RightPlaced(t, D, pos, lo, hi, up, r) /\ LeftPlaced(t, D, pos, lo, hi, up, r) /\ n # r
    BY ZenonT(60), <1>2, <1>5
  <2>3. t.node[r].right_child => t.node[r].right # t.node[r].left \/ ~t.node[r].left_child
    <3>1. hi[r] # r
      BY <1>2, <1>4, <1>5 DEF Before
    <3> QED
      BY ZenonT(60), <2>2, <3>1 DEF LeftPlaced, RightPlaced
  <2>4. up[n] # r
    BY <1>1, <1>6
  <2>5. hi2[r] = hi[r]
    BY <1>7, <2>2
  <2>6. PICK y : y = t.node[r].right
    OBVIOUS
  <2>7. ASSUME t.node[r].right_child
        PROVE  y \in D /\ up2[y] = r /\ lo2[y] = r /\ hi2[y] = hi[r]
    <3>1. y \in D /\ up[y] = r /\ lo[y] = r /\ hi[y] = hi[r]
      BY ZenonT(60), <2>2, <2>6, <2>7 DEF RightPlaced
    <3>2. y # n /\ y # r
      BY <1>4, <2>2, <2>4, <3>1
    <3> QED
      BY Zenon, <1>7, <2>3, <2>6, <2>7, <3>1, <3>2
  <2> QED
    BY Zenon, <2>1, <2>2, <2>5, <2>6, <2>7 DEF RightPlaced
<1>15. ASSUME NEW m \in D, m # n, m # r, ~LeftOf(t, n, m),
              u.node[m].left = t.node[m].left, u.node[m].left_child = t.node[m].left_child
       PROVE  LeftPlaced(u, D, pos, lo2, hi2, up2, m)
  <2>1. PICK y : y = t.node[m].left
    BY Zenon
  <2>0. lo2[m] = lo[m] /\ hi2[m] = hi[m]
    BY Zenon, <1>15 DEF LoLeft, HiLeft
  <2>2. lo2[m] = lo[m] /\ hi2[m] = hi[m] /\ LeftPlaced(t, D, pos, lo, hi, up, m)
    BY Zenon, <1>2, <1>15, <2>0
  <2>3. ASSUME t.node[m].left_child
        PROVE  y \in D /\ up2[y] = m /\ lo2[y] = lo[m] /\ hi2[y] = m
    <3>1. y \in D /\ up[y] = m /\ lo[y] = lo[m] /\ hi[y] = m
      BY Zenon, <2>1, <2>2, <2>3 DEF LeftPlaced
    <3>2. y # n
      BY Zenon, <1>15, <2>1, <2>3 DEF LeftOf
    <3>3. y # r /\ up[y] # r
      BY Zenon, <1>4, <1>15, <3>1
    <3> QED
      BY Zenon, <1>10, <3>1, <3>2, <3>3
  <2> QED
    BY Zenon, <1>15, <2>1, <2>2, <2>3 DEF LeftPlaced
<1>16. ASSUME NEW m \in D, m # n, m # r, ~RightOf(t, n, m),
              u.node[m].right = t.node[m].right, u.node[m].right_child = t.node[m].right_child
       PROVE  RightPlaced(u, D, pos, lo2, hi2, up2, m)
  <2>1. PICK y : y = t.node[m].right
    BY Zenon
  <2>0. lo2[m] = lo[m] /\ hi2[m] = hi[m]
    BY Zenon, <1>16 DEF LoLeft, HiLeft
  <2>2. lo2[m] = lo[m] /\ hi2[m] = hi[m] /\ RightPlaced(t, D, pos, lo, hi, up, m)
    BY Zenon, <1>2, <1>16, <2>0
  <2>3. ASSUME t.node[m].right_child
        PROVE  y \in D /\ up2[y] = m /\ lo2[y] = m /\ hi2[y] = hi[m]
    <3>1. y \in D /\ up[y] = m /\ lo[y] = m /\ hi[y] = hi[m]
      BY Zenon, <2>1, <2>2, <2>3 DEF RightPlaced
    <3>2. y # n
      BY Zenon, <1>16, <2>1, <2>3 DEF RightOf
    <3>3. y # r /\ up[y] # r
      BY Zenon, <1>4, <1>16, <3>1
    <3> QED
      BY Zenon, <1>10, <3>1, <3>2, <3>3
  <2> QED
    BY Zenon, <1>16, <2>1, <2>2, <2>3 DEF RightPlaced
<1>17. ASSUME p # NULL PROVE Placed(u, D, pos, lo2, hi2, up2, p)
  <2>1. p \in D /\ p # n /\ p # r /\ Linked(t, u, n, r, p) /\ up[n] = p
    BY Zenon, <1>1, <1>3, <1>6, <1>17 DEF TurnedLeft
  <2>2. CASE LeftOf(t, n, p)
    <3>1. lo[n] = lo[p] /\ hi[n] = p /\ ~RightOf(t, n, p)
      BY <1>17, <2>2, ParentUnique
    <3>2. Sides(u.node[p], r, TRUE, t.node[p].right, t.node[p].right_child)
      BY Zenon, <1>17, <2>1, <2>2 DEF Linked
    <3>3. LeftPlaced(u, D, pos, lo2, hi2, up2, p)
      <4>0. lo2[p] = lo[p]
        BY Zenon, <2>1 DEF LoLeft
      <4>1. lo2[p] = lo[p] /\ lo2[r] = lo[p] /\ hi2[r] = p /\ up2[r] = p
        BY Zenon, <1>9, <3>1, <4>0
      <4>2. Before(pos, lo[p], p)
        BY Zenon, <1>2, <2>1 DEF LeftPlaced
      <4> QED
        BY Zenon, <3>2, <4>1, <4>2 DEF LeftPlaced, Sides
    <3>4. RightPlaced(u, D, pos, lo2, hi2, up2, p)
      BY Zenon, <1>16, <2>1, <3>1, <3>2 DEF Sides
    <3> QED
      BY <3>3, <3>4 DEF Placed
  <2>3. CASE ~LeftOf(t, n, p)
    <3>1. hi[n] = hi[p] /\ lo[n] = p /\ RightOf(t, n, p)
      BY <1>17, <2>3, ParentUnique
    <3>2. Sides(u.node[p], t.node[p].left, t.node[p].left_child, r, TRUE)
      BY Zenon, <1>17, <2>1, <2>3 DEF Linked
    <3>3. LeftPlaced(u, D, pos, lo2, hi2, up2, p)
      BY Zenon, <1>15, <2>1, <2>3, <3>2 DEF Sides
    <3>4. RightPlaced(u, D, pos, lo2, hi2, up2, p)
      BY <1>2, <1>4, <1>7, <2>1, <3>1, <3>2 DEF RightPlaced, Sides, RightOf
    <3> QED
      BY <3>3, <3>4 DEF Placed
  <2> QED
    BY <2>2, <2>3
<1>18. ASSUME NEW m \in D, m # n, m # r, m # p PROVE Placed(u, D, pos, lo2, hi2, up2, m)
  <2>1. SameSides(t, u, m)
    BY Zenon, <1>18 DEF TurnedLeft
  <2>2. LeftPlaced(u, D, pos, lo2, hi2, up2, m)
    <3>1. ~LeftOf(t, n, m)
      <4>1. LeftPlaced(t, D, pos, lo, hi, up, m)
        BY Zenon, <1>2, <1>18
      <4> QED
        BY Zenon, <1>1, <1>18, <4>1 DEF LeftOf, LeftPlaced
    <3> QED
      BY Zenon, <1>15, <1>18, <2>1, <3>1 DEF SameSides, Sides
  <2>3. RightPlaced(u, D, pos, lo2, hi2, up2, m)
    <3>1. ~RightOf(t, n, m)
      <4>1. RightPlaced(t, D, pos, lo, hi, up, m)
        BY Zenon, <1>2, <1>18
      <4> QED
        BY Zenon, <1>1, <1>18, <4>1 DEF RightOf, RightPlaced
    <3> QED
      BY Zenon, <1>16, <1>18, <2>1, <3>1 DEF SameSides, Sides
  <2> QED
    BY <2>2, <2>3 DEF Placed
<1>19. Rooted(u, D, lo2, hi2, up2)
  <2>1. CASE p = NULL
    <3>1. u.root = r /\ t.root = n
      BY Zenon, <2>1 DEF TurnedLeft, Linked, Below
    <3> QED
      BY SMTT(40), <1>4, <1>5, <1>7, <2>1, <3>1 DEF Rooted, Shape
  <2>2. CASE p # NULL
    <3>1. u.root = t.root /\ t.root # n /\ t.root # r
      BY ZenonT(60), <1>1, <1>2, <1>4, <2>2 DEF Rooted, Shape, TurnedLeft, Linked
    <3>2. t.node[r].left_child => up[t.node[r].left] = r
      BY <1>2 DEF LeftPlaced
    <3> QED
      BY <1>2, <1>7, <3>1, <3>2 DEF Rooted, Shape
  <2> QED
    BY <2>1, <2>2
<1> QED
  BY <1>2, <1>8, <1>11, <1>12, <1>13, <1>14, <1>17, <1>18, <1>19 DEF Shape, Placed

-----------------------------------------------------------------------------
(* What holds on the left holds on the right: Mirror exchanges them.        *)

Mirror(t, D) ==
    [root |-> t.root,
     node |-> [n \in D |->
        [left |-> t.node[n].right, left_child |-> t.node[n].right_child,
         right |-> t.node[n].left, right_child |-> t.node[n].left_child,
         balance |-> -t.node[n].balance]]]
Negated(D, pos) == [n \in D |-> -pos[n]]

LEMMA MirrorNode ==
    ASSUME NEW t, NEW D, NEW n \in D, NEW v, v = Mirror(t, D)
    PROVE  /\ Sides(v.node[n], t.node[n].right, t.node[n].right_child,
                               t.node[n].left, t.node[n].left_child)
           /\ v.node[n].balance = -t.node[n].balance
           /\ v.root = t.root
BY DEF Mirror, Sides

LEMMA MirrorShape ==
    ASSUME NEW t, NEW D, NEW pos, NEW lo, NEW hi, NEW up, Ghosts(D, pos, lo, hi, up),
           NEW v, v = Mirror(t, D), NEW neg, neg = Negated(D, pos)
    PROVE  Shape(t, D, pos, lo, hi, up) <=> Shape(v, D, neg, hi, lo, up)
<1>1. /\ \A n \in D : pos[n] \in Int /\ neg[n] \in Int /\ neg[n] = -pos[n]
      /\ \A n \in D : lo[n] \in D \cup {NULL} /\ hi[n] \in D \cup {NULL}
  BY DEF Ghosts, Negated
<1>2. \A a, b \in D \cup {NULL} : Before(pos, a, b) <=> Before(neg, b, a)
  BY <1>1 DEF Before
<1>3. \A a, b \in D \cup {NULL} : Adjacent(D, pos, a, b) <=> Adjacent(D, neg, b, a)
  BY <1>1 DEF Adjacent
<1>4. ASSUME NEW n \in D
      PROVE  /\ LeftPlaced(t, D, pos, lo, hi, up, n) <=> RightPlaced(v, D, neg, hi, lo, up, n)
             /\ RightPlaced(t, D, pos, lo, hi, up, n) <=> LeftPlaced(v, D, neg, hi, lo, up, n)
  <2>1. Sides(v.node[n], t.node[n].right, t.node[n].right_child,
                         t.node[n].left, t.node[n].left_child)
    BY MirrorNode
  <2>2. lo[n] \in D \cup {NULL} /\ hi[n] \in D \cup {NULL}
    BY <1>1
  <2>3. /\ Before(pos, lo[n], n) <=> Before(neg, n, lo[n])
        /\ Before(pos, n, hi[n]) <=> Before(neg, hi[n], n)
        /\ Adjacent(D, pos, lo[n], n) <=> Adjacent(D, neg, n, lo[n])
        /\ Adjacent(D, pos, n, hi[n]) <=> Adjacent(D, neg, hi[n], n)
    BY <1>2, <1>3, <2>2
  <2> QED
    BY <2>1, <2>3 DEF LeftPlaced, RightPlaced, Sides
<1>5. Ghosts(D, neg, hi, lo, up)
  <2>1. \A m, n \in D : neg[m] = neg[n] => m = n
    <3> TAKE m, n \in D
    <3>1. /\ pos[m] \in Int /\ neg[m] = -pos[m]
          /\ pos[n] \in Int /\ neg[n] = -pos[n]
      BY Zenon, <1>1
    <3>2. neg[m] = neg[n] => pos[m] = pos[n]
      BY <3>1
    <3> QED
      BY Zenon, <3>2 DEF Ghosts
  <2>2. neg \in [D -> Int]
    <3>1. neg = [n \in D |-> neg[n]]
      BY Zenon DEF Negated
    <3> QED
      BY <1>1, <3>1
  <2> QED
    BY <2>1, <2>2 DEF Ghosts
<1>6. v.root = t.root
  BY DEF Mirror
<1>7. Rooted(t, D, lo, hi, up) <=> Rooted(v, D, hi, lo, up)
  BY <1>6 DEF Rooted
<1> QED
  BY <1>4, <1>5, <1>7 DEF Shape, Placed

LEMMA MirrorBelow ==
    ASSUME NEW t, NEW D, NEW n \in D, NEW p, NEW v, v = Mirror(t, D)
    PROVE  /\ Below(t, D, n, p) => Below(v, D, n, p)
           /\ p \in D => (LeftOf(v, n, p) <=> RightOf(t, n, p)) /\ (RightOf(v, n, p) <=> LeftOf(t, n, p))
<1>1. v.root = t.root
  BY DEF Mirror
<1>2. ASSUME p \in D
      PROVE  (LeftOf(v, n, p) <=> RightOf(t, n, p)) /\ (RightOf(v, n, p) <=> LeftOf(t, n, p))
  BY <1>2, MirrorNode DEF LeftOf, RightOf, Sides
<1> QED
  BY <1>1, <1>2 DEF Below

LEMMA MirrorTurn ==
    ASSUME NEW t, NEW D, NEW pos, NEW lo, NEW hi, NEW up, Shape(t, D, pos, lo, hi, up),
           NEW n \in D, NEW l \in D, t.node[n].left_child, l = t.node[n].left,
           NEW p, Below(t, D, n, p), NEW u, TurnedRight(t, u, D, n, l, p),
           \A m \in D : t.node[m].balance \in Int,
           NEW v, v = Mirror(t, D), NEW w, w = Mirror(u, D)
    PROVE  /\ v.node[n].right_child /\ v.node[n].right = l
           /\ Below(v, D, n, p)
           /\ TurnedLeft(v, w, D, n, l, p)
<1>1. Below(v, D, n, p) /\ (p # NULL => p \in D)
  BY MirrorBelow DEF Below
<1>2. v.node[n].right_child /\ v.node[n].right = l
  BY MirrorNode DEF Sides
<1>3. Sides(w.node[n], v.node[n].left, v.node[n].left_child,
             IF v.node[l].left_child THEN v.node[l].left ELSE l, v.node[l].left_child)
  <2>1. /\ Sides(w.node[n], u.node[n].right, u.node[n].right_child, u.node[n].left, u.node[n].left_child)
        /\ Sides(v.node[n], t.node[n].right, t.node[n].right_child, t.node[n].left, t.node[n].left_child)
        /\ Sides(v.node[l], t.node[l].right, t.node[l].right_child, t.node[l].left, t.node[l].left_child)
    BY Zenon, MirrorNode
  <2>2. Sides(u.node[n], IF t.node[l].right_child THEN t.node[l].right ELSE l,
             t.node[l].right_child, t.node[n].right, t.node[n].right_child)
    BY Zenon DEF TurnedRight
  <2>3. CASE t.node[l].right_child
    BY <2>1, <2>2, <2>3 DEF Sides
  <2>4. CASE ~t.node[l].right_child
    BY ZenonT(60), <2>1, <2>2, <2>4 DEF Sides
  <2> QED
    BY <2>3, <2>4
<1>4. Sides(w.node[l], n, TRUE, v.node[l].right, v.node[l].right_child)
  <2>1. /\ Sides(w.node[l], u.node[l].right, u.node[l].right_child, u.node[l].left, u.node[l].left_child)
        /\ Sides(v.node[l], t.node[l].right, t.node[l].right_child, t.node[l].left, t.node[l].left_child)
    BY MirrorNode
  <2>2. Sides(u.node[l], t.node[l].left, t.node[l].left_child, n, TRUE)
    BY Zenon DEF TurnedRight
  <2> QED
    BY <2>1, <2>2 DEF Sides
<1>5. Linked(v, w, n, l, p)
  <2>1. CASE p = NULL
    BY Zenon, <2>1 DEF Linked, TurnedRight, Mirror
  <2>2. CASE p # NULL
    <3>1. p \in D /\ Linked(t, u, n, l, p)
      BY ZenonT(60), <1>1, <2>2 DEF TurnedRight
    <3>2. v.root = t.root /\ w.root = u.root
      BY DEF Mirror
    <3>3. CASE LeftOf(t, n, p)
      <4>1. ~LeftOf(v, n, p)
        BY <2>2, <3>1, <3>3, MirrorBelow, ParentUnique
      <4> QED
        BY <2>2, <3>1, <3>2, <3>3, <4>1, MirrorNode DEF Linked, Sides
    <3>4. CASE ~LeftOf(t, n, p)
      <4>1. LeftOf(v, n, p)
        BY <2>2, <3>1, <3>4, MirrorBelow, ParentUnique
      <4> QED
        BY <2>2, <3>1, <3>2, <3>4, <4>1, MirrorNode DEF Linked, Sides
    <3> QED
      BY ZenonT(60), <3>3, <3>4
  <2> QED
    BY <2>1, <2>2
<1>6. ASSUME NEW m \in D \ {n, l, p} PROVE SameSides(v, w, m)
  <2>1. SameSides(t, u, m)
    BY ZenonT(60) DEF TurnedRight
  <2> QED
    <3>1. /\ Sides(v.node[m], t.node[m].right, t.node[m].right_child, t.node[m].left, t.node[m].left_child)
          /\ Sides(w.node[m], u.node[m].right, u.node[m].right_child, u.node[m].left, u.node[m].left_child)
      <4>1. Sides(v.node[m], t.node[m].right, t.node[m].right_child, t.node[m].left, t.node[m].left_child)
        BY ZenonT(60), MirrorNode
      <4>2. Sides(w.node[m], u.node[m].right, u.node[m].right_child, u.node[m].left, u.node[m].left_child)
        BY ZenonT(60), MirrorNode
      <4> QED
        BY Zenon, <4>1, <4>2
    <3> QED
      BY Zenon, <2>1, <3>1 DEF SameSides, Sides
<1>7. /\ w.node[n].balance = RotateLeftDown(v.node[n].balance, v.node[l].balance)
      /\ w.node[l].balance = RotateLeftTop(v.node[n].balance, v.node[l].balance)
  <2>1. \A a, b \in Int : /\ -RotateRightDown(a, b) = RotateLeftDown(-a, -b)
                          /\ -RotateRightTop(a, b) = RotateLeftTop(-a, -b)
    BY DEF RotateRightDown, RotateRightTop, RotateLeftDown, RotateLeftTop
  <2>2. /\ w.node[n].balance = -u.node[n].balance /\ w.node[l].balance = -u.node[l].balance
        /\ v.node[n].balance = -t.node[n].balance /\ v.node[l].balance = -t.node[l].balance
    BY MirrorNode
  <2>3. /\ u.node[n].balance = RotateRightDown(t.node[n].balance, t.node[l].balance)
        /\ u.node[l].balance = RotateRightTop(t.node[n].balance, t.node[l].balance)
    BY Zenon DEF TurnedRight
  <2> QED
    BY <2>1, <2>2, <2>3
<1>8. ASSUME NEW m \in D \ {n, l} PROVE w.node[m].balance = v.node[m].balance
  <2>1. u.node[m].balance = t.node[m].balance
    BY Zenon DEF TurnedRight
  <2> QED
    BY <2>1, MirrorNode
<1> QED
  BY Zenon, <1>1, <1>2, <1>3, <1>4, <1>5, <1>6, <1>7, <1>8 DEF TurnedLeft

LEMMA TurnLeftKeepsShape ==
    ASSUME NEW t, NEW D, NEW pos, NEW lo, NEW hi, NEW up, Shape(t, D, pos, lo, hi, up),
           NEW n \in D, NEW r \in D, t.node[n].right_child, r = t.node[n].right,
           NEW p, Below(t, D, n, p), NEW u, TurnedLeft(t, u, D, n, r, p)
    PROVE  \E lo2, hi2, up2 : Shape(u, D, pos, lo2, hi2, up2)
<1>1. PICK lo2, hi2, up2 : lo2 = LoLeft(D, lo, n, r) /\ hi2 = HiLeft(D, hi, n, r)
                           /\ up2 = UpLeft(t, D, up, n, r, p)
  OBVIOUS
<1>2. Shape(u, D, pos, lo2, hi2, up2)
  BY <1>1, TurnLeftShape
<1> QED
  BY <1>2

LEMMA TurnRightKeepsShape ==
    ASSUME NEW t, NEW D, NEW pos, NEW lo, NEW hi, NEW up, Shape(t, D, pos, lo, hi, up),
           NEW n \in D, NEW l \in D, t.node[n].left_child, l = t.node[n].left,
           NEW p, Below(t, D, n, p), NEW u, TurnedRight(t, u, D, n, l, p),
           \A m \in D : t.node[m].balance \in Int
    PROVE  \E lo2, hi2, up2 : Shape(u, D, pos, lo2, hi2, up2)
<1>1. PICK v, w, neg : v = Mirror(t, D) /\ w = Mirror(u, D) /\ neg = Negated(D, pos)
  OBVIOUS
<1>2. Shape(v, D, neg, hi, lo, up)
  BY <1>1, MirrorShape DEF Shape
<1>3. v.node[n].right_child /\ v.node[n].right = l /\ Below(v, D, n, p) /\ TurnedLeft(v, w, D, n, l, p)
  BY <1>1, MirrorTurn
<1>4. PICK lo2, hi2, up2 : Shape(w, D, neg, lo2, hi2, up2)
  BY Zenon, <1>2, <1>3, TurnLeftKeepsShape
<1>5. Ghosts(D, pos, hi2, lo2, up2)
  BY <1>4 DEF Shape, Ghosts
<1> QED
  BY <1>1, <1>4, <1>5, MirrorShape

-----------------------------------------------------------------------------
(* Heights: h[n] is the height of n's subtree.                              *)

LeftHeight(t, h, n) == IF t.node[n].left_child THEN h[t.node[n].left] ELSE 0
RightHeight(t, h, n) == IF t.node[n].right_child THEN h[t.node[n].right] ELSE 0
Exact(t, h, n) == t.node[n].balance = RightHeight(t, h, n) - LeftHeight(t, h, n)
Tall(t, h, n) == h[n] = 1 + Taller(LeftHeight(t, h, n), RightHeight(t, h, n))
Level(t, h, n) == Exact(t, h, n) /\ Tall(t, h, n) /\ Balanced(t.node[n].balance)

\* The node below p is m now, and lies where n was.
NewBelow(t, u, h, k, n, m, p) ==
    /\ Below(u, DOMAIN k, m, p)
    /\ p # NULL =>
          /\ LeftOf(u, m, p) <=> LeftOf(t, n, p)
          /\ LeftHeight(u, k, p) = IF LeftOf(t, n, p) THEN k[m] ELSE LeftHeight(t, h, p)
          /\ RightHeight(u, k, p) = IF LeftOf(t, n, p) THEN RightHeight(t, h, p) ELSE k[m]
SameHeights(t, u, h, k, m) ==
    LeftHeight(u, k, m) = LeftHeight(t, h, m) /\ RightHeight(u, k, m) = RightHeight(t, h, m)

LEMMA Children ==
    ASSUME NEW t, NEW D, NEW pos, NEW lo, NEW hi, NEW up, Shape(t, D, pos, lo, hi, up),
           NEW n \in D, NEW l, l = t.node[n].left, NEW r, r = t.node[n].right
    PROVE  /\ t.node[n].left_child =>
                /\ l \in D /\ up[l] = n /\ l # n
                /\ t.node[n].right_child => l # r
                /\ \A p : Below(t, D, n, p) => l # p
           /\ t.node[n].right_child =>
                /\ r \in D /\ up[r] = n /\ r # n
                /\ \A p : Below(t, D, n, p) => r # p
<1>1. /\ NULL \notin D
      /\ \A m \in D : LeftPlaced(t, D, pos, lo, hi, up, m) /\ RightPlaced(t, D, pos, lo, hi, up, m)
      /\ \A m \in D : pos[m] \in Int
  BY DEF Shape, Ghosts, Placed
<1>2. t.node[n].left_child => l \in D /\ up[l] = n /\ lo[l] = lo[n] /\ hi[l] = n /\ pos[l] < pos[n]
  BY <1>1 DEF LeftPlaced, RightPlaced, Before
<1>3. t.node[n].right_child => r \in D /\ up[r] = n /\ lo[r] = n /\ hi[r] = hi[n] /\ pos[n] < pos[r]
  BY <1>1 DEF LeftPlaced, RightPlaced, Before
<1>4. /\ lo[n] # NULL => pos[lo[n]] < pos[n]
      /\ hi[n] # NULL => pos[n] < pos[hi[n]]
  BY <1>1 DEF LeftPlaced, RightPlaced, Before
<1>5. ASSUME NEW p, Below(t, D, n, p), p # NULL
      PROVE  (lo[n] = p /\ hi[n] = hi[p]) \/ (lo[n] = lo[p] /\ hi[n] = p)
  BY <1>5, ParentUnique
<1>6. ASSUME t.node[n].left_child, NEW p, Below(t, D, n, p) PROVE l # p
  <2> SUFFICES ASSUME l = p PROVE FALSE
    OBVIOUS
  <2>1. l # NULL /\ pos[l] \in Int /\ pos[n] \in Int
    BY <1>1, <1>2, <1>6
  <2>2. lo[n] = l \/ hi[n] = l
    BY <1>5, <1>6, <2>1
  <2>3. CASE hi[n] = l
    BY <1>2, <1>4, <1>6, <2>1, <2>3
  <2>4. CASE lo[n] = l
    <3>1. lo[l] = l /\ pos[l] < pos[l]
      BY <1>1, <1>2, <1>6, <2>1, <2>4 DEF LeftPlaced, Before
    <3> QED
      BY <2>1, <3>1
  <2> QED
    BY <2>2, <2>3, <2>4
<1>7. ASSUME t.node[n].right_child, NEW p, Below(t, D, n, p) PROVE r # p
  <2> SUFFICES ASSUME r = p PROVE FALSE
    OBVIOUS
  <2>1. r # NULL /\ pos[r] \in Int /\ pos[n] \in Int
    BY <1>1, <1>3, <1>7
  <2>2. lo[n] = r \/ hi[n] = r
    BY <1>5, <1>7, <2>1
  <2>3. CASE lo[n] = r
    BY <1>3, <1>4, <1>7, <2>1, <2>3
  <2>4. CASE hi[n] = r
    <3>1. hi[r] = r /\ pos[r] < pos[r]
      BY <1>1, <1>3, <1>7, <2>1, <2>4 DEF RightPlaced, Before
    <3> QED
      BY <2>1, <3>1
  <2> QED
    BY <2>2, <2>3, <2>4
<1>8. pos[n] \in Int /\ \A m \in D : pos[m] \in Int
  BY SMTT(40), <1>1
<1> QED
  BY <1>2, <1>3, <1>6, <1>7, <1>8

LEMMA TurnLeftHeights ==
    ASSUME NEW t, NEW D, NEW pos, NEW lo, NEW hi, NEW up, Shape(t, D, pos, lo, hi, up),
           NEW n \in D, NEW r \in D, t.node[n].right_child, r = t.node[n].right,
           NEW p, Below(t, D, n, p), NEW u, TurnedLeft(t, u, D, n, r, p),
           NEW h \in [D -> Nat], Exact(t, h, n), Exact(t, h, r), Tall(t, h, r)
    PROVE  \E k \in [D -> Nat] :
             /\ k[n] = 1 + Taller(LeftHeight(t, h, n), LeftHeight(t, h, r))
             /\ Tall(u, k, n) /\ Exact(u, k, n)
             /\ LeftHeight(u, k, r) = k[n] /\ RightHeight(u, k, r) = RightHeight(t, h, r)
             /\ Tall(u, k, r) /\ Exact(u, k, r)
             /\ \A m \in D \ {n, r} : k[m] = h[m]
             /\ \A m \in D \ {n, r, p} : SameHeights(t, u, h, k, m)
             /\ NewBelow(t, u, h, k, n, r, p)
<1>1. up[n] = p /\ (p # NULL => p # n)
  BY ParentUnique
<1>2. /\ NULL \notin D
      /\ \A m \in D : LeftPlaced(t, D, pos, lo, hi, up, m) /\ RightPlaced(t, D, pos, lo, hi, up, m)
      /\ \A m \in D : pos[m] \in Int
  BY DEF Shape, Ghosts, Placed
<1>3. up[r] = n /\ r # n
  BY Children
<1>4. p # r
  BY Children
<1>5. PICK a, b, c : a = LeftHeight(t, h, n) /\ b = LeftHeight(t, h, r) /\ c = RightHeight(t, h, r)
  BY ZenonT(60)
<1>6. a \in Nat /\ b \in Nat /\ c \in Nat
  BY <1>2, <1>5 DEF LeftPlaced, RightPlaced, LeftHeight, RightHeight
<1>7. PICK low, high : low = 1 + Taller(a, b) /\ high = 1 + Taller(low, c)
  OBVIOUS
<1>8. low \in Nat /\ high \in Nat
  BY <1>6, <1>7 DEF Taller
<1>9. PICK k : k = [m \in D |-> IF m = n THEN low ELSE IF m = r THEN high ELSE h[m]]
  BY Zenon
<1>10. k \in [D -> Nat] /\ k[n] = low /\ k[r] = high /\ \A m \in D \ {n, r} : k[m] = h[m]
  BY <1>3, <1>8, <1>9
<1>11. LeftHeight(u, k, n) = a /\ RightHeight(u, k, n) = b
  <2>1. LeftHeight(u, k, n) = a
    <3>1. u.node[n].left = t.node[n].left /\ u.node[n].left_child = t.node[n].left_child
      BY DEF TurnedLeft, Sides
    <3>2. t.node[n].left_child => t.node[n].left \in D \ {n, r}
      BY SMTT(40), Children
    <3> QED
      BY SMTT(40), <1>5, <1>10, <3>1, <3>2 DEF LeftHeight
  <2>2. CASE t.node[r].left_child
    <3>1. u.node[n].right = t.node[r].left /\ u.node[n].right_child = t.node[r].left_child
      BY <2>2 DEF TurnedLeft, Sides
    <3>2. t.node[r].left \in D /\ t.node[r].left # r /\ up[t.node[r].left] = r
      BY <2>2, Children
    <3>3. t.node[r].left \in D \ {n, r}
      BY <1>1, <1>4, <3>2
    <3> QED
      BY SMTT(40), <1>5, <1>10, <2>1, <2>2, <3>1, <3>3 DEF RightHeight, LeftHeight
  <2>3. CASE ~t.node[r].left_child
    <3>1. u.node[n].right_child = t.node[r].left_child
      BY ZenonT(60) DEF TurnedLeft, Sides
    <3> QED
      BY ZenonT(60), <1>5, <2>1, <2>3, <3>1 DEF RightHeight, LeftHeight
  <2> QED
    BY <2>2, <2>3
<1>12. LeftHeight(u, k, r) = low /\ RightHeight(u, k, r) = c
  <2>1. /\ u.node[r].left = n /\ u.node[r].left_child = TRUE
        /\ u.node[r].right = t.node[r].right /\ u.node[r].right_child = t.node[r].right_child
    BY DEF TurnedLeft, Sides
  <2>2. t.node[r].right_child =>
            t.node[r].right \in D /\ t.node[r].right # r /\ up[t.node[r].right] = r
    BY Children
  <2>3. t.node[r].right_child => t.node[r].right \in D \ {n, r}
    BY <1>1, <1>4, <2>2
  <2> QED
    BY ZenonT(60), <1>5, <1>10, <2>1, <2>3 DEF LeftHeight, RightHeight
<1>13. Exact(u, k, n) /\ Exact(u, k, r)
  <2>1. t.node[r].balance = c - b /\ h[r] = 1 + Taller(b, c)
    BY ZenonT(60), <1>5 DEF Exact, Tall
  <2>2. t.node[n].balance = (1 + Taller(b, c)) - a
    BY <1>5, <2>1 DEF Exact, RightHeight
  <2>3. /\ u.node[n].balance = RotateLeftDown(t.node[n].balance, t.node[r].balance)
        /\ u.node[r].balance = RotateLeftTop(t.node[n].balance, t.node[r].balance)
    BY Zenon DEF TurnedLeft
  <2>4. u.node[n].balance = b - a /\ u.node[r].balance = c - low
    BY <1>6, <1>7, <2>1, <2>2, <2>3, RotateLeftHeights
  <2> QED
    BY <1>11, <1>12, <2>4 DEF Exact
<1>14. Tall(u, k, n) /\ Tall(u, k, r)
  BY <1>7, <1>10, <1>11, <1>12 DEF Tall
<1>15. ASSUME NEW m \in D \ {n, r, p} PROVE SameHeights(t, u, h, k, m)
  <2>1. SameSides(t, u, m)
    BY Zenon DEF TurnedLeft
  <2>2. /\ t.node[m].left_child => t.node[m].left \in D /\ up[t.node[m].left] = m
        /\ t.node[m].right_child => t.node[m].right \in D /\ up[t.node[m].right] = m
    BY Children
  <2>3. /\ t.node[m].left_child => t.node[m].left \in D \ {n, r}
        /\ t.node[m].right_child => t.node[m].right \in D \ {n, r}
    BY <1>1, <1>3, <2>2
  <2> QED
    BY <1>10, <2>1, <2>3 DEF SameHeights, SameSides, Sides, LeftHeight, RightHeight
<1>16. NewBelow(t, u, h, k, n, r, p)
  <2>0. DOMAIN k = D /\ Linked(t, u, n, r, p)
    BY Zenon, <1>10 DEF TurnedLeft
  <2>1. CASE p = NULL
    BY <2>0, <2>1 DEF NewBelow, Below, Linked
  <2>2. CASE p # NULL
    <3>1. p \in D
      BY <2>2 DEF Below
    <3>2. /\ t.node[p].left_child => t.node[p].left \in D /\ up[t.node[p].left] = p
          /\ t.node[p].right_child => t.node[p].right \in D /\ up[t.node[p].right] = p
          /\ t.node[p].left_child /\ t.node[p].right_child => t.node[p].left # t.node[p].right
      BY <3>1, Children
    <3>3. CASE LeftOf(t, n, p)
      <4>1. Sides(u.node[p], r, TRUE, t.node[p].right, t.node[p].right_child)
        BY Zenon, <2>0, <2>2, <3>3 DEF Linked
      <4>2. t.node[p].right_child => t.node[p].right \in D \ {n, r}
        BY <1>1, <1>3, <2>2, <3>2, <3>3 DEF LeftOf
      <4>3. LeftOf(u, r, p) /\ LeftHeight(u, k, p) = k[r]
        BY <4>1 DEF LeftOf, LeftHeight, Sides
      <4>4. RightHeight(u, k, p) = RightHeight(t, h, p)
        BY <1>10, <4>1, <4>2 DEF RightHeight, Sides
      <4> QED
        BY <2>0, <2>2, <3>1, <3>3, <4>3, <4>4 DEF NewBelow, Below
    <3>4. CASE ~LeftOf(t, n, p)
      <4>1. Sides(u.node[p], t.node[p].left, t.node[p].left_child, r, TRUE)
        BY Zenon, <2>0, <2>2, <3>4 DEF Linked
      <4>2. t.node[p].left_child => t.node[p].left \in D \ {n, r}
        BY <1>1, <1>3, <2>2, <3>2, <3>4 DEF LeftOf
      <4>3. RightOf(u, r, p) /\ RightHeight(u, k, p) = k[r]
        BY <4>1 DEF RightOf, RightHeight, Sides
      <4>4. LeftHeight(u, k, p) = LeftHeight(t, h, p) /\ ~LeftOf(u, r, p)
        BY <1>10, <4>1, <4>2 DEF LeftHeight, Sides, LeftOf
      <4> QED
        BY <2>0, <2>2, <3>1, <3>4, <4>3, <4>4 DEF NewBelow, Below
    <3> QED
      BY <3>3, <3>4
  <2> QED
    BY <2>1, <2>2
<1> QED
  BY <1>5, <1>7, <1>10, <1>11, <1>12, <1>13, <1>14, <1>15, <1>16

LEMMA TallerSymmetric ==
    ASSUME NEW a \in Nat, NEW b \in Nat
    PROVE  Taller(a, b) = Taller(b, a) /\ Taller(a, b) \in Nat
BY DEF Taller

LEMMA HeightsNatural ==
    ASSUME NEW t, NEW D, NEW pos, NEW lo, NEW hi, NEW up, Shape(t, D, pos, lo, hi, up),
           NEW h \in [D -> Nat], NEW n \in D
    PROVE  LeftHeight(t, h, n) \in Nat /\ RightHeight(t, h, n) \in Nat
BY Children DEF LeftHeight, RightHeight

LEMMA MirrorHeights ==
    ASSUME NEW t, NEW D, NEW pos, NEW lo, NEW hi, NEW up, Shape(t, D, pos, lo, hi, up),
           NEW n \in D, t.node[n].balance \in Int, NEW h \in [D -> Nat],
           NEW v, v = Mirror(t, D)
    PROVE  /\ LeftHeight(v, h, n) = RightHeight(t, h, n)
           /\ RightHeight(v, h, n) = LeftHeight(t, h, n)
           /\ Exact(v, h, n) <=> Exact(t, h, n)
           /\ Tall(v, h, n) <=> Tall(t, h, n)
<1>1. /\ Sides(v.node[n], t.node[n].right, t.node[n].right_child,
                          t.node[n].left, t.node[n].left_child)
      /\ v.node[n].balance = -t.node[n].balance
  BY MirrorNode
<1>2. LeftHeight(v, h, n) = RightHeight(t, h, n) /\ RightHeight(v, h, n) = LeftHeight(t, h, n)
  BY <1>1 DEF LeftHeight, RightHeight, Sides
<1>3. PICK a, b, c : a = LeftHeight(t, h, n) /\ b = RightHeight(t, h, n) /\ c = t.node[n].balance
  OBVIOUS
<1>4. a \in Nat /\ b \in Nat /\ c \in Int
  BY <1>3, HeightsNatural
<1>5. -c = a - b <=> c = b - a
  BY <1>4
<1>6. Exact(v, h, n) <=> Exact(t, h, n)
  BY <1>1, <1>2, <1>3, <1>5 DEF Exact
<1>7. Tall(v, h, n) <=> Tall(t, h, n)
  BY Zenon, <1>2, <1>3, <1>4, TallerSymmetric DEF Tall
<1> QED
  BY <1>2, <1>6, <1>7

LEMMA TurnRightHeights ==
    ASSUME NEW t, NEW D, NEW pos, NEW lo, NEW hi, NEW up, Shape(t, D, pos, lo, hi, up),
           NEW n \in D, NEW l \in D, t.node[n].left_child, l = t.node[n].left,
           NEW p, Below(t, D, n, p), NEW u, TurnedRight(t, u, D, n, l, p),
           \A m \in D : t.node[m].balance \in Int, \A m \in D : u.node[m].balance \in Int,
           NEW h \in [D -> Nat], Exact(t, h, n), Exact(t, h, l), Tall(t, h, l)
    PROVE  \E k \in [D -> Nat] :
             /\ k[n] = 1 + Taller(RightHeight(t, h, n), RightHeight(t, h, l))
             /\ Tall(u, k, n) /\ Exact(u, k, n)
             /\ RightHeight(u, k, l) = k[n] /\ LeftHeight(u, k, l) = LeftHeight(t, h, l)
             /\ Tall(u, k, l) /\ Exact(u, k, l)
             /\ \A m \in D \ {n, l} : k[m] = h[m]
             /\ \A m \in D \ {n, l, p} : SameHeights(t, u, h, k, m)
             /\ NewBelow(t, u, h, k, n, l, p)
<1>1. PICK v, w, neg : v = Mirror(t, D) /\ w = Mirror(u, D) /\ neg = Negated(D, pos)
  OBVIOUS
<1>2. Shape(v, D, neg, hi, lo, up)
  BY Zenon, <1>1, MirrorShape DEF Shape
<1>3. v.node[n].right_child /\ v.node[n].right = l /\ Below(v, D, n, p) /\ TurnedLeft(v, w, D, n, l, p)
  BY <1>1, MirrorTurn
<1>4. PICK lo2, hi2, up2 : Shape(u, D, pos, lo2, hi2, up2)
  BY Zenon, TurnRightKeepsShape
<1>5. Exact(v, h, n) /\ Exact(v, h, l) /\ Tall(v, h, l)
  BY <1>1, MirrorHeights
<1>6. PICK k \in [D -> Nat] :
             /\ k[n] = 1 + Taller(LeftHeight(v, h, n), LeftHeight(v, h, l))
             /\ Tall(w, k, n) /\ Exact(w, k, n)
             /\ LeftHeight(w, k, l) = k[n] /\ RightHeight(w, k, l) = RightHeight(v, h, l)
             /\ Tall(w, k, l) /\ Exact(w, k, l)
             /\ \A m \in D \ {n, l} : k[m] = h[m]
             /\ \A m \in D \ {n, l, p} : SameHeights(v, w, h, k, m)
             /\ NewBelow(v, w, h, k, n, l, p)
  BY Zenon, <1>2, <1>3, <1>5, TurnLeftHeights
<1>7. ASSUME NEW m \in D
      PROVE  /\ LeftHeight(v, h, m) = RightHeight(t, h, m) /\ RightHeight(v, h, m) = LeftHeight(t, h, m)
             /\ LeftHeight(w, k, m) = RightHeight(u, k, m) /\ RightHeight(w, k, m) = LeftHeight(u, k, m)
             /\ Exact(w, k, m) <=> Exact(u, k, m)
             /\ Tall(w, k, m) <=> Tall(u, k, m)
  BY <1>1, <1>4, MirrorHeights
<1>8. \A m \in D \ {n, l, p} : SameHeights(t, u, h, k, m)
  BY <1>6, <1>7 DEF SameHeights
<1>9. NewBelow(t, u, h, k, n, l, p)
  <2>1. Below(u, D, l, p)
    <3>1. CASE p = NULL
      BY Zenon, <3>1 DEF TurnedRight, Linked, Below
    <3>2. CASE p # NULL
      <4>1. p \in D
        BY <3>2 DEF Below
      <4>2. Linked(t, u, n, l, p)
        BY Zenon DEF TurnedRight
      <4> QED
        BY <3>2, <4>1, <4>2 DEF Linked, Below, LeftOf, RightOf, Sides
    <3> QED
      BY <3>1, <3>2
  <2>2. CASE p = NULL
    BY <2>1, <2>2 DEF NewBelow
  <2>3. CASE p # NULL
    <3>1. p \in D
      BY <2>3 DEF Below
    <3>2. /\ LeftOf(w, l, p) <=> LeftOf(v, n, p)
          /\ LeftHeight(w, k, p) = IF LeftOf(v, n, p) THEN k[l] ELSE LeftHeight(v, h, p)
          /\ RightHeight(w, k, p) = IF LeftOf(v, n, p) THEN RightHeight(v, h, p) ELSE k[l]
      BY <1>6, <2>3 DEF NewBelow
    <3>3. (LeftOf(v, n, p) <=> ~LeftOf(t, n, p)) /\ (LeftOf(w, l, p) <=> ~LeftOf(u, l, p))
      <4>1. LeftOf(v, n, p) <=> RightOf(t, n, p)
        BY <1>1, <3>1, MirrorBelow
      <4>2. LeftOf(w, l, p) <=> RightOf(u, l, p)
        BY <1>1, <3>1, MirrorBelow
      <4>3. RightOf(t, n, p) <=> ~LeftOf(t, n, p)
        BY <2>3, ParentUnique
      <4>4. RightOf(u, l, p) <=> ~LeftOf(u, l, p)
        BY <1>4, <2>1, <2>3, ParentUnique
      <4> QED
        BY <4>1, <4>2, <4>3, <4>4
    <3>4. CASE LeftOf(t, n, p)
      BY <1>6, <1>7, <2>1, <2>3, <3>1, <3>2, <3>3, <3>4 DEF NewBelow
    <3>5. CASE ~LeftOf(t, n, p)
      BY <1>6, <1>7, <2>1, <2>3, <3>1, <3>2, <3>3, <3>5 DEF NewBelow
    <3> QED
      BY <3>4, <3>5
  <2> QED
    BY <2>2, <2>3
<1> QED
  BY <1>6, <1>7, <1>8, <1>9

-----------------------------------------------------------------------------
(* Rotations of the code turn the tree.                                     *)

SameData(t, u, D) ==
    \A m \in D : u.node[m].key = t.node[m].key /\ u.node[m].value = t.node[m].value

LEMMA Fields ==
    ASSUME NEW t, NEW E, TreeType(t, E), NEW n \in E
    PROVE  /\ t.node[n].left \in E \cup {NULL} /\ t.node[n].right \in E \cup {NULL}
           /\ t.node[n].left_child \in BOOLEAN /\ t.node[n].right_child \in BOOLEAN
           /\ t.node[n].balance \in Int /\ t.root \in E \cup {NULL} /\ t.nnodes \in Int
           /\ DOMAIN t.node = E
BY DEF TreeType, Trees, Node

\* The field left or right of one node is replaced.
LEMMA SideChanged ==
    ASSUME NEW K, NEW V, NEW L, NEW x \in Node(K, V, L), NEW m \in L
    PROVE  /\ [x EXCEPT !.left = m] \in Node(K, V, L)
           /\ Sides([x EXCEPT !.left = m], m, x.left_child, x.right, x.right_child)
           /\ [x EXCEPT !.right = m] \in Node(K, V, L)
           /\ Sides([x EXCEPT !.right = m], x.left, x.left_child, m, x.right_child)
           /\ [x EXCEPT !.left = m].balance = x.balance
           /\ [x EXCEPT !.left = m].key = x.key /\ [x EXCEPT !.left = m].value = x.value
           /\ [x EXCEPT !.right = m].balance = x.balance
           /\ [x EXCEPT !.right = m].key = x.key /\ [x EXCEPT !.right = m].value = x.value
BY DEF Node, Sides

\* u is t with m as the child of p on one side, or as the root.
ChildIs(t, u, E, m, p, left_node) ==
    /\ p = NULL => u.root = m /\ \A q \in E : u.node[q] = t.node[q]
    /\ p # NULL =>
         /\ u.root = t.root
         /\ \A q \in E \ {p} : u.node[q] = t.node[q]
         /\ u.node[p].balance = t.node[p].balance
         /\ u.node[p].key = t.node[p].key /\ u.node[p].value = t.node[p].value
         /\ IF left_node
            THEN Sides(u.node[p], m, t.node[p].left_child,
                       t.node[p].right, t.node[p].right_child)
            ELSE Sides(u.node[p], t.node[p].left, t.node[p].left_child,
                       m, t.node[p].right_child)

LEMMA ChildSet ==
    ASSUME NEW t, NEW E, TreeType(t, E), NEW m \in E, NEW p \in E \cup {NULL},
           NEW left_node, NEW u, u = SetChild(t, m, p, left_node)
    PROVE  TreeType(u, E) /\ u.nnodes = t.nnodes /\ ChildIs(t, u, E, m, p, left_node)
<1>1. PICK K, V, L : t \in Trees(E, Node(K, V, L), L) /\ L = E \cup {NULL}
  BY DEF TreeType
<1>2. CASE p = NULL
  <2>1. u = [t EXCEPT !.root = m]
    BY <1>2 DEF SetChild
  <2>2. u \in Trees(E, Node(K, V, L), L) /\ u.root = m /\ u.node = t.node /\ u.nnodes = t.nnodes
    BY Zenon, <1>1, <2>1 DEF Trees
  <2> QED
    BY <1>1, <1>2, <2>2 DEF TreeType, ChildIs
<1>3. CASE p # NULL
  <2>1. PICK x : x = t.node[p] /\ x \in Node(K, V, L) /\ m \in L /\ p \in E
    BY <1>1, <1>3 DEF Trees
  <2>2. PICK y : y = IF left_node THEN [x EXCEPT !.left = m] ELSE [x EXCEPT !.right = m]
    BY Zenon
  <2>3. u = [t EXCEPT !.node[p] = y]
    BY <1>3, <2>1, <2>2 DEF SetChild
  <2>4. y \in Node(K, V, L)
    BY <2>1, <2>2, SideChanged
  <2>5. u \in Trees(E, Node(K, V, L), L) /\ Changed(t, u, p, y) /\ DOMAIN t.node = E
    <3>1. DOMAIN t.node = E
      BY <1>1 DEF Trees
    <3> QED
      BY <1>1, <2>1, <2>3, <2>4, <3>1, NodeChanged
  <2>6. y.balance = x.balance /\ y.key = x.key /\ y.value = x.value
    BY <2>1, <2>2, SideChanged
  <2>7. IF left_node THEN Sides(y, m, x.left_child, x.right, x.right_child)
                     ELSE Sides(y, x.left, x.left_child, m, x.right_child)
    BY <2>1, <2>2, SideChanged
  <2>8. TreeType(u, E)
    BY <1>1, <2>5 DEF TreeType
  <2> QED
    BY <1>3, <2>1, <2>5, <2>6, <2>7, <2>8 DEF Changed, ChildIs
<1> QED
  BY <1>2, <1>3

RotatedLeft(t, u, D, n, r) ==
    /\ u.root = t.root
    /\ Sides(u.node[n], t.node[n].left, t.node[n].left_child,
             IF t.node[r].left_child THEN t.node[r].left ELSE r, t.node[r].left_child)
    /\ u.node[n].balance = RotateLeftDown(t.node[n].balance, t.node[r].balance)
    /\ Sides(u.node[r], n, TRUE, t.node[r].right, t.node[r].right_child)
    /\ u.node[r].balance = RotateLeftTop(t.node[n].balance, t.node[r].balance)
    /\ \A m \in D \ {n, r} : u.node[m] = t.node[m]

LEMMA RotateLeftNodes ==
    ASSUME NEW t, NEW D, TreeType(t, D), NEW n \in D, NEW r \in D, r = t.node[n].right, r # n,
           NEW u, u = RotateLeft(t, n).tree
    PROVE  /\ RotateLeft(t, n).top = r
           /\ TreeType(u, D) /\ u.nnodes = t.nnodes /\ SameData(t, u, D)
           /\ RotatedLeft(t, u, D, n, r)
<1>1. PICK K, V, L : t \in Trees(D, Node(K, V, L), L) /\ L = D \cup {NULL}
  BY DEF TreeType
<1>2. PICK h, k : /\ h = t.node[n] /\ k = t.node[r] /\ h \in Node(K, V, L) /\ k \in Node(K, V, L)
                  /\ DOMAIN t.node = D
  BY Zenon, <1>1 DEF Trees
<1>3. PICK a, b, c, d, e :
          /\ a = IF k.left_child THEN k.left ELSE r
          /\ b = k.left_child
          /\ c = RotateLeftDown(h.balance, k.balance)
          /\ d = RotateLeftTop(h.balance, k.balance)
          /\ e = [t EXCEPT !.node[n] = [h EXCEPT !.right = a, !.right_child = b, !.balance = c]]
  BY Zenon
<1>4. a \in L /\ b \in BOOLEAN /\ c \in Int /\ d \in Int /\ n \in L
  BY <1>1, <1>2, <1>3 DEF Node, RotateLeftDown, RotateLeftTop
<1>5. PICK x, y : /\ x = [h EXCEPT !.right = a, !.right_child = b, !.balance = c]
                  /\ y = [k EXCEPT !.left = n, !.left_child = TRUE, !.balance = d]
  OBVIOUS
<1>6. x \in Node(K, V, L) /\ y \in Node(K, V, L)
  BY Zenon, <1>2, <1>4, <1>5, RightChanged, LeftChanged
<1>7. u = [e EXCEPT !.node[r] = y]
  BY Zenon, <1>2, <1>3, <1>5 DEF RotateLeft
<1>8. e \in Trees(D, Node(K, V, L), L) /\ Changed(t, e, n, x)
  BY <1>1, <1>3, <1>5, <1>6, NodeChanged
<1>9. u \in Trees(D, Node(K, V, L), L) /\ Changed(e, u, r, y)
  BY <1>6, <1>7, <1>8, NodeChanged
<1>10. DOMAIN e.node = D
  BY <1>8 DEF Trees
<1>11. RotateLeft(t, n).top = r
  BY DEF RotateLeft
<1>12. TreeType(u, D)
  BY <1>1, <1>9 DEF TreeType
<1>13. u.root = t.root /\ u.nnodes = t.nnodes /\ u.node[n] = x /\ u.node[r] = y
       /\ \A m \in D \ {n, r} : u.node[m] = t.node[m]
  BY <1>2, <1>8, <1>9, <1>10 DEF Changed
<1>14. /\ Sides(x, h.left, h.left_child, a, b) /\ x.balance = c
       /\ x.key = h.key /\ x.value = h.value
       /\ Sides(y, n, TRUE, k.right, k.right_child) /\ y.balance = d
       /\ y.key = k.key /\ y.value = k.value
  BY <1>2, <1>5 DEF Node, Sides
<1>15. SameData(t, u, D)
  BY <1>2, <1>13, <1>14 DEF SameData
<1> QED
  BY Zenon, <1>2, <1>3, <1>11, <1>12, <1>13, <1>14, <1>15 DEF RotatedLeft

RotatedRight(t, u, D, n, l) ==
    /\ u.root = t.root
    /\ Sides(u.node[n], IF t.node[l].right_child THEN t.node[l].right ELSE l,
             t.node[l].right_child, t.node[n].right, t.node[n].right_child)
    /\ u.node[n].balance = RotateRightDown(t.node[n].balance, t.node[l].balance)
    /\ Sides(u.node[l], t.node[l].left, t.node[l].left_child, n, TRUE)
    /\ u.node[l].balance = RotateRightTop(t.node[n].balance, t.node[l].balance)
    /\ \A m \in D \ {n, l} : u.node[m] = t.node[m]

LEMMA RotateRightNodes ==
    ASSUME NEW t, NEW D, TreeType(t, D), NEW n \in D, NEW l \in D, l = t.node[n].left, l # n,
           NEW u, u = RotateRight(t, n).tree
    PROVE  /\ RotateRight(t, n).top = l
           /\ TreeType(u, D) /\ u.nnodes = t.nnodes /\ SameData(t, u, D)
           /\ RotatedRight(t, u, D, n, l)
<1>1. PICK K, V, L : t \in Trees(D, Node(K, V, L), L) /\ L = D \cup {NULL}
  BY DEF TreeType
<1>2. PICK h, k : /\ h = t.node[n] /\ k = t.node[l] /\ h \in Node(K, V, L) /\ k \in Node(K, V, L)
                  /\ DOMAIN t.node = D
  BY Zenon, <1>1 DEF Trees
<1>3. PICK a, b, c, d, e :
          /\ a = IF k.right_child THEN k.right ELSE l
          /\ b = k.right_child
          /\ c = RotateRightDown(h.balance, k.balance)
          /\ d = RotateRightTop(h.balance, k.balance)
          /\ e = [t EXCEPT !.node[n] = [h EXCEPT !.left = a, !.left_child = b, !.balance = c]]
  BY Zenon
<1>4. a \in L /\ b \in BOOLEAN /\ c \in Int /\ d \in Int /\ n \in L
  BY <1>1, <1>2, <1>3 DEF Node, RotateRightDown, RotateRightTop
<1>5. PICK x, y : /\ x = [h EXCEPT !.left = a, !.left_child = b, !.balance = c]
                  /\ y = [k EXCEPT !.right = n, !.right_child = TRUE, !.balance = d]
  OBVIOUS
<1>6. x \in Node(K, V, L) /\ y \in Node(K, V, L)
  BY Zenon, <1>2, <1>4, <1>5, LeftChanged, RightChanged
<1>7. u = [e EXCEPT !.node[l] = y]
  BY Zenon, <1>2, <1>3, <1>5 DEF RotateRight
<1>8. e \in Trees(D, Node(K, V, L), L) /\ Changed(t, e, n, x)
  BY <1>1, <1>3, <1>5, <1>6, NodeChanged
<1>9. u \in Trees(D, Node(K, V, L), L) /\ Changed(e, u, l, y)
  BY <1>6, <1>7, <1>8, NodeChanged
<1>10. DOMAIN e.node = D
  BY <1>8 DEF Trees
<1>11. RotateRight(t, n).top = l
  BY DEF RotateRight
<1>12. TreeType(u, D)
  BY <1>1, <1>9 DEF TreeType
<1>13. u.root = t.root /\ u.nnodes = t.nnodes /\ u.node[n] = x /\ u.node[l] = y
       /\ \A m \in D \ {n, l} : u.node[m] = t.node[m]
  BY <1>2, <1>8, <1>9, <1>10 DEF Changed
<1>14. /\ Sides(x, a, b, h.right, h.right_child) /\ x.balance = c
       /\ x.key = h.key /\ x.value = h.value
       /\ Sides(y, k.left, k.left_child, n, TRUE) /\ y.balance = d
       /\ y.key = k.key /\ y.value = k.value
  BY <1>2, <1>5 DEF Node, Sides
<1>15. SameData(t, u, D)
  BY <1>2, <1>13, <1>14 DEF SameData
<1> QED
  BY Zenon, <1>2, <1>3, <1>11, <1>12, <1>13, <1>14, <1>15 DEF RotatedRight

\* A rotation, and linking the node on top, is a turn.
LEMMA RotateLeftTurns ==
    ASSUME NEW t, NEW E, TreeType(t, E), NEW D, D \subseteq E,
           NEW pos, NEW lo, NEW hi, NEW up, Shape(t, D, pos, lo, hi, up),
           NEW n \in D, t.node[n].right_child, NEW p, Below(t, D, n, p),
           NEW left_node, OnSide(left_node, t, n, p),
           NEW r, r = t.node[n].right,
           NEW u, u = SetChild(RotateLeft(t, n).tree, r, p, left_node)
    PROVE  /\ RotateLeft(t, n).top = r /\ r \in D /\ TurnedLeft(t, u, D, n, r, p)
           /\ TreeType(u, E) /\ SameData(t, u, E) /\ u.nnodes = t.nnodes
           /\ \A m \in E \ D : u.node[m] = t.node[m]
<1>1. n \in E /\ r \in D /\ r \in E /\ r # n /\ r # p /\ p \in E \cup {NULL} /\ (p # NULL => p \in D /\ p # n)
  BY Children, ParentUnique DEF Below
<1>2. PICK v : v = RotateLeft(t, n).tree
  OBVIOUS
<1>3. /\ RotateLeft(t, n).top = r
      /\ TreeType(v, E) /\ v.nnodes = t.nnodes /\ SameData(t, v, E)
      /\ RotatedLeft(t, v, E, n, r)
  BY <1>1, <1>2, RotateLeftNodes
<1>4. TreeType(u, E) /\ u.nnodes = v.nnodes /\ ChildIs(v, u, E, r, p, left_node)
  <2>1. u = SetChild(v, r, p, left_node) /\ TreeType(v, E)
    BY <1>2, <1>3
  <2>2. r \in E /\ p \in E \cup {NULL}
    BY <1>1
  <2>3. ASSUME NEW w, w = SetChild(v, r, p, left_node)
        PROVE  TreeType(w, E) /\ w.nnodes = v.nnodes /\ ChildIs(v, w, E, r, p, left_node)
    BY <2>1, <2>2, <2>3, ChildSet
  <2> QED
    BY <2>1, <2>3
<1>5. /\ p = NULL => u.root = r
      /\ p # NULL => u.root = t.root
      /\ u.node[n] = v.node[n] /\ u.node[r] = v.node[r]
      /\ \A m \in E \ {n, r, p} : u.node[m] = t.node[m]
      /\ p # NULL => v.node[p] = t.node[p]
  BY ZenonT(60), <1>1, <1>3, <1>4 DEF ChildIs, RotatedLeft
<1>6. Linked(t, u, n, r, p)
  <2>1. CASE p = NULL
    BY <1>5, <2>1 DEF Linked
  <2>2. CASE p # NULL
    <3>1. LeftOf(t, n, p) => t.node[p].left_child = TRUE
      BY <1>1, <2>2, Fields DEF LeftOf
    <3>2. ~LeftOf(t, n, p) => t.node[p].right_child = TRUE
      <4>1. t.node[p].right_child \in BOOLEAN
        BY <1>1, <2>2, Fields
      <4>2. ~LeftOf(t, n, p) => t.node[p].right_child
        BY <2>2, ParentUnique DEF RightOf
      <4> QED
        BY <4>1, <4>2
    <3>3. IF left_node
          THEN Sides(u.node[p], r, t.node[p].left_child, t.node[p].right, t.node[p].right_child)
          ELSE Sides(u.node[p], t.node[p].left, t.node[p].left_child, r, t.node[p].right_child)
      BY Zenon, <1>4, <1>5, <2>2 DEF ChildIs
    <3> QED
      BY Zenon, <1>5, <2>2, <3>1, <3>2, <3>3 DEF Linked, OnSide
  <2> QED
    BY <2>1, <2>2
<1>7. \A m \in D \ {n, r, p} : SameSides(t, u, m)
  BY <1>5 DEF SameSides, Sides
<1>8. p # NULL => /\ u.node[p].balance = t.node[p].balance
                  /\ u.node[p].key = t.node[p].key /\ u.node[p].value = t.node[p].value
  BY Zenon, <1>4, <1>5 DEF ChildIs
<1>9. \A m \in D \ {n, r} : u.node[m].balance = t.node[m].balance
  <2> SUFFICES ASSUME NEW m \in D \ {n, r} PROVE u.node[m].balance = t.node[m].balance
    OBVIOUS
  <2>1. NULL \notin D
    BY DEF Shape, Ghosts
  <2> QED
    BY <1>5, <1>8, <2>1
<1>10. SameData(t, u, E)
  <2> SUFFICES ASSUME NEW m \in E PROVE u.node[m].key = t.node[m].key /\ u.node[m].value = t.node[m].value
    BY DEF SameData
  <2>1. CASE p # NULL /\ m = p
    BY <1>8, <2>1
  <2>2. CASE p = NULL \/ m # p
    <3>1. u.node[m] = v.node[m]
      BY <1>4, <2>2 DEF ChildIs
    <3> QED
      BY <1>3, <3>1 DEF SameData
  <2> QED
    BY <2>1, <2>2
<1>11. \A m \in E \ D : u.node[m] = t.node[m]
  <2> SUFFICES ASSUME NEW m \in E \ D PROVE u.node[m] = t.node[m]
    OBVIOUS
  <2>1. m # n /\ m # r /\ (p # NULL => m # p)
    BY ZenonT(60), <1>1
  <2>2. v.node[m] = t.node[m]
    BY ZenonT(60), <1>3, <2>1 DEF RotatedLeft
  <2> QED
    BY <1>4, <2>1, <2>2 DEF ChildIs
<1>12. TurnedLeft(t, u, D, n, r, p)
  <2>1. u.node[n] = v.node[n] /\ u.node[r] = v.node[r]
    BY <1>5
  <2> QED
    BY Zenon, <1>3, <1>6, <1>7, <1>9, <2>1 DEF TurnedLeft, RotatedLeft
<1> QED
  BY <1>1, <1>3, <1>4, <1>10, <1>11, <1>12
LEMMA RotateRightTurns ==
    ASSUME NEW t, NEW E, TreeType(t, E), NEW D, D \subseteq E,
           NEW pos, NEW lo, NEW hi, NEW up, Shape(t, D, pos, lo, hi, up),
           NEW n \in D, t.node[n].left_child, NEW p, Below(t, D, n, p),
           NEW left_node, OnSide(left_node, t, n, p),
           NEW l, l = t.node[n].left,
           NEW u, u = SetChild(RotateRight(t, n).tree, l, p, left_node)
    PROVE  /\ RotateRight(t, n).top = l /\ l \in D /\ TurnedRight(t, u, D, n, l, p)
           /\ TreeType(u, E) /\ SameData(t, u, E) /\ u.nnodes = t.nnodes
           /\ \A m \in E \ D : u.node[m] = t.node[m]
<1>1. n \in E /\ l \in D /\ l \in E /\ l # n /\ l # p /\ p \in E \cup {NULL} /\ (p # NULL => p \in D /\ p # n)
  BY Children, ParentUnique DEF Below
<1>2. PICK v : v = RotateRight(t, n).tree
  OBVIOUS
<1>3. /\ RotateRight(t, n).top = l
      /\ TreeType(v, E) /\ v.nnodes = t.nnodes /\ SameData(t, v, E)
      /\ RotatedRight(t, v, E, n, l)
  BY <1>1, <1>2, RotateRightNodes
<1>4. TreeType(u, E) /\ u.nnodes = v.nnodes /\ ChildIs(v, u, E, l, p, left_node)
  <2>1. u = SetChild(v, l, p, left_node) /\ TreeType(v, E)
    BY <1>2, <1>3
  <2>2. l \in E /\ p \in E \cup {NULL}
    BY <1>1
  <2>3. ASSUME NEW w, w = SetChild(v, l, p, left_node)
        PROVE  TreeType(w, E) /\ w.nnodes = v.nnodes /\ ChildIs(v, w, E, l, p, left_node)
    BY <2>1, <2>2, <2>3, ChildSet
  <2> QED
    BY <2>1, <2>3
<1>5. /\ p = NULL => u.root = l
      /\ p # NULL => u.root = t.root
      /\ u.node[n] = v.node[n] /\ u.node[l] = v.node[l]
      /\ \A m \in E \ {n, l, p} : u.node[m] = t.node[m]
      /\ p # NULL => v.node[p] = t.node[p]
  BY ZenonT(60), <1>1, <1>3, <1>4 DEF ChildIs, RotatedRight
<1>6. Linked(t, u, n, l, p)
  <2>1. CASE p = NULL
    BY <1>5, <2>1 DEF Linked
  <2>2. CASE p # NULL
    <3>1. LeftOf(t, n, p) => t.node[p].left_child = TRUE
      BY <1>1, <2>2, Fields DEF LeftOf
    <3>2. ~LeftOf(t, n, p) => t.node[p].right_child = TRUE
      <4>1. t.node[p].right_child \in BOOLEAN
        BY <1>1, <2>2, Fields
      <4>2. ~LeftOf(t, n, p) => t.node[p].right_child
        BY <2>2, ParentUnique DEF RightOf
      <4> QED
        BY <4>1, <4>2
    <3>3. IF left_node
          THEN Sides(u.node[p], l, t.node[p].left_child, t.node[p].right, t.node[p].right_child)
          ELSE Sides(u.node[p], t.node[p].left, t.node[p].left_child, l, t.node[p].right_child)
      BY ZenonT(60), <1>4, <1>5, <2>2 DEF ChildIs
    <3> QED
      BY Zenon, <1>5, <2>2, <3>1, <3>2, <3>3 DEF Linked, OnSide
  <2> QED
    BY <2>1, <2>2
<1>7. \A m \in D \ {n, l, p} : SameSides(t, u, m)
  BY <1>5 DEF SameSides, Sides
<1>8. p # NULL => /\ u.node[p].balance = t.node[p].balance
                  /\ u.node[p].key = t.node[p].key /\ u.node[p].value = t.node[p].value
  BY Zenon, <1>4, <1>5 DEF ChildIs
<1>9. \A m \in D \ {n, l} : u.node[m].balance = t.node[m].balance
  <2> SUFFICES ASSUME NEW m \in D \ {n, l} PROVE u.node[m].balance = t.node[m].balance
    OBVIOUS
  <2>1. NULL \notin D
    BY DEF Shape, Ghosts
  <2> QED
    BY <1>5, <1>8, <2>1
<1>10. SameData(t, u, E)
  <2> SUFFICES ASSUME NEW m \in E PROVE u.node[m].key = t.node[m].key /\ u.node[m].value = t.node[m].value
    BY DEF SameData
  <2>1. CASE p # NULL /\ m = p
    BY <1>8, <2>1
  <2>2. CASE p = NULL \/ m # p
    <3>1. u.node[m] = v.node[m]
      BY <1>4, <2>2 DEF ChildIs
    <3> QED
      BY <1>3, <3>1 DEF SameData
  <2> QED
    BY <2>1, <2>2
<1>11. \A m \in E \ D : u.node[m] = t.node[m]
  <2> SUFFICES ASSUME NEW m \in E \ D PROVE u.node[m] = t.node[m]
    OBVIOUS
  <2>1. m # n /\ m # l /\ (p # NULL => m # p)
    BY ZenonT(60), <1>1
  <2>2. v.node[m] = t.node[m]
    BY ZenonT(60), <1>3, <2>1 DEF RotatedRight
  <2> QED
    BY <1>4, <2>1, <2>2 DEF ChildIs
<1>12. TurnedRight(t, u, D, n, l, p)
  <2>1. u.node[n] = v.node[n] /\ u.node[l] = v.node[l]
    BY <1>5
  <2> QED
    BY Zenon, <1>3, <1>6, <1>7, <1>9, <2>1 DEF TurnedRight, RotatedRight
<1> QED
  BY <1>1, <1>3, <1>4, <1>10, <1>11, <1>12

-----------------------------------------------------------------------------
(* One round of the loops that restore balance.                             *)

\* All nodes of D but n are level; n's subtree was h[n] high, has changed, and
\* is one higher now (e is 0) or one lower (e is 1) exactly when its balance has
\* left 0 or reached it.
Unsettled(t, D, h, n, e) ==
    /\ h \in [D -> Nat] /\ n \in D /\ e \in {0, 1}
    /\ \A m \in D \ {n} : Level(t, h, m)
    /\ Exact(t, h, n) /\ t.node[n].balance \in -2 .. 2
    /\ h[n] = 1 + Taller(LeftHeight(t, h, n), RightHeight(t, h, n))
                + e - (IF t.node[n].balance = 0 THEN 0 ELSE 1)

Untouched(t, u, E, D) ==
    /\ TreeType(u, E) /\ u.nnodes = t.nnodes /\ SameData(t, u, E)
    /\ \A m \in E \ D : u.node[m] = t.node[m]

\* The nodes around n.
Near(up, D, n, p, m) == m = n \/ m = p \/ up[m] = n \/ (up[m] \in D /\ up[up[m]] = n)

\* u is t with the subtree of n settled, top on top of it.
Rounded(t, u, E, D, pos, up, h, n, e, top, p) ==
    /\ Untouched(t, u, E, D)
    /\ \E lo2, hi2, up2 : Shape(u, D, pos, lo2, hi2, up2)
    /\ top \in D
    /\ \A m \in D : SameSides(t, u, m) \/ Near(up, D, n, p, m)
    /\ p # NULL => u.root = t.root /\ u.node[p].balance = t.node[p].balance
    /\ \E k \in [D -> Nat] :
          /\ \A m \in D \ {p} : Level(u, k, m)
          /\ p # NULL => k[p] = h[p]
          /\ k[top] = h[n] - e + (IF u.node[top].balance = 0 THEN 0 ELSE 1)
          /\ NewBelow(t, u, h, k, n, top, p)

LEMMA RoundSingleLeft ==
    ASSUME NEW t, NEW E, TreeType(t, E), NEW D, D \subseteq E,
           NEW pos, NEW lo, NEW hi, NEW up, Shape(t, D, pos, lo, hi, up),
           NEW n, NEW p, Below(t, D, n, p), NEW h, NEW e, Unsettled(t, D, h, n, e),
           t.node[n].balance > 1,
           NEW r, r = t.node[n].right, ~(t.node[r].balance < 0),
           NEW left_node, OnSide(left_node, t, n, p),
           NEW x, x = RotateLeft(t, n), NEW u, u = SetChild(x.tree, x.top, p, left_node)
    PROVE  Rounded(t, u, E, D, pos, up, h, n, e, x.top, p)
<1>1. /\ h \in [D -> Nat] /\ n \in D /\ e \in {0, 1}
      /\ \A m \in D \ {n} : Level(t, h, m)
      /\ Exact(t, h, n) /\ t.node[n].balance = 2
      /\ h[n] = Taller(LeftHeight(t, h, n), RightHeight(t, h, n)) + e
  <2>1. PICK b : b = t.node[n].balance
    OBVIOUS
  <2>2. PICK g : g = Taller(LeftHeight(t, h, n), RightHeight(t, h, n))
    OBVIOUS
  <2>3. b = 2 /\ h[n] = 1 + g + e - 1
    BY <2>1, <2>2 DEF Unsettled
  <2>4. g \in Nat /\ e \in {0, 1}
    BY Zenon, <2>2, HeightsNatural, TallerSymmetric DEF Unsettled
  <2> QED
    BY <2>1, <2>2, <2>3, <2>4 DEF Unsettled
<1>2. PICK a, b, c : a = LeftHeight(t, h, n) /\ b = LeftHeight(t, h, r) /\ c = RightHeight(t, h, r)
  OBVIOUS
<1>3. t.node[n].right_child
  BY <1>1, <1>2, HeightsNatural DEF Exact, RightHeight
<1>4. r \in D /\ r # n /\ r # p /\ up[r] = n /\ (p # NULL => p \in D /\ p # n)
  BY <1>1, <1>3, Children, ParentUnique DEF Below
<1>5. a \in Nat /\ b \in Nat /\ c \in Nat
  BY <1>1, <1>2, <1>4, HeightsNatural
<1>6. Exact(t, h, r) /\ Tall(t, h, r) /\ Balanced(t.node[r].balance)
  BY <1>1, <1>4 DEF Level
<1>7. /\ t.node[r].balance = c - b /\ c - b \in 0 .. 1 /\ h[r] = 1 + Taller(b, c)
      /\ h[r] - a = 2 /\ RightHeight(t, h, n) = h[r]
  <2>1. t.node[r].balance = c - b /\ h[r] = 1 + Taller(b, c)
    BY <1>2, <1>6 DEF Exact, Tall
  <2>2. RightHeight(t, h, n) = h[r]
    BY <1>3 DEF RightHeight
  <2> QED
    BY <1>1, <1>2, <1>5, <1>6, <2>1, <2>2 DEF Exact, Balanced
<1>8. /\ RotateLeft(t, n).top = r /\ TurnedLeft(t, u, D, n, r, p)
      /\ TreeType(u, E) /\ SameData(t, u, E) /\ u.nnodes = t.nnodes
      /\ \A m \in E \ D : u.node[m] = t.node[m]
  <2>1. RotateLeft(t, n).top = r
    BY Zenon DEF RotateLeft
  <2>2. u = SetChild(RotateLeft(t, n).tree, r, p, left_node)
    BY <2>1
  <2>3. n \in D
    BY <1>1
  <2> QED
    BY <1>3, <2>1, <2>2, <2>3, RotateLeftTurns
<1>9. PICK k \in [D -> Nat] :
             /\ k[n] = 1 + Taller(LeftHeight(t, h, n), LeftHeight(t, h, r))
             /\ Tall(u, k, n) /\ Exact(u, k, n)
             /\ LeftHeight(u, k, r) = k[n] /\ RightHeight(u, k, r) = RightHeight(t, h, r)
             /\ Tall(u, k, r) /\ Exact(u, k, r)
             /\ \A m \in D \ {n, r} : k[m] = h[m]
             /\ \A m \in D \ {n, r, p} : SameHeights(t, u, h, k, m)
             /\ NewBelow(t, u, h, k, n, r, p)
  BY ZenonT(60), <1>1, <1>3, <1>4, <1>6, <1>8, TurnLeftHeights
<1>10. /\ Balanced(u.node[n].balance) /\ Balanced(u.node[r].balance)
       /\ k[r] = h[n] - e + (IF u.node[r].balance = 0 THEN 0 ELSE 1)
  <2>1. k[n] = 1 + Taller(a, b) /\ k[r] = 1 + Taller(k[n], c) /\ u.node[r].balance = c - k[n]
    BY <1>2, <1>9 DEF Tall, Exact
  <2>2. /\ u.node[n].balance = RotateLeftDown(2, c - b)
        /\ u.node[r].balance = RotateLeftTop(2, c - b)
    BY Zenon, <1>1, <1>7, <1>8 DEF TurnedLeft
  <2>3. Balanced(u.node[n].balance) /\ Balanced(u.node[r].balance)
    BY <1>7, <2>2, SingleLeftBalances
  <2>5. k[n] \in Nat /\ k[r] \in Nat /\ h[n] \in Nat /\ h[r] \in Nat /\ e \in Int
    BY <1>1, <1>4, <1>9
  <2>4. h[n] = Taller(a, h[r]) + e /\ h[r] = a + 2
    BY <1>1, <1>2, <1>5, <1>7, <2>5
  <2>6. h[n] - e = a + 2
    BY <1>5, <2>4, <2>5 DEF Taller
  <2>7. CASE c - b = 1
    <3>1. c = a + 1 /\ b = a
      BY <1>5, <1>7, <2>4, <2>7 DEF Taller
    <3>2. k[n] = a + 1 /\ k[r] = a + 2 /\ u.node[r].balance = 0
      BY <1>5, <2>1, <3>1 DEF Taller
    <3> QED
      BY <1>5, <2>3, <2>5, <2>6, <3>2
  <2>8. CASE c - b = 0
    <3>1. c = a + 1 /\ b = a + 1
      BY <1>5, <1>7, <2>4, <2>8 DEF Taller
    <3>2. k[n] = a + 2 /\ k[r] = a + 3 /\ u.node[r].balance = -1
      BY <1>5, <2>1, <3>1 DEF Taller
    <3> QED
      BY <1>5, <2>3, <2>5, <2>6, <3>2
  <2> QED
    BY <1>7, <2>7, <2>8
<1>11. ASSUME NEW m \in D \ {p} PROVE Level(u, k, m)
  <2>1. CASE m = n \/ m = r
    BY Zenon, <1>9, <1>10, <2>1 DEF Level
  <2>2. CASE m # n /\ m # r
    <3>1. SameHeights(t, u, h, k, m) /\ k[m] = h[m] /\ Level(t, h, m)
      BY <1>1, <1>9, <2>2
    <3>2. u.node[m].balance = t.node[m].balance
      BY Zenon, <1>8, <2>2 DEF TurnedLeft
    <3> QED
      BY <3>1, <3>2 DEF SameHeights, Level, Exact, Tall
  <2> QED
    BY <2>1, <2>2
<1>12. \A m \in D : SameSides(t, u, m) \/ Near(up, D, n, p, m)
  BY Zenon, <1>4, <1>8 DEF TurnedLeft, Near
<1>13. p # NULL => u.root = t.root /\ u.node[p].balance = t.node[p].balance /\ k[p] = h[p]
  BY Zenon, <1>4, <1>8, <1>9 DEF TurnedLeft, Linked
<1>14. Untouched(t, u, E, D)
  BY <1>8 DEF Untouched
<1>15. \E lo2, hi2, up2 : Shape(u, D, pos, lo2, hi2, up2)
  BY Zenon, <1>1, <1>3, <1>4, <1>8, TurnLeftKeepsShape
<1>16. x.top = r
  BY <1>8
<1> QED
  BY Zenon, <1>4, <1>9, <1>10, <1>11, <1>12, <1>13, <1>14, <1>15, <1>16 DEF Rounded

LEMMA RoundSingleRight ==
    ASSUME NEW t, NEW E, TreeType(t, E), NEW D, D \subseteq E,
           NEW pos, NEW lo, NEW hi, NEW up, Shape(t, D, pos, lo, hi, up),
           NEW n, NEW p, Below(t, D, n, p), NEW h, NEW e, Unsettled(t, D, h, n, e),
           t.node[n].balance < -1,
           NEW l, l = t.node[n].left, ~(t.node[l].balance > 0),
           NEW left_node, OnSide(left_node, t, n, p),
           NEW x, x = RotateRight(t, n), NEW u, u = SetChild(x.tree, x.top, p, left_node)
    PROVE  Rounded(t, u, E, D, pos, up, h, n, e, x.top, p)
<1>1. /\ h \in [D -> Nat] /\ n \in D /\ e \in {0, 1}
      /\ \A m \in D \ {n} : Level(t, h, m)
      /\ Exact(t, h, n) /\ t.node[n].balance = -2
      /\ h[n] = Taller(LeftHeight(t, h, n), RightHeight(t, h, n)) + e
  <2>1. PICK b : b = t.node[n].balance
    OBVIOUS
  <2>2. PICK g : g = Taller(LeftHeight(t, h, n), RightHeight(t, h, n))
    OBVIOUS
  <2>3. b = -2 /\ h[n] = 1 + g + e - 1
    BY <2>1, <2>2 DEF Unsettled
  <2>4. g \in Nat /\ e \in {0, 1}
    BY Zenon, <2>2, HeightsNatural, TallerSymmetric DEF Unsettled
  <2> QED
    BY <2>1, <2>2, <2>3, <2>4 DEF Unsettled
<1>2. PICK a, b, c : a = RightHeight(t, h, n) /\ b = RightHeight(t, h, l) /\ c = LeftHeight(t, h, l)
  OBVIOUS
<1>3. t.node[n].left_child
  BY <1>1, <1>2, HeightsNatural DEF Exact, LeftHeight
<1>4. l \in D /\ l # n /\ l # p /\ up[l] = n /\ (p # NULL => p \in D /\ p # n)
  BY <1>1, <1>3, Children, ParentUnique DEF Below
<1>5. a \in Nat /\ b \in Nat /\ c \in Nat
  BY <1>1, <1>2, <1>4, HeightsNatural
<1>6. Exact(t, h, l) /\ Tall(t, h, l) /\ Balanced(t.node[l].balance)
  BY <1>1, <1>4 DEF Level
<1>7. /\ t.node[l].balance = b - c /\ b - c \in -1 .. 0 /\ h[l] = 1 + Taller(b, c)
      /\ h[l] - a = 2 /\ LeftHeight(t, h, n) = h[l]
  <2>1. t.node[l].balance = b - c /\ h[l] = 1 + Taller(b, c)
    BY <1>2, <1>5, <1>6, TallerSymmetric DEF Exact, Tall
  <2>2. LeftHeight(t, h, n) = h[l]
    BY <1>3 DEF LeftHeight
  <2> QED
    <3>1. h[l] \in Nat
      BY <1>1, <1>4
    <3> QED
      BY <1>1, <1>2, <1>5, <1>6, <2>1, <2>2, <3>1 DEF Exact, Balanced
<1>8. /\ RotateRight(t, n).top = l /\ TurnedRight(t, u, D, n, l, p)
      /\ TreeType(u, E) /\ SameData(t, u, E) /\ u.nnodes = t.nnodes
      /\ \A m \in E \ D : u.node[m] = t.node[m]
  <2>1. RotateRight(t, n).top = l
    BY Zenon DEF RotateRight
  <2>2. u = SetChild(RotateRight(t, n).tree, l, p, left_node)
    BY <2>1
  <2>3. n \in D
    BY <1>1
  <2> QED
    BY <1>3, <2>1, <2>2, <2>3, RotateRightTurns
<1>9. PICK k \in [D -> Nat] :
             /\ k[n] = 1 + Taller(RightHeight(t, h, n), RightHeight(t, h, l))
             /\ Tall(u, k, n) /\ Exact(u, k, n)
             /\ RightHeight(u, k, l) = k[n] /\ LeftHeight(u, k, l) = LeftHeight(t, h, l)
             /\ Tall(u, k, l) /\ Exact(u, k, l)
             /\ \A m \in D \ {n, l} : k[m] = h[m]
             /\ \A m \in D \ {n, l, p} : SameHeights(t, u, h, k, m)
             /\ NewBelow(t, u, h, k, n, l, p)
  <2>1. \A m \in D : t.node[m].balance \in Int /\ u.node[m].balance \in Int
    BY <1>8, Fields
  <2> QED
    BY ZenonT(60), <1>1, <1>3, <1>4, <1>6, <1>8, <2>1, TurnRightHeights
<1>10. /\ Balanced(u.node[n].balance) /\ Balanced(u.node[l].balance)
       /\ k[l] = h[n] - e + (IF u.node[l].balance = 0 THEN 0 ELSE 1)
  <2>1. k[n] = 1 + Taller(a, b) /\ k[l] = 1 + Taller(k[n], c) /\ u.node[l].balance = k[n] - c
    BY <1>2, <1>5, <1>9, TallerSymmetric DEF Tall, Exact
  <2>2. /\ u.node[n].balance = RotateRightDown(-2, b - c)
        /\ u.node[l].balance = RotateRightTop(-2, b - c)
    BY Zenon, <1>1, <1>7, <1>8 DEF TurnedRight
  <2>3. Balanced(u.node[n].balance) /\ Balanced(u.node[l].balance)
    BY <1>7, <2>2, SingleRightBalances
  <2>5. k[n] \in Nat /\ k[l] \in Nat /\ h[n] \in Nat /\ h[l] \in Nat /\ e \in Int
    BY <1>1, <1>4, <1>9
  <2>4. h[n] = Taller(a, h[l]) + e /\ h[l] = a + 2
    BY <1>1, <1>2, <1>5, <1>7, <2>5, TallerSymmetric
  <2>6. h[n] - e = a + 2
    BY <1>5, <2>4, <2>5 DEF Taller
  <2>7. CASE c - b = 1
    <3>1. c = a + 1 /\ b = a
      BY <1>5, <1>7, <2>4, <2>7 DEF Taller
    <3>2. k[n] = a + 1 /\ k[l] = a + 2 /\ u.node[l].balance = 0
      BY <1>5, <2>1, <3>1 DEF Taller
    <3> QED
      BY <1>5, <2>3, <2>5, <2>6, <3>2
  <2>8. CASE c - b = 0
    <3>1. c = a + 1 /\ b = a + 1
      BY <1>5, <1>7, <2>4, <2>8 DEF Taller
    <3>2. k[n] = a + 2 /\ k[l] = a + 3 /\ u.node[l].balance = 1
      BY <1>5, <2>1, <3>1 DEF Taller
    <3> QED
      BY <1>5, <2>3, <2>5, <2>6, <3>2
  <2> QED
    <3>1. c - b = 1 \/ c - b = 0
      BY <1>5, <1>7
    <3> QED
      BY ZenonT(60), <2>7, <2>8, <3>1
<1>11. ASSUME NEW m \in D \ {p} PROVE Level(u, k, m)
  <2>1. CASE m = n \/ m = l
    BY Zenon, <1>9, <1>10, <2>1 DEF Level
  <2>2. CASE m # n /\ m # l
    <3>1. SameHeights(t, u, h, k, m) /\ k[m] = h[m] /\ Level(t, h, m)
      BY <1>1, <1>9, <2>2
    <3>2. u.node[m].balance = t.node[m].balance
      BY Zenon, <1>8, <2>2 DEF TurnedRight
    <3> QED
      BY <3>1, <3>2 DEF SameHeights, Level, Exact, Tall
  <2> QED
    BY <2>1, <2>2
<1>12. \A m \in D : SameSides(t, u, m) \/ Near(up, D, n, p, m)
  BY Zenon, <1>4, <1>8 DEF TurnedRight, Near
<1>13. p # NULL => u.root = t.root /\ u.node[p].balance = t.node[p].balance /\ k[p] = h[p]
  BY Zenon, <1>4, <1>8, <1>9 DEF TurnedRight, Linked
<1>14. Untouched(t, u, E, D)
  BY <1>8 DEF Untouched
<1>15. \E lo2, hi2, up2 : Shape(u, D, pos, lo2, hi2, up2)
  <2>1. \A m \in D : t.node[m].balance \in Int
    BY Fields
  <2> QED
    BY Zenon, <1>1, <1>3, <1>4, <1>8, <2>1, TurnRightKeepsShape
<1>16. x.top = l
  BY <1>8
<1> QED
  BY Zenon, <1>4, <1>9, <1>10, <1>11, <1>12, <1>13, <1>14, <1>15, <1>16 DEF Rounded

LEMMA DoubleHeights ==
    ASSUME NEW a \in Nat, NEW P \in Nat, NEW Q \in Nat, NEW C \in Nat, NEW hc, NEW hr,
           hc = 1 + Taller(P, Q), Q - P \in -1 .. 1, C - hc = -1,
           hr = 1 + Taller(hc, C), hr - a = 2
    PROVE  /\ 1 + Taller(P, 1 + Taller(C, Q)) = hr
           /\ 1 + Taller(a, P) = a + 1 /\ 1 + Taller(C, Q) = a + 1
           /\ hr = a + 2
BY DEF Taller

LEMMA RightHeavy ==
    ASSUME NEW t, NEW D, NEW pos, NEW lo, NEW hi, NEW up, Shape(t, D, pos, lo, hi, up),
           NEW n, NEW p, Below(t, D, n, p), NEW h, NEW e, Unsettled(t, D, h, n, e),
           t.node[n].balance > 1, NEW r, r = t.node[n].right
    PROVE  /\ h \in [D -> Nat] /\ n \in D /\ e \in {0, 1}
           /\ t.node[n].balance = 2 /\ Exact(t, h, n)
           /\ h[n] = Taller(LeftHeight(t, h, n), RightHeight(t, h, n)) + e
           /\ LeftHeight(t, h, n) \in Nat
           /\ t.node[n].right_child /\ RightHeight(t, h, n) = h[r]
           /\ r \in D /\ r # n /\ r # p /\ up[r] = n /\ n # NULL /\ (p # NULL => p \in D /\ p # n)
           /\ Below(t, D, r, n) /\ ~LeftOf(t, r, n)
<1>1. h \in [D -> Nat] /\ n \in D /\ e \in {0, 1} /\ Exact(t, h, n)
  BY DEF Unsettled
<1>2. LeftHeight(t, h, n) \in Nat /\ RightHeight(t, h, n) \in Nat
  BY <1>1, HeightsNatural
<1>3. /\ t.node[n].balance = 2
      /\ h[n] = Taller(LeftHeight(t, h, n), RightHeight(t, h, n)) + e
  <2>1. PICK b : b = t.node[n].balance
    OBVIOUS
  <2>2. PICK g : g = Taller(LeftHeight(t, h, n), RightHeight(t, h, n))
    OBVIOUS
  <2>3. b = 2 /\ h[n] = 1 + g + e - 1
    BY <2>1, <2>2 DEF Unsettled
  <2>4. g \in Nat
    BY <1>2, <2>2, TallerSymmetric
  <2> QED
    BY <1>1, <2>1, <2>2, <2>3, <2>4
<1>4. t.node[n].right_child
  BY <1>1, <1>2, <1>3 DEF Exact, RightHeight
<1>5. r \in D /\ r # n /\ r # p /\ up[r] = n
  BY <1>1, <1>4, Children
<1>6. n # NULL /\ (p # NULL => p \in D /\ p # n)
  BY <1>1, ParentUnique DEF Below, Shape, Ghosts
<1>7. Below(t, D, r, n) /\ RightOf(t, r, n)
  BY <1>1, <1>4, <1>6 DEF Below, RightOf
<1>8. ~LeftOf(t, r, n)
  BY <1>5, <1>6, <1>7, ParentUnique
<1> QED
  BY <1>1, <1>2, <1>3, <1>4, <1>5, <1>6, <1>7, <1>8 DEF RightHeight

\* The facts before the first of two rotations.
RightLeansIn(t, D, up, h, n, e, p, r, c) ==
    /\ t.node[r].balance = -1 /\ Exact(t, h, r)
    /\ t.node[r].left_child
    /\ c \in D /\ c # r /\ c # n /\ c # p /\ up[c] = r
    /\ Exact(t, h, c) /\ Tall(t, h, c) /\ Balanced(t.node[c].balance)
    /\ 1 + Taller(LeftHeight(t, h, c), 1 + Taller(RightHeight(t, h, r), RightHeight(t, h, c))) = h[r]
    /\ 1 + Taller(LeftHeight(t, h, n), LeftHeight(t, h, c)) = LeftHeight(t, h, n) + 1
    /\ 1 + Taller(RightHeight(t, h, r), RightHeight(t, h, c)) = LeftHeight(t, h, n) + 1
    /\ h[n] = LeftHeight(t, h, n) + 2 + e

LeftLeansIn(t, D, up, h, n, e, p, l, c) ==
    /\ t.node[l].balance = 1 /\ Exact(t, h, l)
    /\ t.node[l].right_child
    /\ c \in D /\ c # l /\ c # n /\ c # p /\ up[c] = l
    /\ Exact(t, h, c) /\ Tall(t, h, c) /\ Balanced(t.node[c].balance)
    /\ 1 + Taller(RightHeight(t, h, c), 1 + Taller(LeftHeight(t, h, l), LeftHeight(t, h, c))) = h[l]
    /\ 1 + Taller(RightHeight(t, h, n), RightHeight(t, h, c)) = RightHeight(t, h, n) + 1
    /\ 1 + Taller(LeftHeight(t, h, l), LeftHeight(t, h, c)) = RightHeight(t, h, n) + 1
    /\ h[n] = RightHeight(t, h, n) + 2 + e

\* The right child leans left: the facts before the first of two rotations.
LEMMA RightHeavyLeft ==
    ASSUME NEW t, NEW D, NEW pos, NEW lo, NEW hi, NEW up, Shape(t, D, pos, lo, hi, up),
           NEW n, NEW p, Below(t, D, n, p), NEW h, NEW e, Unsettled(t, D, h, n, e),
           t.node[n].balance > 1, NEW r, r = t.node[n].right,
           t.node[r].balance < 0, NEW c, c = t.node[r].left
    PROVE  RightLeansIn(t, D, up, h, n, e, p, r, c)
<1>1. /\ h \in [D -> Nat] /\ n \in D /\ e \in {0, 1}
      /\ t.node[n].balance = 2 /\ Exact(t, h, n)
      /\ h[n] = Taller(LeftHeight(t, h, n), RightHeight(t, h, n)) + e
      /\ LeftHeight(t, h, n) \in Nat
      /\ t.node[n].right_child /\ RightHeight(t, h, n) = h[r]
      /\ r \in D /\ r # n /\ r # p /\ up[r] = n /\ n # NULL /\ (p # NULL => p \in D /\ p # n)
      /\ Below(t, D, r, n) /\ ~LeftOf(t, r, n)
  BY RightHeavy
<1>2. \A m \in D \ {n} : Level(t, h, m)
  BY DEF Unsettled
<1>3. Exact(t, h, r) /\ Tall(t, h, r) /\ t.node[r].balance = -1
  BY <1>1, <1>2 DEF Level, Balanced
<1>4. PICK a, C : a = LeftHeight(t, h, n) /\ C = RightHeight(t, h, r)
  OBVIOUS
<1>5. LeftHeight(t, h, r) \in Nat /\ C \in Nat /\ a \in Nat
  BY <1>1, <1>4, HeightsNatural
<1>6. t.node[r].left_child
  BY <1>3, <1>4, <1>5 DEF Exact, LeftHeight
<1>7. c \in D /\ c # r /\ c # n /\ up[c] = r
  BY <1>1, <1>6, Children
<1>8. Exact(t, h, c) /\ Tall(t, h, c) /\ Balanced(t.node[c].balance)
  BY <1>2, <1>7 DEF Level
<1>9. PICK P, Q : P = LeftHeight(t, h, c) /\ Q = RightHeight(t, h, c)
  BY ZenonT(60)
<1>10. P \in Nat /\ Q \in Nat
  BY ZenonT(60), <1>1, <1>7, <1>9, HeightsNatural
<1>11. LeftHeight(t, h, r) = h[c] /\ h[c] \in Nat /\ h[r] \in Nat /\ h[n] \in Nat
  BY ZenonT(60), <1>1, <1>6, <1>7 DEF LeftHeight
<1>12. /\ h[c] = 1 + Taller(P, Q) /\ Q - P \in -1 .. 1 /\ C - h[c] = -1
       /\ h[r] = 1 + Taller(h[c], C) /\ h[r] - a = 2
  <2>1. h[c] = 1 + Taller(P, Q) /\ t.node[c].balance = Q - P
    BY ZenonT(60), <1>8, <1>9 DEF Exact, Tall
  <2>2. t.node[r].balance = C - h[c] /\ h[r] = 1 + Taller(h[c], C)
    BY <1>3, <1>4, <1>11 DEF Exact, Tall
  <2>3. t.node[n].balance = h[r] - a
    BY <1>1, <1>4 DEF Exact
  <2> QED
    BY ZenonT(60), <1>1, <1>3, <1>8, <2>1, <2>2, <2>3 DEF Balanced
<1>13. /\ 1 + Taller(P, 1 + Taller(C, Q)) = h[r]
       /\ 1 + Taller(a, P) = a + 1 /\ 1 + Taller(C, Q) = a + 1
       /\ h[r] = a + 2
  BY <1>5, <1>10, <1>12, DoubleHeights
<1>14. h[n] = a + 2 + e
  BY <1>1, <1>4, <1>5, <1>13 DEF Taller
<1>15. c # p
  <2> SUFFICES ASSUME c = p PROVE FALSE
    OBVIOUS
  <2>1. p # NULL
    BY <1>7 DEF Shape, Ghosts
  <2>2. Tall(t, h, p) /\ LeftHeight(t, h, p) \in Nat /\ RightHeight(t, h, p) \in Nat
    BY <1>1, <1>2, <2>1, HeightsNatural DEF Level
  <2>3. LeftHeight(t, h, p) = h[n] \/ RightHeight(t, h, p) = h[n]
    BY <2>1 DEF Below, LeftOf, RightOf, LeftHeight, RightHeight
  <2>4. h[c] < h[r] /\ h[n] >= h[r]
    BY <1>1, <1>5, <1>11, <1>12, <1>13, <1>14 DEF Taller
  <2>5. h[p] > h[n]
    BY <1>11, <2>2, <2>3 DEF Tall, Taller
  <2> QED
    BY <1>11, <2>4, <2>5
<1> QED
  BY Zenon, <1>3, <1>4, <1>6, <1>7, <1>8, <1>9, <1>13, <1>14, <1>15 DEF RightLeansIn

\* v is t after the first of the two rotations: c has come between n and r.
HalfTurnedLeft(t, v, D, pos, h, n, r, c, p) ==
    /\ \E lo1, hi1, up1 : Shape(v, D, pos, lo1, hi1, up1)
    /\ v.node[n].right_child /\ v.node[n].right = c
    /\ v.node[n].balance = 2 /\ v.node[c].balance = RotateRightTop(-1, t.node[c].balance)
    /\ v.node[r].balance = RotateRightDown(-1, t.node[c].balance)
    /\ Below(v, D, n, p) /\ v.root = t.root
    /\ p # NULL => /\ SameSides(t, v, p) /\ v.node[p].balance = t.node[p].balance
                   /\ LeftOf(v, n, p) <=> LeftOf(t, n, p)
    /\ \E k \in [D -> Nat] :
         /\ k[r] = LeftHeight(t, h, n) + 1
         /\ LeftHeight(v, k, n) = LeftHeight(t, h, n)
         /\ LeftHeight(v, k, c) = LeftHeight(t, h, c)
         /\ RightHeight(v, k, c) = k[r]
         /\ Exact(v, k, n) /\ Exact(v, k, c) /\ Tall(v, k, c) /\ Exact(v, k, r) /\ Tall(v, k, r)
         /\ \A m \in D \ {r, c} : k[m] = h[m]
         /\ \A m \in D \ {r, c, n} : SameHeights(t, v, h, k, m)

\* Two turns settle it.
LEMMA DoubleLeftTurns ==
    ASSUME NEW t, NEW D, NEW pos, NEW lo, NEW hi, NEW up, Shape(t, D, pos, lo, hi, up),
           NEW n, NEW p, Below(t, D, n, p), NEW h, NEW e, Unsettled(t, D, h, n, e),
           t.node[n].balance > 1, NEW r, r = t.node[n].right,
           t.node[r].balance < 0, NEW c, c = t.node[r].left,
           NEW v, TurnedRight(t, v, D, r, c, n),
           \A m \in D : t.node[m].balance \in Int, \A m \in D : v.node[m].balance \in Int
    PROVE  HalfTurnedLeft(t, v, D, pos, h, n, r, c, p)
<1>1. /\ h \in [D -> Nat] /\ n \in D /\ t.node[n].balance = 2 /\ Exact(t, h, n)
      /\ RightHeight(t, h, n) = h[r] /\ r \in D /\ r # n /\ r # p /\ n # NULL /\ (p # NULL => p \in D /\ p # n)
      /\ Below(t, D, r, n) /\ ~LeftOf(t, r, n)
  BY SMTT(40), RightHeavy
<1>2. /\ t.node[r].balance = -1 /\ Exact(t, h, r)
      /\ t.node[r].left_child
      /\ c \in D /\ c # r /\ c # n /\ c # p
      /\ Exact(t, h, c) /\ Tall(t, h, c)
      /\ 1 + Taller(LeftHeight(t, h, c), 1 + Taller(RightHeight(t, h, r), RightHeight(t, h, c)))
         = h[r]
      /\ 1 + Taller(RightHeight(t, h, r), RightHeight(t, h, c)) = LeftHeight(t, h, n) + 1
  <2>1. RightLeansIn(t, D, up, h, n, e, p, r, c)
    BY ZenonT(60), RightHeavyLeft
  <2> QED
    BY Zenon, <2>1 DEF RightLeansIn
<1>3. \E lo1, hi1, up1 : Shape(v, D, pos, lo1, hi1, up1)
  BY Zenon, <1>1, <1>2, TurnRightKeepsShape
<1>4. PICK k \in [D -> Nat] :
             /\ k[r] = 1 + Taller(RightHeight(t, h, r), RightHeight(t, h, c))
             /\ Tall(v, k, r) /\ Exact(v, k, r)
             /\ RightHeight(v, k, c) = k[r] /\ LeftHeight(v, k, c) = LeftHeight(t, h, c)
             /\ Tall(v, k, c) /\ Exact(v, k, c)
             /\ \A m \in D \ {r, c} : k[m] = h[m]
             /\ \A m \in D \ {r, c, n} : SameHeights(t, v, h, k, m)
             /\ NewBelow(t, v, h, k, r, c, n)
  <2>1. /\ h \in [D -> Nat] /\ r \in D /\ c \in D /\ t.node[r].left_child /\ Below(t, D, r, n)
        /\ Exact(t, h, r) /\ Exact(t, h, c) /\ Tall(t, h, c)
    BY Zenon, <1>1, <1>2
  <2> QED
    BY Zenon, <2>1, TurnRightHeights
<1>5. /\ LeftHeight(v, k, n) = LeftHeight(t, h, n) /\ RightHeight(v, k, n) = k[c]
      /\ RightOf(v, c, n) /\ k[c] = h[r]
  <2>1. /\ ~LeftOf(v, c, n) /\ LeftHeight(v, k, n) = LeftHeight(t, h, n)
        /\ RightHeight(v, k, n) = k[c] /\ Below(v, D, c, n)
    BY Zenon, <1>1, <1>4 DEF NewBelow
  <2>2. RightOf(v, c, n)
    BY <1>1, <2>1 DEF Below
  <2>3. k[c] = h[r]
    BY ZenonT(60), <1>2, <1>4 DEF Tall
  <2> QED
    BY ZenonT(60), <2>1, <2>2, <2>3
<1>6. /\ v.node[n].balance = 2 /\ v.node[c].balance = RotateRightTop(-1, t.node[c].balance)
      /\ v.node[r].balance = RotateRightDown(-1, t.node[c].balance)
  BY Zenon, <1>1, <1>2 DEF TurnedRight
<1>7. Exact(v, k, n)
  BY Zenon, <1>1, <1>5, <1>6 DEF Exact
<1>8. v.root = t.root
  BY Zenon, <1>1 DEF TurnedRight, Linked
<1>9. p # NULL => /\ SameSides(t, v, p) /\ v.node[p].balance = t.node[p].balance
  BY Zenon, <1>1, <1>2 DEF TurnedRight
<1>10. p # NULL => (LeftOf(v, n, p) <=> LeftOf(t, n, p)) /\ (RightOf(v, n, p) <=> RightOf(t, n, p))
  BY <1>9 DEF SameSides, Sides, LeftOf, RightOf
<1>11. Below(v, D, n, p)
  BY <1>8, <1>10 DEF Below
<1>12. v.node[n].right_child /\ v.node[n].right = c
  BY <1>5 DEF RightOf
<1>13. k[r] = LeftHeight(t, h, n) + 1
  BY Zenon, <1>2, <1>4
<1> QED
  BY Zenon, <1>3, <1>4, <1>5, <1>6, <1>7, <1>8, <1>9, <1>10, <1>11, <1>12, <1>13 DEF HalfTurnedLeft


LEMMA RoundDoubleLeft ==
    ASSUME NEW t, NEW E, TreeType(t, E), NEW D, D \subseteq E,
           NEW pos, NEW lo, NEW hi, NEW up, Shape(t, D, pos, lo, hi, up),
           NEW n, NEW p, Below(t, D, n, p), NEW h, NEW e, Unsettled(t, D, h, n, e),
           t.node[n].balance > 1,
           NEW r, r = t.node[n].right, t.node[r].balance < 0, NEW c, c = t.node[r].left,
           NEW v, TurnedRight(t, v, D, r, c, n), Untouched(t, v, E, D),
           NEW u, TurnedLeft(v, u, D, n, c, p), Untouched(v, u, E, D)
    PROVE  Rounded(t, u, E, D, pos, up, h, n, e, c, p)
<1>1. /\ h \in [D -> Nat] /\ n \in D /\ e \in {0, 1}
      /\ LeftHeight(t, h, n) \in Nat
      /\ r \in D /\ r # n /\ r # p /\ up[r] = n /\ n # NULL /\ (p # NULL => p \in D /\ p # n)
      /\ Below(t, D, r, n) /\ ~LeftOf(t, r, n)
  BY RightHeavy
<1>2. \A m \in D \ {n} : Level(t, h, m)
  BY ZenonT(60) DEF Unsettled
<1>4. /\ t.node[r].left_child
      /\ c \in D /\ c # r /\ c # n /\ c # p /\ up[c] = r
      /\ Balanced(t.node[c].balance)
      /\ 1 + Taller(LeftHeight(t, h, n), LeftHeight(t, h, c)) = LeftHeight(t, h, n) + 1
      /\ h[n] = LeftHeight(t, h, n) + 2 + e
  <2>1. RightLeansIn(t, D, up, h, n, e, p, r, c)
    BY ZenonT(60), RightHeavyLeft
  <2> QED
    BY Zenon, <2>1 DEF RightLeansIn
<1>5. /\ TreeType(v, E) /\ SameData(t, v, E)
      /\ v.nnodes = t.nnodes /\ \A m \in E \ D : v.node[m] = t.node[m]
  BY DEF Untouched
<1>6. (\A m \in D : t.node[m].balance \in Int) /\ (\A m \in D : v.node[m].balance \in Int)
  BY <1>5, Fields
<1>7. /\ \E lo1, hi1, up1 : Shape(v, D, pos, lo1, hi1, up1)
      /\ v.node[n].right_child /\ v.node[n].right = c
      /\ v.node[n].balance = 2 /\ v.node[c].balance = RotateRightTop(-1, t.node[c].balance)
      /\ v.node[r].balance = RotateRightDown(-1, t.node[c].balance)
      /\ Below(v, D, n, p) /\ v.root = t.root
      /\ p # NULL => /\ SameSides(t, v, p) /\ v.node[p].balance = t.node[p].balance
                     /\ LeftOf(v, n, p) <=> LeftOf(t, n, p)
      /\ \E k \in [D -> Nat] :
           /\ k[r] = LeftHeight(t, h, n) + 1
           /\ LeftHeight(v, k, n) = LeftHeight(t, h, n)
           /\ LeftHeight(v, k, c) = LeftHeight(t, h, c)
           /\ RightHeight(v, k, c) = k[r]
           /\ Exact(v, k, n) /\ Exact(v, k, c) /\ Tall(v, k, c) /\ Exact(v, k, r) /\ Tall(v, k, r)
           /\ \A m \in D \ {r, c} : k[m] = h[m]
           /\ \A m \in D \ {r, c, n} : SameHeights(t, v, h, k, m)
  <2>1. HalfTurnedLeft(t, v, D, pos, h, n, r, c, p)
    BY <1>6, DoubleLeftTurns
  <2> QED
    BY Zenon, <2>1 DEF HalfTurnedLeft
<1>8. PICK lo1, hi1, up1 : Shape(v, D, pos, lo1, hi1, up1)
  BY Zenon, <1>7
<1>9. PICK k \in [D -> Nat] :
           /\ k[r] = LeftHeight(t, h, n) + 1
           /\ LeftHeight(v, k, n) = LeftHeight(t, h, n)
           /\ LeftHeight(v, k, c) = LeftHeight(t, h, c)
           /\ RightHeight(v, k, c) = k[r]
           /\ Exact(v, k, n) /\ Exact(v, k, c) /\ Tall(v, k, c) /\ Exact(v, k, r) /\ Tall(v, k, r)
           /\ \A m \in D \ {r, c} : k[m] = h[m]
           /\ \A m \in D \ {r, c, n} : SameHeights(t, v, h, k, m)
  BY Zenon, <1>7
<1>11. /\ TreeType(u, E) /\ SameData(v, u, E)
       /\ u.nnodes = v.nnodes /\ \A m \in E \ D : u.node[m] = v.node[m]
  BY DEF Untouched
<1>12. PICK g \in [D -> Nat] :
             /\ g[n] = 1 + Taller(LeftHeight(v, k, n), LeftHeight(v, k, c))
             /\ Tall(u, g, n) /\ Exact(u, g, n)
             /\ LeftHeight(u, g, c) = g[n] /\ RightHeight(u, g, c) = RightHeight(v, k, c)
             /\ Tall(u, g, c) /\ Exact(u, g, c)
             /\ \A m \in D \ {n, c} : g[m] = k[m]
             /\ \A m \in D \ {n, c, p} : SameHeights(v, u, k, g, m)
             /\ NewBelow(v, u, k, g, n, c, p)
  <2>1. n \in D /\ c \in D /\ v.node[n].right_child /\ v.node[n].right = c /\ Below(v, D, n, p)
    BY Zenon, <1>1, <1>4, <1>7
  <2>2. Exact(v, k, n) /\ Exact(v, k, c) /\ Tall(v, k, c) /\ TurnedLeft(v, u, D, n, c, p)
    BY Zenon, <1>9, <1>11
  <2> QED
    BY Zenon, <1>8, <1>9, <2>1, <2>2, TurnLeftHeights
<1>13. g[c] = h[n] - e /\ u.node[c].balance = 0
  <2>1. PICK a : a = LeftHeight(t, h, n)
    OBVIOUS
  <2>2. g[n] = a + 1 /\ RightHeight(u, g, c) = a + 1 /\ LeftHeight(u, g, c) = a + 1
    BY Zenon, <1>4, <1>9, <1>12, <2>1
  <2>3. g[c] = 1 + Taller(a + 1, a + 1) /\ u.node[c].balance = (a + 1) - (a + 1)
    BY Zenon, <1>12, <2>2 DEF Tall, Exact
  <2>4. a \in Nat /\ h[n] = a + 2 + e /\ e \in Int
    <3>1. a \in Nat /\ e \in Int
      BY <1>1, <2>1
    <3>2. h[n] = a + 2 + e
      BY Zenon, <1>4, <2>1
    <3> QED
      BY <3>1, <3>2
  <2>5. g[c] = a + 2
    <3>1. a + 1 >= a + 1 /\ 1 + (a + 1) = a + 2
      BY <2>4
    <3> QED
      BY Zenon, <2>3, <3>1 DEF Taller
  <2>6. (a + 1) - (a + 1) = 0 /\ a + 2 = (a + 2 + e) - e
    BY SMTT(40), <2>4
  <2> QED
    BY Zenon, <2>3, <2>4, <2>5, <2>6
<1>14. Balanced(u.node[n].balance) /\ Balanced(u.node[c].balance) /\ Balanced(u.node[r].balance)
  <2>1. PICK b : b = t.node[c].balance
    BY ZenonT(60)
  <2>2. b \in -1 .. 1
    BY Zenon, <1>4, <1>6, <2>1 DEF Balanced
  <2>3. u.node[n].balance = RotateLeftDown(2, RotateRightTop(-1, b))
    BY Zenon, <1>7, <1>11, <2>1 DEF TurnedLeft
  <2>4. u.node[c].balance = RotateLeftTop(2, RotateRightTop(-1, b))
    BY Zenon, <1>7, <1>11, <2>1 DEF TurnedLeft
  <2>5. u.node[r].balance = RotateRightDown(-1, b)
    <3>1. u.node[r].balance = v.node[r].balance
      BY Zenon, <1>1, <1>4, <1>11 DEF TurnedLeft
    <3> QED
      BY Zenon, <1>7, <2>1, <3>1
  <2> QED
    BY ZenonT(60), <2>2, <2>3, <2>4, <2>5, DoubleLeftBalances
<1>15. ASSUME NEW m \in D \ {p} PROVE Level(u, g, m)
  <2>1. CASE m = n \/ m = c
    BY Zenon, <1>12, <1>14, <2>1 DEF Level
  <2>2. CASE m = r
    <3>1. SameHeights(v, u, k, g, r) /\ g[r] = k[r] /\ Exact(v, k, r) /\ Tall(v, k, r)
      BY Zenon, <1>1, <1>4, <1>9, <1>12
    <3>2. u.node[r].balance = v.node[r].balance
      BY Zenon, <1>1, <1>4, <1>11 DEF TurnedLeft
    <3> QED
      BY Zenon, <1>14, <2>2, <3>1, <3>2 DEF SameHeights, Level, Exact, Tall
  <2>3. CASE m # n /\ m # c /\ m # r
    <3>1. SameHeights(v, u, k, g, m) /\ g[m] = k[m]
      BY Zenon, <1>12, <2>3
    <3>2. SameHeights(t, v, h, k, m) /\ k[m] = h[m] /\ Level(t, h, m)
      BY Zenon, <1>2, <1>9, <2>3
    <3>3. u.node[m].balance = v.node[m].balance /\ v.node[m].balance = t.node[m].balance
      BY Zenon, <1>5, <1>11, <2>3 DEF TurnedLeft, TurnedRight
    <3> QED
      BY <3>1, <3>2, <3>3 DEF SameHeights, Level, Exact, Tall
  <2> QED
    BY <2>1, <2>2, <2>3
<1>16. ASSUME NEW m \in D PROVE SameSides(t, u, m) \/ Near(up, D, n, p, m)
  <2>1. CASE m = n \/ m = c \/ m = r \/ m = p
    BY Zenon, <1>1, <1>4, <2>1 DEF Near
  <2>2. CASE m # n /\ m # c /\ m # r /\ m # p
    <3>1. SameSides(t, v, m)
      BY Zenon, <1>5, <2>2 DEF TurnedRight
    <3>2. SameSides(v, u, m)
      BY Zenon, <1>11, <2>2 DEF TurnedLeft
    <3> QED
      BY <3>1, <3>2 DEF SameSides, Sides
  <2> QED
    BY <2>1, <2>2
<1>17. p # NULL => u.root = t.root /\ u.node[p].balance = t.node[p].balance /\ g[p] = h[p]
  <2> SUFFICES ASSUME p # NULL PROVE u.root = t.root /\ u.node[p].balance = t.node[p].balance /\ g[p] = h[p]
    OBVIOUS
  <2>1. p \in D /\ p # n /\ p # r /\ p # c
    BY Zenon, <1>1, <1>4
  <2>2. u.root = v.root
    BY Zenon, <1>11 DEF TurnedLeft, Linked
  <2>3. u.node[p].balance = v.node[p].balance
    BY Zenon, <1>11, <2>1 DEF TurnedLeft
  <2>4. g[p] = k[p] /\ k[p] = h[p]
    BY Zenon, <1>9, <1>12, <2>1
  <2> QED
    BY Zenon, <1>7, <2>2, <2>3, <2>4
<1>18. Untouched(t, u, E, D)
  <2>1. SameData(t, u, E)
    BY <1>5, <1>11 DEF SameData
  <2>2. \A m \in E \ D : u.node[m] = t.node[m]
    BY <1>5, <1>11
  <2> QED
    BY <1>5, <1>11, <2>1, <2>2 DEF Untouched
<1>19. \E lo2, hi2, up2 : Shape(u, D, pos, lo2, hi2, up2)
  <2>1. n \in D /\ c \in D /\ v.node[n].right_child /\ v.node[n].right = c /\ Below(v, D, n, p)
    BY Zenon, <1>1, <1>4, <1>7
  <2> QED
    BY Zenon, <1>8, <1>11, <2>1, TurnLeftKeepsShape
<1>20. NewBelow(t, u, h, g, n, c, p)
  <2>1. CASE p = NULL
    BY Zenon, <1>12, <2>1 DEF NewBelow
  <2>2. CASE p # NULL
    <3>1. p \in D /\ p # n /\ p # r /\ p # c
      BY Zenon, <1>1, <1>4, <2>2
    <3>2. LeftHeight(v, k, p) = LeftHeight(t, h, p) /\ RightHeight(v, k, p) = RightHeight(t, h, p)
      BY Zenon, <1>9, <3>1 DEF SameHeights
    <3>3. LeftOf(v, n, p) <=> LeftOf(t, n, p)
      BY Zenon, <1>7, <2>2
    <3>4. CASE LeftOf(t, n, p)
      BY Zenon, <1>12, <2>2, <3>2, <3>3, <3>4 DEF NewBelow
    <3>5. CASE ~LeftOf(t, n, p)
      BY Zenon, <1>12, <2>2, <3>2, <3>3, <3>5 DEF NewBelow
    <3> QED
      BY <3>4, <3>5
  <2> QED
    BY <2>1, <2>2
<1> QED
  <2>1. g[c] = h[n] - e + (IF u.node[c].balance = 0 THEN 0 ELSE 1)
    <3>1. h[n] \in Nat /\ e \in Int
      BY <1>1
    <3>2. h[n] - e = h[n] - e + 0
      BY <3>1
    <3> QED
      BY Zenon, <1>13, <3>2
  <2> QED
    BY Zenon, <1>4, <1>12, <1>15, <1>16, <1>17, <1>18, <1>19, <1>20, <2>1 DEF Rounded
LEMMA LeftHeavy ==
    ASSUME NEW t, NEW D, NEW pos, NEW lo, NEW hi, NEW up, Shape(t, D, pos, lo, hi, up),
           NEW n, NEW p, Below(t, D, n, p), NEW h, NEW e, Unsettled(t, D, h, n, e),
           t.node[n].balance < -1, NEW l, l = t.node[n].left
    PROVE  /\ h \in [D -> Nat] /\ n \in D /\ e \in {0, 1}
           /\ t.node[n].balance = -2 /\ Exact(t, h, n)
           /\ h[n] = Taller(LeftHeight(t, h, n), RightHeight(t, h, n)) + e
           /\ RightHeight(t, h, n) \in Nat
           /\ t.node[n].left_child /\ LeftHeight(t, h, n) = h[l]
           /\ l \in D /\ l # n /\ l # p /\ up[l] = n /\ n # NULL /\ (p # NULL => p \in D /\ p # n)
           /\ Below(t, D, l, n) /\ LeftOf(t, l, n)
<1>1. h \in [D -> Nat] /\ n \in D /\ e \in {0, 1} /\ Exact(t, h, n)
  BY DEF Unsettled
<1>2. RightHeight(t, h, n) \in Nat /\ LeftHeight(t, h, n) \in Nat
  BY <1>1, HeightsNatural
<1>3. /\ t.node[n].balance = -2
      /\ h[n] = Taller(LeftHeight(t, h, n), RightHeight(t, h, n)) + e
  <2>1. PICK b : b = t.node[n].balance
    OBVIOUS
  <2>2. PICK g : g = Taller(LeftHeight(t, h, n), RightHeight(t, h, n))
    OBVIOUS
  <2>3. b = -2 /\ h[n] = 1 + g + e - 1
    BY <2>1, <2>2 DEF Unsettled
  <2>4. g \in Nat
    BY <1>2, <2>2, TallerSymmetric
  <2> QED
    BY <1>1, <2>1, <2>2, <2>3, <2>4
<1>4. t.node[n].left_child
  BY <1>1, <1>2, <1>3 DEF Exact, LeftHeight
<1>5. l \in D /\ l # n /\ l # p /\ up[l] = n
  BY <1>1, <1>4, Children
<1>6. n # NULL /\ (p # NULL => p \in D /\ p # n)
  BY <1>1, ParentUnique DEF Below, Shape, Ghosts
<1>7. Below(t, D, l, n) /\ LeftOf(t, l, n)
  BY <1>1, <1>4, <1>6 DEF Below, LeftOf
<1> QED
  BY <1>1, <1>2, <1>3, <1>4, <1>5, <1>6, <1>7 DEF LeftHeight

\* The left child leans right: the facts before the first of two rotations.
LEMMA LeftHeavyRight ==
    ASSUME NEW t, NEW D, NEW pos, NEW lo, NEW hi, NEW up, Shape(t, D, pos, lo, hi, up),
           NEW n, NEW p, Below(t, D, n, p), NEW h, NEW e, Unsettled(t, D, h, n, e),
           t.node[n].balance < -1, NEW l, l = t.node[n].left,
           t.node[l].balance > 0, NEW c, c = t.node[l].right
    PROVE  LeftLeansIn(t, D, up, h, n, e, p, l, c)
<1>1. /\ h \in [D -> Nat] /\ n \in D /\ e \in {0, 1}
      /\ t.node[n].balance = -2 /\ Exact(t, h, n)
      /\ h[n] = Taller(LeftHeight(t, h, n), RightHeight(t, h, n)) + e
      /\ RightHeight(t, h, n) \in Nat
      /\ t.node[n].left_child /\ LeftHeight(t, h, n) = h[l]
      /\ l \in D /\ l # n /\ l # p /\ up[l] = n /\ n # NULL /\ (p # NULL => p \in D /\ p # n)
      /\ Below(t, D, l, n) /\ LeftOf(t, l, n)
  BY LeftHeavy
<1>2. \A m \in D \ {n} : Level(t, h, m)
  BY DEF Unsettled
<1>3. Exact(t, h, l) /\ Tall(t, h, l) /\ t.node[l].balance = 1
  BY <1>1, <1>2 DEF Level, Balanced
<1>4. PICK a, C : a = RightHeight(t, h, n) /\ C = LeftHeight(t, h, l)
  OBVIOUS
<1>5. RightHeight(t, h, l) \in Nat /\ C \in Nat /\ a \in Nat
  BY <1>1, <1>4, HeightsNatural
<1>6. t.node[l].right_child
  BY <1>3, <1>4, <1>5 DEF Exact, RightHeight
<1>7. c \in D /\ c # l /\ c # n /\ up[c] = l
  BY <1>1, <1>6, Children
<1>8. Exact(t, h, c) /\ Tall(t, h, c) /\ Balanced(t.node[c].balance)
  BY <1>2, <1>7 DEF Level
<1>9. PICK P, Q : P = RightHeight(t, h, c) /\ Q = LeftHeight(t, h, c)
  BY SMTT(40)
<1>10. P \in Nat /\ Q \in Nat
  BY Zenon, <1>1, <1>7, <1>9, HeightsNatural
<1>11. RightHeight(t, h, l) = h[c] /\ h[c] \in Nat /\ h[l] \in Nat /\ h[n] \in Nat
  BY <1>1, <1>6, <1>7 DEF RightHeight
<1>12. /\ h[c] = 1 + Taller(P, Q) /\ Q - P \in -1 .. 1 /\ C - h[c] = -1
       /\ h[l] = 1 + Taller(h[c], C) /\ h[l] - a = 2
  <2>1. h[c] = 1 + Taller(P, Q) /\ t.node[c].balance = P - Q
    BY Zenon, <1>8, <1>9, <1>10, TallerSymmetric DEF Exact, Tall
  <2>2. t.node[l].balance = h[c] - C /\ h[l] = 1 + Taller(h[c], C)
    <3>1. Taller(C, h[c]) = Taller(h[c], C)
      BY Zenon, <1>5, <1>11, TallerSymmetric
    <3> QED
      BY <1>3, <1>4, <1>11, <3>1 DEF Exact, Tall
  <2>3. t.node[n].balance = a - h[l]
    BY ZenonT(60), <1>1, <1>4 DEF Exact
  <2>4. P - Q \in -1 .. 1 /\ h[c] - C = 1 /\ a - h[l] = -2
    <3>1. P - Q \in Int
      BY <1>10
    <3> QED
      BY ZenonT(60), <1>1, <1>3, <1>8, <2>1, <2>2, <2>3, <3>1 DEF Balanced
  <2>5. Q - P \in -1 .. 1 /\ C - h[c] = -1 /\ h[l] - a = 2
    BY <1>5, <1>10, <1>11, <2>4
  <2> QED
    BY <2>1, <2>2, <2>5
<1>13. /\ 1 + Taller(P, 1 + Taller(C, Q)) = h[l]
       /\ 1 + Taller(a, P) = a + 1 /\ 1 + Taller(C, Q) = a + 1
       /\ h[l] = a + 2
  BY <1>5, <1>10, <1>12, DoubleHeights
<1>14. h[n] = a + 2 + e
  BY <1>1, <1>4, <1>5, <1>13 DEF Taller
<1>15. c # p
  <2> SUFFICES ASSUME c = p PROVE FALSE
    OBVIOUS
  <2>1. p # NULL
    BY <1>7 DEF Shape, Ghosts
  <2>2. Tall(t, h, p) /\ RightHeight(t, h, p) \in Nat /\ LeftHeight(t, h, p) \in Nat
    BY <1>1, <1>2, <2>1, HeightsNatural DEF Level
  <2>3. RightHeight(t, h, p) = h[n] \/ LeftHeight(t, h, p) = h[n]
    BY <2>1 DEF Below, LeftOf, RightOf, RightHeight, LeftHeight
  <2>4. h[c] < h[l] /\ h[n] >= h[l]
    BY <1>1, <1>5, <1>11, <1>12, <1>13, <1>14 DEF Taller
  <2>5. h[p] > h[n]
    BY <1>11, <2>2, <2>3 DEF Tall, Taller
  <2> QED
    BY <1>11, <2>4, <2>5
<1> QED
  BY Zenon, <1>3, <1>4, <1>6, <1>7, <1>8, <1>9, <1>13, <1>14, <1>15 DEF LeftLeansIn

\* v is t after the first of the two rotations: c has come between n and l.
HalfTurnedRight(t, v, D, pos, h, n, l, c, p) ==
    /\ \E lo1, hi1, up1 : Shape(v, D, pos, lo1, hi1, up1)
    /\ v.node[n].left_child /\ v.node[n].left = c
    /\ v.node[n].balance = -2 /\ v.node[c].balance = RotateLeftTop(1, t.node[c].balance)
    /\ v.node[l].balance = RotateLeftDown(1, t.node[c].balance)
    /\ Below(v, D, n, p) /\ v.root = t.root
    /\ p # NULL => /\ SameSides(t, v, p) /\ v.node[p].balance = t.node[p].balance
                   /\ LeftOf(v, n, p) <=> LeftOf(t, n, p)
    /\ \E k \in [D -> Nat] :
         /\ k[l] = RightHeight(t, h, n) + 1
         /\ RightHeight(v, k, n) = RightHeight(t, h, n)
         /\ RightHeight(v, k, c) = RightHeight(t, h, c)
         /\ LeftHeight(v, k, c) = k[l]
         /\ Exact(v, k, n) /\ Exact(v, k, c) /\ Tall(v, k, c) /\ Exact(v, k, l) /\ Tall(v, k, l)
         /\ \A m \in D \ {l, c} : k[m] = h[m]
         /\ \A m \in D \ {l, c, n} : SameHeights(t, v, h, k, m)

\* Two turns settle it.
LEMMA DoubleRightTurns ==
    ASSUME NEW t, NEW D, NEW pos, NEW lo, NEW hi, NEW up, Shape(t, D, pos, lo, hi, up),
           NEW n, NEW p, Below(t, D, n, p), NEW h, NEW e, Unsettled(t, D, h, n, e),
           t.node[n].balance < -1, NEW l, l = t.node[n].left,
           t.node[l].balance > 0, NEW c, c = t.node[l].right,
           NEW v, TurnedLeft(t, v, D, l, c, n),
           \A m \in D : t.node[m].balance \in Int, \A m \in D : v.node[m].balance \in Int
    PROVE  HalfTurnedRight(t, v, D, pos, h, n, l, c, p)
<1>1. /\ h \in [D -> Nat] /\ n \in D /\ t.node[n].balance = -2 /\ Exact(t, h, n)
      /\ LeftHeight(t, h, n) = h[l] /\ l \in D /\ l # n /\ l # p /\ n # NULL /\ (p # NULL => p \in D /\ p # n)
      /\ Below(t, D, l, n) /\ LeftOf(t, l, n)
  BY SMTT(40), LeftHeavy
<1>2. /\ t.node[l].balance = 1 /\ Exact(t, h, l)
      /\ t.node[l].right_child
      /\ c \in D /\ c # l /\ c # n /\ c # p
      /\ Exact(t, h, c) /\ Tall(t, h, c)
      /\ 1 + Taller(RightHeight(t, h, c), 1 + Taller(LeftHeight(t, h, l), LeftHeight(t, h, c)))
         = h[l]
      /\ 1 + Taller(LeftHeight(t, h, l), LeftHeight(t, h, c)) = RightHeight(t, h, n) + 1
  <2>1. LeftLeansIn(t, D, up, h, n, e, p, l, c)
    BY ZenonT(60), LeftHeavyRight
  <2> QED
    BY Zenon, <2>1 DEF LeftLeansIn
<1>3. \E lo1, hi1, up1 : Shape(v, D, pos, lo1, hi1, up1)
  BY Zenon, <1>1, <1>2, TurnLeftKeepsShape
<1>4. PICK k \in [D -> Nat] :
             /\ k[l] = 1 + Taller(LeftHeight(t, h, l), LeftHeight(t, h, c))
             /\ Tall(v, k, l) /\ Exact(v, k, l)
             /\ LeftHeight(v, k, c) = k[l] /\ RightHeight(v, k, c) = RightHeight(t, h, c)
             /\ Tall(v, k, c) /\ Exact(v, k, c)
             /\ \A m \in D \ {l, c} : k[m] = h[m]
             /\ \A m \in D \ {l, c, n} : SameHeights(t, v, h, k, m)
             /\ NewBelow(t, v, h, k, l, c, n)
  <2>1. /\ h \in [D -> Nat] /\ l \in D /\ c \in D /\ t.node[l].right_child /\ Below(t, D, l, n)
        /\ Exact(t, h, l) /\ Exact(t, h, c) /\ Tall(t, h, c)
    BY Zenon, <1>1, <1>2
  <2> QED
    BY ZenonT(60), <2>1, TurnLeftHeights
<1>5. /\ RightHeight(v, k, n) = RightHeight(t, h, n) /\ LeftHeight(v, k, n) = k[c]
      /\ LeftOf(v, c, n) /\ k[c] = h[l]
  <2>1. /\ LeftOf(v, c, n) /\ RightHeight(v, k, n) = RightHeight(t, h, n)
        /\ LeftHeight(v, k, n) = k[c] /\ Below(v, D, c, n)
    BY Zenon, <1>1, <1>4 DEF NewBelow
  <2>2. LeftOf(v, c, n)
    BY <1>1, <2>1 DEF Below
  <2>3. k[c] = h[l]
    <3>1. RightHeight(t, h, c) \in Nat /\ k[l] \in Nat
      BY Zenon, <1>1, <1>2, <1>4, HeightsNatural
    <3>2. Taller(RightHeight(t, h, c), k[l]) = Taller(k[l], RightHeight(t, h, c))
      BY Zenon, <3>1, TallerSymmetric
    <3>3. k[c] = 1 + Taller(k[l], RightHeight(t, h, c))
      BY Zenon, <1>4 DEF Tall
    <3> QED
      BY ZenonT(60), <1>2, <1>4, <3>2, <3>3
  <2> QED
    BY ZenonT(60), <2>1, <2>2, <2>3
<1>6. /\ v.node[n].balance = -2 /\ v.node[c].balance = RotateLeftTop(1, t.node[c].balance)
      /\ v.node[l].balance = RotateLeftDown(1, t.node[c].balance)
  BY Zenon, <1>1, <1>2 DEF TurnedLeft
<1>7. Exact(v, k, n)
  BY Zenon, <1>1, <1>5, <1>6 DEF Exact
<1>8. v.root = t.root
  BY Zenon, <1>1 DEF TurnedLeft, Linked
<1>9. p # NULL => /\ SameSides(t, v, p) /\ v.node[p].balance = t.node[p].balance
  BY Zenon, <1>1, <1>2 DEF TurnedLeft
<1>10. p # NULL => (LeftOf(v, n, p) <=> LeftOf(t, n, p)) /\ (RightOf(v, n, p) <=> RightOf(t, n, p))
  BY <1>9 DEF SameSides, Sides, LeftOf, RightOf
<1>11. Below(v, D, n, p)
  BY <1>8, <1>10 DEF Below
<1>12. v.node[n].left_child /\ v.node[n].left = c
  BY <1>5 DEF LeftOf
<1>13. k[l] = RightHeight(t, h, n) + 1
  BY Zenon, <1>2, <1>4
<1> QED
  BY Zenon, <1>3, <1>4, <1>5, <1>6, <1>7, <1>8, <1>9, <1>10, <1>11, <1>12, <1>13 DEF HalfTurnedRight


LEMMA RoundDoubleRight ==
    ASSUME NEW t, NEW E, TreeType(t, E), NEW D, D \subseteq E,
           NEW pos, NEW lo, NEW hi, NEW up, Shape(t, D, pos, lo, hi, up),
           NEW n, NEW p, Below(t, D, n, p), NEW h, NEW e, Unsettled(t, D, h, n, e),
           t.node[n].balance < -1,
           NEW l, l = t.node[n].left, t.node[l].balance > 0, NEW c, c = t.node[l].right,
           NEW v, TurnedLeft(t, v, D, l, c, n), Untouched(t, v, E, D),
           NEW u, TurnedRight(v, u, D, n, c, p), Untouched(v, u, E, D)
    PROVE  Rounded(t, u, E, D, pos, up, h, n, e, c, p)
<1>1. /\ h \in [D -> Nat] /\ n \in D /\ e \in {0, 1}
      /\ RightHeight(t, h, n) \in Nat
      /\ l \in D /\ l # n /\ l # p /\ up[l] = n /\ n # NULL /\ (p # NULL => p \in D /\ p # n)
      /\ Below(t, D, l, n) /\ LeftOf(t, l, n)
  BY LeftHeavy
<1>2. \A m \in D \ {n} : Level(t, h, m)
  BY ZenonT(60) DEF Unsettled
<1>4. /\ t.node[l].right_child
      /\ c \in D /\ c # l /\ c # n /\ c # p /\ up[c] = l
      /\ Balanced(t.node[c].balance)
      /\ 1 + Taller(RightHeight(t, h, n), RightHeight(t, h, c)) = RightHeight(t, h, n) + 1
      /\ h[n] = RightHeight(t, h, n) + 2 + e
  <2>1. LeftLeansIn(t, D, up, h, n, e, p, l, c)
    BY ZenonT(60), LeftHeavyRight
  <2> QED
    BY Zenon, <2>1 DEF LeftLeansIn
<1>5. /\ TreeType(v, E) /\ SameData(t, v, E)
      /\ v.nnodes = t.nnodes /\ \A m \in E \ D : v.node[m] = t.node[m]
  BY DEF Untouched
<1>6. /\ \A m \in D : t.node[m].balance \in Int
      /\ \A m \in D : v.node[m].balance \in Int
      /\ \A m \in D : u.node[m].balance \in Int
  BY Fields DEF Untouched
<1>7. /\ \E lo1, hi1, up1 : Shape(v, D, pos, lo1, hi1, up1)
      /\ v.node[n].left_child /\ v.node[n].left = c
      /\ v.node[n].balance = -2 /\ v.node[c].balance = RotateLeftTop(1, t.node[c].balance)
      /\ v.node[l].balance = RotateLeftDown(1, t.node[c].balance)
      /\ Below(v, D, n, p) /\ v.root = t.root
      /\ p # NULL => /\ SameSides(t, v, p) /\ v.node[p].balance = t.node[p].balance
                     /\ LeftOf(v, n, p) <=> LeftOf(t, n, p)
      /\ \E k \in [D -> Nat] :
           /\ k[l] = RightHeight(t, h, n) + 1
           /\ RightHeight(v, k, n) = RightHeight(t, h, n)
           /\ RightHeight(v, k, c) = RightHeight(t, h, c)
           /\ LeftHeight(v, k, c) = k[l]
           /\ Exact(v, k, n) /\ Exact(v, k, c) /\ Tall(v, k, c) /\ Exact(v, k, l) /\ Tall(v, k, l)
           /\ \A m \in D \ {l, c} : k[m] = h[m]
           /\ \A m \in D \ {l, c, n} : SameHeights(t, v, h, k, m)
  <2>1. HalfTurnedRight(t, v, D, pos, h, n, l, c, p)
    BY <1>6, DoubleRightTurns
  <2> QED
    BY Zenon, <2>1 DEF HalfTurnedRight
<1>8. PICK lo1, hi1, up1 : Shape(v, D, pos, lo1, hi1, up1)
  BY Zenon, <1>7
<1>9. PICK k \in [D -> Nat] :
           /\ k[l] = RightHeight(t, h, n) + 1
           /\ RightHeight(v, k, n) = RightHeight(t, h, n)
           /\ RightHeight(v, k, c) = RightHeight(t, h, c)
           /\ LeftHeight(v, k, c) = k[l]
           /\ Exact(v, k, n) /\ Exact(v, k, c) /\ Tall(v, k, c) /\ Exact(v, k, l) /\ Tall(v, k, l)
           /\ \A m \in D \ {l, c} : k[m] = h[m]
           /\ \A m \in D \ {l, c, n} : SameHeights(t, v, h, k, m)
  BY Zenon, <1>7
<1>11. /\ TreeType(u, E) /\ SameData(v, u, E)
       /\ u.nnodes = v.nnodes /\ \A m \in E \ D : u.node[m] = v.node[m]
  BY DEF Untouched
<1>12. PICK g \in [D -> Nat] :
             /\ g[n] = 1 + Taller(RightHeight(v, k, n), RightHeight(v, k, c))
             /\ Tall(u, g, n) /\ Exact(u, g, n)
             /\ RightHeight(u, g, c) = g[n] /\ LeftHeight(u, g, c) = LeftHeight(v, k, c)
             /\ Tall(u, g, c) /\ Exact(u, g, c)
             /\ \A m \in D \ {n, c} : g[m] = k[m]
             /\ \A m \in D \ {n, c, p} : SameHeights(v, u, k, g, m)
             /\ NewBelow(v, u, k, g, n, c, p)
  <2>1. n \in D /\ c \in D /\ v.node[n].left_child /\ v.node[n].left = c /\ Below(v, D, n, p)
    BY Zenon, <1>1, <1>4, <1>7
  <2>2. Exact(v, k, n) /\ Exact(v, k, c) /\ Tall(v, k, c) /\ TurnedRight(v, u, D, n, c, p)
    BY Zenon, <1>9, <1>11
  <2> QED
    BY Zenon, <1>6, <1>8, <1>9, <2>1, <2>2, TurnRightHeights
<1>13. g[c] = h[n] - e /\ u.node[c].balance = 0
  <2>1. PICK a : a = RightHeight(t, h, n)
    OBVIOUS
  <2>2. g[n] = a + 1 /\ LeftHeight(u, g, c) = a + 1 /\ RightHeight(u, g, c) = a + 1
    BY Zenon, <1>4, <1>9, <1>12, <2>1
  <2>3. g[c] = 1 + Taller(a + 1, a + 1) /\ u.node[c].balance = (a + 1) - (a + 1)
    BY Zenon, <1>12, <2>2 DEF Tall, Exact
  <2>4. a \in Nat /\ h[n] = a + 2 + e /\ e \in Int
    <3>1. a \in Nat /\ e \in Int
      BY <1>1, <2>1
    <3>2. h[n] = a + 2 + e
      BY ZenonT(60), <1>4, <2>1
    <3> QED
      BY <3>1, <3>2
  <2>5. g[c] = a + 2
    <3>1. a + 1 >= a + 1 /\ 1 + (a + 1) = a + 2
      BY <2>4
    <3> QED
      BY Zenon, <2>3, <3>1 DEF Taller
  <2>6. (a + 1) - (a + 1) = 0 /\ a + 2 = (a + 2 + e) - e
    BY SMTT(40), <2>4
  <2> QED
    BY Zenon, <2>3, <2>4, <2>5, <2>6
<1>14. Balanced(u.node[n].balance) /\ Balanced(u.node[c].balance) /\ Balanced(u.node[l].balance)
  <2>1. PICK b : b = t.node[c].balance
    BY ZenonT(60)
  <2>2. b \in -1 .. 1
    BY Zenon, <1>4, <1>6, <2>1 DEF Balanced
  <2>3. u.node[n].balance = RotateRightDown(-2, RotateLeftTop(1, b))
    BY Zenon, <1>7, <1>11, <2>1 DEF TurnedRight
  <2>4. u.node[c].balance = RotateRightTop(-2, RotateLeftTop(1, b))
    BY Zenon, <1>7, <1>11, <2>1 DEF TurnedRight
  <2>5. u.node[l].balance = RotateLeftDown(1, b)
    <3>1. u.node[l].balance = v.node[l].balance
      BY Zenon, <1>1, <1>4, <1>11 DEF TurnedRight
    <3> QED
      BY Zenon, <1>7, <2>1, <3>1
  <2> QED
    BY ZenonT(60), <2>2, <2>3, <2>4, <2>5, DoubleRightBalances
<1>15. ASSUME NEW m \in D \ {p} PROVE Level(u, g, m)
  <2>1. CASE m = n \/ m = c
    BY Zenon, <1>12, <1>14, <2>1 DEF Level
  <2>2. CASE m = l
    <3>1. SameHeights(v, u, k, g, l) /\ g[l] = k[l] /\ Exact(v, k, l) /\ Tall(v, k, l)
      BY Zenon, <1>1, <1>4, <1>9, <1>12
    <3>2. u.node[l].balance = v.node[l].balance
      BY Zenon, <1>1, <1>4, <1>11 DEF TurnedRight
    <3> QED
      BY Zenon, <1>14, <2>2, <3>1, <3>2 DEF SameHeights, Level, Exact, Tall
  <2>3. CASE m # n /\ m # c /\ m # l
    <3>1. SameHeights(v, u, k, g, m) /\ g[m] = k[m]
      BY Zenon, <1>12, <2>3
    <3>2. SameHeights(t, v, h, k, m) /\ k[m] = h[m] /\ Level(t, h, m)
      BY Zenon, <1>2, <1>9, <2>3
    <3>3. u.node[m].balance = v.node[m].balance /\ v.node[m].balance = t.node[m].balance
      BY Zenon, <1>5, <1>11, <2>3 DEF TurnedRight, TurnedLeft
    <3> QED
      BY <3>1, <3>2, <3>3 DEF SameHeights, Level, Exact, Tall
  <2> QED
    BY <2>1, <2>2, <2>3
<1>16. ASSUME NEW m \in D PROVE SameSides(t, u, m) \/ Near(up, D, n, p, m)
  <2>1. CASE m = n \/ m = c \/ m = l \/ m = p
    BY Zenon, <1>1, <1>4, <2>1 DEF Near
  <2>2. CASE m # n /\ m # c /\ m # l /\ m # p
    <3>1. SameSides(t, v, m)
      BY Zenon, <1>5, <2>2 DEF TurnedLeft
    <3>2. SameSides(v, u, m)
      BY Zenon, <1>11, <2>2 DEF TurnedRight
    <3> QED
      BY <3>1, <3>2 DEF SameSides, Sides
  <2> QED
    BY <2>1, <2>2
<1>17. p # NULL => u.root = t.root /\ u.node[p].balance = t.node[p].balance /\ g[p] = h[p]
  <2> SUFFICES ASSUME p # NULL PROVE u.root = t.root /\ u.node[p].balance = t.node[p].balance /\ g[p] = h[p]
    OBVIOUS
  <2>1. p \in D /\ p # n /\ p # l /\ p # c
    BY Zenon, <1>1, <1>4
  <2>2. u.root = v.root
    BY Zenon, <1>11 DEF TurnedRight, Linked
  <2>3. u.node[p].balance = v.node[p].balance
    BY Zenon, <1>11, <2>1 DEF TurnedRight
  <2>4. g[p] = k[p] /\ k[p] = h[p]
    BY Zenon, <1>9, <1>12, <2>1
  <2> QED
    BY Zenon, <1>7, <2>2, <2>3, <2>4
<1>18. Untouched(t, u, E, D)
  <2>1. SameData(t, u, E)
    BY <1>5, <1>11 DEF SameData
  <2>2. \A m \in E \ D : u.node[m] = t.node[m]
    BY <1>5, <1>11
  <2> QED
    BY <1>5, <1>11, <2>1, <2>2 DEF Untouched
<1>19. \E lo2, hi2, up2 : Shape(u, D, pos, lo2, hi2, up2)
  <2>1. n \in D /\ c \in D /\ v.node[n].left_child /\ v.node[n].left = c /\ Below(v, D, n, p)
    BY Zenon, <1>1, <1>4, <1>7
  <2> QED
    BY Zenon, <1>6, <1>8, <2>1, TurnRightKeepsShape
<1>20. NewBelow(t, u, h, g, n, c, p)
  <2>1. CASE p = NULL
    BY Zenon, <1>12, <2>1 DEF NewBelow
  <2>2. CASE p # NULL
    <3>1. p \in D /\ p # n /\ p # l /\ p # c
      BY ZenonT(60), <1>1, <1>4, <2>2
    <3>2. RightHeight(v, k, p) = RightHeight(t, h, p) /\ LeftHeight(v, k, p) = LeftHeight(t, h, p)
      BY ZenonT(60), <1>9, <3>1 DEF SameHeights
    <3>3. LeftOf(v, n, p) <=> LeftOf(t, n, p)
      BY ZenonT(60), <1>7, <2>2
    <3>4. CASE LeftOf(t, n, p)
      BY ZenonT(60), <1>12, <2>2, <3>2, <3>3, <3>4 DEF NewBelow
    <3>5. CASE ~LeftOf(t, n, p)
      BY Zenon, <1>12, <2>2, <3>2, <3>3, <3>5 DEF NewBelow
    <3> QED
      BY SMTT(40), <3>4, <3>5
  <2> QED
    BY <2>1, <2>2
<1> QED
  <2>1. g[c] = h[n] - e + (IF u.node[c].balance = 0 THEN 0 ELSE 1)
    <3>1. h[n] \in Nat /\ e \in Int
      BY <1>1
    <3>2. h[n] - e = h[n] - e + 0
      BY <3>1
    <3> QED
      BY Zenon, <1>13, <3>2
  <2> QED
    BY Zenon, <1>4, <1>12, <1>15, <1>16, <1>17, <1>18, <1>19, <1>20, <2>1 DEF Rounded


LEMMA RotateLeftTurn ==
    ASSUME NEW t, NEW E, TreeType(t, E), NEW D, D \subseteq E,
           NEW pos, NEW lo, NEW hi, NEW up, Shape(t, D, pos, lo, hi, up),
           NEW n \in D, NEW r, RightOf(t, r, n), NEW p, Below(t, D, n, p),
           NEW left_node, OnSide(left_node, t, n, p),
           NEW u, u = SetChild(RotateLeft(t, n).tree, r, p, left_node)
    PROVE  TurnedLeft(t, u, D, n, r, p) /\ Untouched(t, u, E, D)
<1>1. t.node[n].right_child /\ r = t.node[n].right
  BY DEF RightOf
<1> QED
  BY <1>1, RotateLeftTurns DEF Untouched

LEMMA RotateRightTurn ==
    ASSUME NEW t, NEW E, TreeType(t, E), NEW D, D \subseteq E,
           NEW pos, NEW lo, NEW hi, NEW up, Shape(t, D, pos, lo, hi, up),
           NEW n \in D, NEW l, LeftOf(t, l, n), NEW p, Below(t, D, n, p),
           NEW left_node, OnSide(left_node, t, n, p),
           NEW u, u = SetChild(RotateRight(t, n).tree, l, p, left_node)
    PROVE  TurnedRight(t, u, D, n, l, p) /\ Untouched(t, u, E, D)
<1>1. t.node[n].left_child /\ l = t.node[n].left
  BY ZenonT(60) DEF LeftOf
<1> QED
  BY <1>1, RotateRightTurns DEF Untouched

\* n is too heavy on one side and its child there leans the other way; v and u
\* are the trees after the first and the second rotation.
LeansLeft(t, n, r, c) ==
    /\ t.node[n].balance > 1 /\ r = t.node[n].right
    /\ t.node[r].balance < 0 /\ c = t.node[r].left
LeansRight(t, n, l, c) ==
    /\ t.node[n].balance < -1 /\ l = t.node[n].left
    /\ t.node[l].balance > 0 /\ c = t.node[l].right
TwiceLeft(t, v, u, n, r, c, p, left_node) ==
    /\ v = SetChild(RotateRight(t, r).tree, c, n, FALSE)
    /\ u = SetChild(RotateLeft(v, n).tree, c, p, left_node)
TwiceRight(t, v, u, n, l, c, p, left_node) ==
    /\ v = SetChild(RotateLeft(t, l).tree, c, n, TRUE)
    /\ u = SetChild(RotateRight(v, n).tree, c, p, left_node)

LEMMA DoubleLeftRotates ==
    ASSUME NEW t, NEW E, TreeType(t, E), NEW D, D \subseteq E,
           NEW pos, NEW lo, NEW hi, NEW up, Shape(t, D, pos, lo, hi, up),
           NEW n, NEW p, Below(t, D, n, p), NEW h, NEW e, Unsettled(t, D, h, n, e),
           NEW r, NEW c, LeansLeft(t, n, r, c),
           NEW left_node, OnSide(left_node, t, n, p),
           NEW v, NEW u, TwiceLeft(t, v, u, n, r, c, p, left_node)
    PROVE  RotateLeft(v, n).top = c /\ Rounded(t, u, E, D, pos, up, h, n, e, c, p)
<1>0. /\ t.node[n].balance > 1 /\ r = t.node[n].right
      /\ t.node[r].balance < 0 /\ c = t.node[r].left
  BY DEF LeansLeft
<1>1. n \in D /\ r \in D /\ Below(t, D, r, n) /\ ~LeftOf(t, r, n) /\ t.node[r].left_child
  <2>1. n \in D /\ r \in D /\ Below(t, D, r, n) /\ ~LeftOf(t, r, n)
    BY <1>0, RightHeavy
  <2>2. t.node[r].left_child
    BY <1>0, RightHeavyLeft DEF RightLeansIn
  <2> QED
    BY <2>1, <2>2
<1>2. OnSide(FALSE, t, r, n)
  BY <1>1 DEF OnSide
<1>3. TurnedRight(t, v, D, r, c, n) /\ Untouched(t, v, E, D)
  <2>1. LeftOf(t, c, r)
    BY <1>0, <1>1 DEF LeftOf
  <2>2. v = SetChild(RotateRight(t, r).tree, c, n, FALSE)
    BY ZenonT(60) DEF TwiceLeft
  <2> QED
    BY Zenon, <1>1, <1>2, <2>1, <2>2, RotateRightTurn
<1>4. HalfTurnedLeft(t, v, D, pos, h, n, r, c, p)
  <2>1. (\A m \in D : t.node[m].balance \in Int) /\ (\A m \in D : v.node[m].balance \in Int)
    BY <1>3, Fields DEF Untouched
  <2> QED
    BY <1>0, <1>3, <2>1, DoubleLeftTurns
<1>5. PICK lo1, hi1, up1 : Shape(v, D, pos, lo1, hi1, up1)
  BY <1>4 DEF HalfTurnedLeft
<1>6. RightOf(v, c, n) /\ Below(v, D, n, p) /\ OnSide(left_node, v, n, p)
  BY <1>4 DEF HalfTurnedLeft, OnSide, RightOf
<1>7. TurnedLeft(v, u, D, n, c, p) /\ Untouched(v, u, E, D)
  <2>1. TreeType(v, E) /\ n \in D
    BY <1>1, <1>3 DEF Untouched
  <2>2. u = SetChild(RotateLeft(v, n).tree, c, p, left_node)
    BY DEF TwiceLeft
  <2> QED
    BY <1>5, <1>6, <2>1, <2>2, RotateLeftTurn
<1>8. RotateLeft(v, n).top = c
  BY ZenonT(60), <1>6 DEF RotateLeft, RightOf
<1> QED
  BY ZenonT(60), <1>0, <1>3, <1>7, <1>8, RoundDoubleLeft

LEMMA DoubleRightRotates ==
    ASSUME NEW t, NEW E, TreeType(t, E), NEW D, D \subseteq E,
           NEW pos, NEW lo, NEW hi, NEW up, Shape(t, D, pos, lo, hi, up),
           NEW n, NEW p, Below(t, D, n, p), NEW h, NEW e, Unsettled(t, D, h, n, e),
           NEW l, NEW c, LeansRight(t, n, l, c),
           NEW left_node, OnSide(left_node, t, n, p),
           NEW v, NEW u, TwiceRight(t, v, u, n, l, c, p, left_node)
    PROVE  RotateRight(v, n).top = c /\ Rounded(t, u, E, D, pos, up, h, n, e, c, p)
<1>0. /\ t.node[n].balance < -1 /\ l = t.node[n].left
      /\ t.node[l].balance > 0 /\ c = t.node[l].right
  BY DEF LeansRight
<1>1. n \in D /\ l \in D /\ Below(t, D, l, n) /\ LeftOf(t, l, n) /\ t.node[l].right_child
  <2>1. n \in D /\ l \in D /\ Below(t, D, l, n) /\ LeftOf(t, l, n)
    BY <1>0, LeftHeavy
  <2>2. t.node[l].right_child
    BY <1>0, LeftHeavyRight DEF LeftLeansIn
  <2> QED
    BY <2>1, <2>2
<1>2. OnSide(TRUE, t, l, n)
  BY <1>1 DEF OnSide
<1>3. TurnedLeft(t, v, D, l, c, n) /\ Untouched(t, v, E, D)
  <2>1. RightOf(t, c, l)
    BY <1>0, <1>1 DEF RightOf
  <2>2. v = SetChild(RotateLeft(t, l).tree, c, n, TRUE)
    BY ZenonT(60) DEF TwiceRight
  <2> QED
    BY Zenon, <1>1, <1>2, <2>1, <2>2, RotateLeftTurn
<1>4. HalfTurnedRight(t, v, D, pos, h, n, l, c, p)
  <2>1. (\A m \in D : t.node[m].balance \in Int) /\ (\A m \in D : v.node[m].balance \in Int)
    BY <1>3, Fields DEF Untouched
  <2> QED
    BY <1>0, <1>3, <2>1, DoubleRightTurns
<1>5. PICK lo1, hi1, up1 : Shape(v, D, pos, lo1, hi1, up1)
  BY <1>4 DEF HalfTurnedRight
<1>6. LeftOf(v, c, n) /\ Below(v, D, n, p) /\ OnSide(left_node, v, n, p)
  BY <1>4 DEF HalfTurnedRight, OnSide, LeftOf
<1>7. TurnedRight(v, u, D, n, c, p) /\ Untouched(v, u, E, D)
  <2>1. TreeType(v, E) /\ n \in D
    BY <1>1, <1>3 DEF Untouched
  <2>2. u = SetChild(RotateRight(v, n).tree, c, p, left_node)
    BY DEF TwiceRight
  <2> QED
    BY <1>5, <1>6, <2>1, <2>2, RotateRightTurn
<1>8. RotateRight(v, n).top = c
  BY <1>6 DEF RotateRight, LeftOf
<1> QED
  BY ZenonT(60), <1>0, <1>3, <1>7, <1>8, RoundDoubleRight

LEMMA RoundNone ==
    ASSUME NEW t, NEW E, TreeType(t, E), NEW D, D \subseteq E,
           NEW pos, NEW lo, NEW hi, NEW up, Shape(t, D, pos, lo, hi, up),
           NEW n, NEW p, Below(t, D, n, p), NEW h, NEW e, Unsettled(t, D, h, n, e),
           Balanced(t.node[n].balance)
    PROVE  Rounded(t, t, E, D, pos, up, h, n, e, n, p)
<1>1. /\ h \in [D -> Nat] /\ n \in D /\ e \in Int /\ Exact(t, h, n)
      /\ h[n] = 1 + Taller(LeftHeight(t, h, n), RightHeight(t, h, n))
                  + e - (IF t.node[n].balance = 0 THEN 0 ELSE 1)
  BY DEF Unsettled
<1>2. PICK g : g = Taller(LeftHeight(t, h, n), RightHeight(t, h, n))
  OBVIOUS
<1>3. g \in Nat
  BY Zenon, <1>1, <1>2, HeightsNatural, TallerSymmetric
<1>4. PICK k : k = [m \in D |-> IF m = n THEN 1 + g ELSE h[m]]
  BY Zenon
<1>5. k \in [D -> Nat] /\ k[n] = 1 + g /\ \A m \in D \ {n} : k[m] = h[m]
  BY <1>1, <1>3, <1>4
<1>6. p # NULL => p \in D /\ p # n
  BY <1>1, ParentUnique DEF Below
<1>7. k[n] = h[n] - e + (IF t.node[n].balance = 0 THEN 0 ELSE 1)
  BY <1>1, <1>2, <1>3, <1>5
<1>8. ASSUME NEW m \in D, m # p PROVE SameHeights(t, t, h, k, m)
  <2>1. t.node[m].left_child => t.node[m].left # n /\ t.node[m].left \in D
    <3>1. t.node[m].left_child => t.node[m].left \in D
      BY Children
    <3>2. ASSUME t.node[m].left_child, t.node[m].left = n PROVE FALSE
      <4>1. Below(t, D, n, m) /\ m # NULL
        BY <3>2 DEF Below, LeftOf, Shape, Ghosts
      <4> QED
        BY <1>1, <1>8, <4>1, ParentUnique
    <3> QED
      BY <3>1, <3>2
  <2>2. t.node[m].right_child => t.node[m].right # n /\ t.node[m].right \in D
    <3>1. t.node[m].right_child => t.node[m].right \in D
      BY Children
    <3>2. ASSUME t.node[m].right_child, t.node[m].right = n PROVE FALSE
      <4>1. Below(t, D, n, m) /\ m # NULL
        BY <3>2 DEF Below, RightOf, Shape, Ghosts
      <4> QED
        BY <1>1, <1>8, <4>1, ParentUnique
    <3> QED
      BY <3>1, <3>2
  <2> QED
    BY <1>5, <2>1, <2>2 DEF SameHeights, LeftHeight, RightHeight
<1>9. ASSUME NEW m \in D \ {p} PROVE Level(t, k, m)
  <2>1. SameHeights(t, t, h, k, m)
    BY <1>8
  <2>2. CASE m = n
    BY <1>1, <1>2, <1>5, <2>1, <2>2 DEF SameHeights, Level, Exact, Tall
  <2>3. CASE m # n
    <3>1. Level(t, h, m) /\ k[m] = h[m]
      BY <1>5, <2>3 DEF Unsettled
    <3> QED
      BY <2>1, <3>1 DEF SameHeights, Level, Exact, Tall
  <2> QED
    BY <2>2, <2>3
<1>10. p # NULL => k[p] = h[p]
  BY <1>5, <1>6
<1>11. NewBelow(t, t, h, k, n, n, p)
  <2>1. Below(t, DOMAIN k, n, p)
    BY <1>5
  <2>2. ASSUME p # NULL
        PROVE  /\ LeftHeight(t, k, p) = IF LeftOf(t, n, p) THEN k[n] ELSE LeftHeight(t, h, p)
               /\ RightHeight(t, k, p) = IF LeftOf(t, n, p) THEN RightHeight(t, h, p) ELSE k[n]
    <3>1. p \in D
      BY <1>6, <2>2
    <3>2. CASE LeftOf(t, n, p)
      <4>1. t.node[p].right_child => t.node[p].right \in D /\ t.node[p].right # n
        BY <3>1, <3>2, Children DEF LeftOf
      <4> QED
        BY <1>5, <3>2, <4>1 DEF LeftOf, LeftHeight, RightHeight
    <3>3. CASE ~LeftOf(t, n, p)
      <4>1. RightOf(t, n, p)
        BY <2>2, <3>3 DEF Below
      <4>2. t.node[p].left_child => t.node[p].left \in D /\ t.node[p].left # n
        BY <3>1, <3>3, Children DEF LeftOf
      <4> QED
        BY <1>5, <3>3, <4>1, <4>2 DEF RightOf, LeftHeight, RightHeight
    <3> QED
      BY <3>2, <3>3
  <2> QED
    BY <2>1, <2>2 DEF NewBelow
<1>12. Untouched(t, t, E, D)
  BY DEF Untouched, SameData
<1>13. \A m \in D : SameSides(t, t, m)
  BY DEF SameSides, Sides
<1> QED
  BY <1>1, <1>5, <1>7, <1>9, <1>10, <1>11, <1>12, <1>13 DEF Rounded

LEMMA SideOf ==
    ASSUME NEW t, NEW D, NEW pos, NEW lo, NEW hi, NEW up, Shape(t, D, pos, lo, hi, up),
           NEW n \in D, NEW p, Below(t, D, n, p)
    PROVE  OnSide(IsLeftNode(t, n, p), t, n, p)
BY ParentUnique DEF OnSide, IsLeftNode

\* Rebalanced settles n's subtree, whatever it takes.
LEMMA RebalancedRounds ==
    ASSUME NEW t, NEW E, TreeType(t, E), NEW D, D \subseteq E,
           NEW pos, NEW lo, NEW hi, NEW up, Shape(t, D, pos, lo, hi, up),
           NEW n, NEW p, Below(t, D, n, p), NEW h, NEW e, Unsettled(t, D, h, n, e),
           NEW x, x = Rebalanced(t, n, p)
    PROVE  Rounded(t, x.tree, E, D, pos, up, h, n, e, x.top, p)
<1>1. n \in D /\ n \in E /\ t.node[n].balance \in Int
  BY Fields DEF Unsettled
<1>2. PICK left_node : left_node = IsLeftNode(t, n, p)
  OBVIOUS
<1>3. OnSide(left_node, t, n, p)
  BY <1>1, <1>2, SideOf
<1>4. CASE Balanced(t.node[n].balance)
  <2>1. x.top = n /\ x.tree = t
    BY <1>4 DEF Rebalanced
  <2> QED
    BY <1>4, <2>1, RoundNone
<1>5. CASE ~Balanced(t.node[n].balance)
  <2>1. x.top = Balance(t, n).top /\ x.tree = SetChild(Balance(t, n).tree, Balance(t, n).top, p, left_node)
    BY <1>2, <1>5 DEF Rebalanced
  <2>2. CASE t.node[n].balance < -1
    <3>1. PICK l : l = t.node[n].left
      OBVIOUS
    <3>2. CASE t.node[l].balance > 0
      <4>1. PICK c : c = t.node[l].right
        OBVIOUS
      <4>2. PICK v : v = SetChild(RotateLeft(t, l).tree, c, n, TRUE)
        BY Zenon
      <4>3. RotateLeft(t, l).top = c
        BY <4>1 DEF RotateLeft
      <4>4. Balance(t, n) = RotateRight(v, n)
        BY Zenon, <2>2, <3>1, <3>2, <4>2, <4>3 DEF Balance
      <4>5. PICK u : u = SetChild(RotateRight(v, n).tree, c, p, left_node)
        OBVIOUS
      <4>6. LeansRight(t, n, l, c)
        BY <2>2, <3>1, <3>2, <4>1 DEF LeansRight
      <4>7. TwiceRight(t, v, u, n, l, c, p, left_node)
        BY <4>2, <4>5 DEF TwiceRight
      <4>8. RotateRight(v, n).top = c /\ Rounded(t, u, E, D, pos, up, h, n, e, c, p)
        BY <1>3, <4>6, <4>7, DoubleRightRotates
      <4> QED
        BY <2>1, <4>4, <4>5, <4>8
    <3>3. CASE ~(t.node[l].balance > 0)
      <4>1. Balance(t, n) = RotateRight(t, n)
        BY Zenon, <2>2, <3>1, <3>3 DEF Balance
      <4> QED
        BY <1>3, <2>1, <2>2, <3>1, <3>3, <4>1, RoundSingleRight
    <3> QED
      BY <3>2, <3>3
  <2>3. CASE ~(t.node[n].balance < -1)
    <3>0. t.node[n].balance > 1
      BY <1>1, <1>5, <2>3 DEF Balanced
    <3>1. PICK r : r = t.node[n].right
      OBVIOUS
    <3>2. CASE t.node[r].balance < 0
      <4>1. PICK c : c = t.node[r].left
        OBVIOUS
      <4>2. PICK v : v = SetChild(RotateRight(t, r).tree, c, n, FALSE)
        BY Zenon
      <4>3. RotateRight(t, r).top = c
        BY <4>1 DEF RotateRight
      <4>4. Balance(t, n) = RotateLeft(v, n)
        BY Zenon, <2>3, <3>1, <3>2, <4>2, <4>3 DEF Balance
      <4>5. PICK u : u = SetChild(RotateLeft(v, n).tree, c, p, left_node)
        OBVIOUS
      <4>6. LeansLeft(t, n, r, c)
        BY <3>0, <3>1, <3>2, <4>1 DEF LeansLeft
      <4>7. TwiceLeft(t, v, u, n, r, c, p, left_node)
        BY <4>2, <4>5 DEF TwiceLeft
      <4>8. RotateLeft(v, n).top = c /\ Rounded(t, u, E, D, pos, up, h, n, e, c, p)
        BY <1>3, <4>6, <4>7, DoubleLeftRotates
      <4> QED
        BY <2>1, <4>4, <4>5, <4>8
    <3>3. CASE ~(t.node[r].balance < 0)
      <4>1. Balance(t, n) = RotateLeft(t, n)
        BY Zenon, <2>3, <3>1, <3>3 DEF Balance
      <4> QED
        BY <1>3, <2>1, <3>0, <3>1, <3>3, <4>1, RoundSingleLeft
    <3> QED
      BY <3>2, <3>3
  <2> QED
    BY <2>2, <2>3
<1> QED
  BY <1>4, <1>5

-----------------------------------------------------------------------------
(* The loops that restore balance on the way up.                            *)

Settled(t, D, h) == h \in [D -> Nat] /\ \A m \in D : Level(t, h, m)

\* way[1 .. i] leads down from the root.
Chain(t, D, way, i) ==
    /\ i > 0 => way[1] = t.root
    /\ \A j \in 1 .. (i - 1) : Below(t, D, way[j + 1], way[j])
OnceEach(way, D) ==
    /\ way \in Seq(D)
    /\ \A i, j \in 1 .. Len(way) : way[i] = way[j] => i = j

LEMMA ShapeSame ==
    ASSUME NEW t, NEW D, NEW pos, NEW lo, NEW hi, NEW up, Shape(t, D, pos, lo, hi, up),
           NEW u, u.root = t.root, \A m \in D : SameSides(t, u, m)
    PROVE  Shape(u, D, pos, lo, hi, up)
<1>1. Ghosts(D, pos, lo, hi, up) /\ Rooted(u, D, lo, hi, up)
  BY DEF Shape, Rooted
<1>2. ASSUME NEW n \in D PROVE Placed(u, D, pos, lo, hi, up, n)
  <2>1. /\ u.node[n].left = t.node[n].left /\ u.node[n].left_child = t.node[n].left_child
        /\ u.node[n].right = t.node[n].right /\ u.node[n].right_child = t.node[n].right_child
    BY DEF SameSides, Sides
  <2>2. LeftPlaced(t, D, pos, lo, hi, up, n) /\ RightPlaced(t, D, pos, lo, hi, up, n)
    BY DEF Shape, Placed
  <2> QED
    BY <2>1, <2>2 DEF Placed, LeftPlaced, RightPlaced
<1> QED
  BY <1>1, <1>2 DEF Shape

Shifted(t, u, E, n, by) ==
    /\ TreeType(u, E) /\ u.root = t.root /\ u.nnodes = t.nnodes
    /\ SameData(t, u, E) /\ \A m \in E : SameSides(t, u, m)
    /\ u.node[n].balance = t.node[n].balance + by
    /\ \A m \in E \ {n} : u.node[m] = t.node[m]
LEMMA ShiftNodes ==
    ASSUME NEW t, NEW E, TreeType(t, E), NEW n \in E, NEW by \in Int,
           NEW u, u = Shift(t, n, by)
    PROVE  Shifted(t, u, E, n, by)
<1>1. PICK K, V, L : t \in Trees(E, Node(K, V, L), L) /\ L = E \cup {NULL}
  BY DEF TreeType
<1>2. PICK x : x = t.node[n] /\ x \in Node(K, V, L) /\ DOMAIN t.node = E
  BY <1>1 DEF Trees
<1>3. PICK y : y = [x EXCEPT !.balance = x.balance + by]
  BY Zenon
<1>4. /\ y \in Node(K, V, L) /\ y.balance = x.balance + by
      /\ y.key = x.key /\ y.value = x.value
      /\ Sides(y, x.left, x.left_child, x.right, x.right_child)
  BY <1>2, <1>3 DEF Node, Sides
<1>5. u = [t EXCEPT !.node[n] = y]
  BY <1>1, <1>2, <1>3 DEF Shift, Trees
<1>6. u \in Trees(E, Node(K, V, L), L) /\ Changed(t, u, n, y)
  BY <1>1, <1>2, <1>4, <1>5, NodeChanged
<1>7. TreeType(u, E)
  BY <1>1, <1>6 DEF TreeType
<1>8. u.node[n] = y /\ \A m \in E \ {n} : u.node[m] = t.node[m]
  BY <1>2, <1>6 DEF Changed
<1>9. SameData(t, u, E)
  BY <1>2, <1>4, <1>8 DEF SameData
<1>10. \A m \in E : SameSides(t, u, m)
  BY <1>2, <1>4, <1>8 DEF SameSides, Sides
<1> QED
  BY <1>2, <1>4, <1>6, <1>7, <1>8, <1>9, <1>10 DEF Changed, Shifted

\* One side is higher or lower by one.
Reweighed(a, b, c, e) ==
    /\ b - c \in -2 .. 2
    /\ 1 + Taller(a, b) = 1 + Taller(c, b) + e - (IF b - c = 0 THEN 0 ELSE 1)
Step(e) == IF e = 0 THEN 1 ELSE -1
LEMMA HeightsShift ==
    ASSUME NEW a \in Nat, NEW b \in Nat, NEW c \in Nat, NEW e \in {0, 1}, c = a + Step(e),
           b - a \in -1 .. 1
    PROVE  Reweighed(a, b, c, e)
<1>1. CASE e = 0
  BY <1>1 DEF Taller, Reweighed, Step
<1>2. CASE e = 1
  BY <1>2 DEF Taller, Reweighed, Step
<1> QED
  BY <1>1, <1>2

NewHeight(h, n, e, u, top) == h[n] - e + (IF u.node[top].balance = 0 THEN 0 ELSE 1)
Toward(t, n, p, by) == IF IsLeftNode(t, n, p) THEN -by ELSE by

\* After a round the subtree has its old height, and all is settled ...
LEMMA RoundSettles ==
    ASSUME NEW t, NEW u, NEW E, NEW D, NEW pos, NEW lo, NEW hi, NEW up,
           Shape(t, D, pos, lo, hi, up),
           NEW n, NEW p, Below(t, D, n, p), NEW h, NEW e, Unsettled(t, D, h, n, e),
           NEW top, Rounded(t, u, E, D, pos, up, h, n, e, top, p),
           p = NULL \/ h[n] = NewHeight(h, n, e, u, top)
    PROVE  \E k : Settled(u, D, k)
<1>1. PICK k \in [D -> Nat] :
          /\ \A m \in D \ {p} : Level(u, k, m)
          /\ p # NULL => k[p] = h[p]
          /\ k[top] = h[n] - e + (IF u.node[top].balance = 0 THEN 0 ELSE 1)
          /\ NewBelow(t, u, h, k, n, top, p)
  BY DEF Rounded
<1>2. ASSUME p # NULL PROVE Level(u, k, p)
  <2>1. p \in D /\ p # n
    BY <1>2, ParentUnique DEF Below, Unsettled
  <2>2. Level(t, h, p)
    BY <2>1 DEF Unsettled
  <2>3. k[top] = h[n]
    BY <1>1, <1>2 DEF NewHeight
  <2>4. u.node[p].balance = t.node[p].balance
    BY <1>2 DEF Rounded
  <2>5. CASE LeftOf(t, n, p)
    <3>1. LeftHeight(t, h, p) = h[n]
      BY <2>5 DEF LeftOf, LeftHeight
    <3>2. LeftHeight(u, k, p) = k[top] /\ RightHeight(u, k, p) = RightHeight(t, h, p)
      BY <1>1, <1>2, <2>5 DEF NewBelow
    <3> QED
      BY <1>1, <1>2, <2>2, <2>3, <2>4, <3>1, <3>2 DEF Level, Exact, Tall
  <2>6. CASE ~LeftOf(t, n, p)
    <3>1. RightHeight(t, h, p) = h[n]
      BY <1>2, <2>6 DEF Below, RightOf, RightHeight
    <3>2. LeftHeight(u, k, p) = LeftHeight(t, h, p) /\ RightHeight(u, k, p) = k[top]
      BY <1>1, <1>2, <2>6 DEF NewBelow
    <3> QED
      BY <1>1, <1>2, <2>2, <2>3, <2>4, <3>1, <3>2 DEF Level, Exact, Tall
  <2> QED
    BY <2>5, <2>6
<1>3. NULL \notin D
  BY DEF Shape, Ghosts
<1> QED
  BY <1>1, <1>2, <1>3 DEF Settled

\* ... or not, and its parent is unsettled.
LEMMA RoundUnsettles ==
    ASSUME NEW t, NEW u, NEW E, TreeType(t, E), NEW D, D \subseteq E,
           NEW pos, NEW lo, NEW hi, NEW up, Shape(t, D, pos, lo, hi, up),
           NEW n, NEW p, Below(t, D, n, p), NEW h, NEW e, Unsettled(t, D, h, n, e),
           NEW top, Rounded(t, u, E, D, pos, up, h, n, e, top, p),
           p # NULL, NEW by, by = Step(e),
           NewHeight(h, n, e, u, top) = h[n] + by,
           NEW s, s = Toward(t, n, p, by),
           NEW v, v = Shift(u, p, s)
    PROVE  \E k : Unsettled(v, D, k, p, e)
<1>1. PICK k \in [D -> Nat] :
          /\ \A m \in D \ {p} : Level(u, k, m)
          /\ p # NULL => k[p] = h[p]
          /\ k[top] = h[n] - e + (IF u.node[top].balance = 0 THEN 0 ELSE 1)
          /\ NewBelow(t, u, h, k, n, top, p)
  BY DEF Rounded
<1>2. p \in D /\ p # n /\ n \in D /\ top \in D /\ p \in E /\ TreeType(u, E)
  BY ParentUnique DEF Below, Unsettled, Rounded, Untouched
<1>3. Level(t, h, p) /\ h \in [D -> Nat]
  BY <1>2 DEF Unsettled
<1>4. k[top] = h[n] + by /\ k[p] = h[p]
  BY <1>1 DEF NewHeight
<1>5. e \in {0, 1} /\ by \in Int /\ s \in Int
  BY DEF Unsettled, Step, Toward
<1>6. /\ v.node[p].balance = u.node[p].balance + s
      /\ \A m \in D : SameSides(u, v, m)
      /\ \A m \in D \ {p} : v.node[m] = u.node[m]
  <2>1. Shifted(u, v, E, p, s)
    BY <1>2, <1>5, ShiftNodes
  <2> QED
    BY <1>2, <2>1 DEF Shifted
<1>7. u.node[p].balance = t.node[p].balance
  BY DEF Rounded
<1>8. ASSUME NEW m \in D PROVE LeftHeight(v, k, m) = LeftHeight(u, k, m) /\ RightHeight(v, k, m) = RightHeight(u, k, m)
  BY <1>6 DEF SameSides, Sides, LeftHeight, RightHeight
<1>9. ASSUME NEW m \in D \ {p} PROVE Level(v, k, m)
  BY <1>1, <1>6, <1>8 DEF Level, Exact, Tall
<1>10. LeftHeight(t, h, p) \in Nat /\ RightHeight(t, h, p) \in Nat
  BY <1>2, <1>3, HeightsNatural
<1>11. IsLeftNode(t, n, p) <=> LeftOf(t, n, p)
  BY <1>2, ParentUnique DEF IsLeftNode
<1>12. /\ Exact(v, k, p) /\ v.node[p].balance \in -2 .. 2
       /\ k[p] = 1 + Taller(LeftHeight(v, k, p), RightHeight(v, k, p))
                   + e - (IF v.node[p].balance = 0 THEN 0 ELSE 1)
  <2>1. PICK a, b, c : a = LeftHeight(t, h, p) /\ b = RightHeight(t, h, p) /\ c = k[top]
    OBVIOUS
  <2>2. a \in Nat /\ b \in Nat /\ c \in Nat
    BY <1>1, <1>2, <1>10, <2>1
  <2>3. t.node[p].balance = b - a /\ h[p] = 1 + Taller(a, b) /\ b - a \in -1 .. 1
    BY <1>3, <2>1, <2>2 DEF Level, Exact, Tall, Balanced
  <2>4. CASE LeftOf(t, n, p)
    <3>1. a = h[n] /\ c = a + by
      BY <1>4, <2>1, <2>4 DEF LeftOf, LeftHeight
    <3>2. LeftHeight(v, k, p) = c /\ RightHeight(v, k, p) = b
      BY <1>1, <1>2, <1>8, <2>1, <2>4 DEF NewBelow
    <3>3. v.node[p].balance = b - a + (-by)
      BY <1>5, <1>6, <1>7, <1>11, <2>3, <2>4 DEF Toward
    <3>4. v.node[p].balance = b - c
      BY <1>5, <2>2, <3>1, <3>3
    <3>5. /\ b - c \in -2 .. 2
          /\ 1 + Taller(a, b) = 1 + Taller(c, b) + e - (IF b - c = 0 THEN 0 ELSE 1)
      <4>1. Reweighed(a, b, c, e)
        BY <1>5, <2>2, <2>3, <3>1, HeightsShift
      <4> QED
        BY <4>1 DEF Reweighed
    <3> QED
      BY <1>4, <2>3, <3>2, <3>4, <3>5 DEF Exact
  <2>5. CASE ~LeftOf(t, n, p)
    <3>1. b = h[n] /\ c = b + by
      BY <1>4, <2>1, <2>5 DEF Below, RightOf, RightHeight
    <3>2. LeftHeight(v, k, p) = a /\ RightHeight(v, k, p) = c
      BY <1>1, <1>2, <1>8, <2>1, <2>5 DEF NewBelow
    <3>3. v.node[p].balance = b - a + by
      BY <1>5, <1>6, <1>7, <1>11, <2>3, <2>5 DEF Toward
    <3>4. v.node[p].balance = c - a /\ a - b \in -1 .. 1
      BY <1>5, <2>2, <2>3, <3>1, <3>3
    <3>5. /\ a - c \in -2 .. 2
          /\ 1 + Taller(b, a) = 1 + Taller(c, a) + e - (IF a - c = 0 THEN 0 ELSE 1)
      <4>1. Reweighed(b, a, c, e)
        BY <1>5, <2>2, <3>1, <3>4, HeightsShift
      <4> QED
        BY <4>1 DEF Reweighed
    <3>6. Taller(b, a) = Taller(a, b) /\ Taller(c, a) = Taller(a, c)
      BY <2>2, TallerSymmetric
    <3>7. c - a \in -2 .. 2 /\ (a - c = 0 <=> c - a = 0)
      BY <2>2, <3>5
    <3> QED
      BY <1>4, <2>3, <3>2, <3>4, <3>5, <3>6, <3>7 DEF Exact
  <2> QED
    BY <2>4, <2>5
<1> QED
  BY <1>1, <1>2, <1>9, <1>12 DEF Unsettled

LEMMA ChainUp ==
    ASSUME NEW t, NEW D, NEW pos, NEW lo, NEW hi, NEW up, Shape(t, D, pos, lo, hi, up),
           NEW way, way \in Seq(D), NEW i \in 1 .. Len(way), Chain(t, D, way, i),
           NEW j \in 1 .. i
    PROVE  /\ way[j] \in D
           /\ j = 1 => Below(t, D, way[j], NULL) /\ up[way[j]] = NULL
           /\ j > 1 => Below(t, D, way[j], way[j - 1]) /\ up[way[j]] = way[j - 1] /\ way[j - 1] \in D
<1>1. way[j] \in D /\ (j > 1 => way[j - 1] \in D)
  OBVIOUS
<1>2. CASE j = 1
  <2>1. Below(t, D, way[j], NULL)
    BY <1>2 DEF Chain, Below
  <2> QED
    BY <1>1, <1>2, <2>1, ParentUnique
<1>3. CASE j > 1
  <2>1. Below(t, D, way[(j - 1) + 1], way[j - 1])
    BY <1>3 DEF Chain
  <2>2. Below(t, D, way[j], way[j - 1])
    BY <2>1
  <2> QED
    BY <1>1, <1>3, <2>2, ParentUnique
<1> QED
  BY <1>2, <1>3

LEMMA BelowSame ==
    ASSUME NEW t, NEW u, NEW D, NEW n, NEW p \in D, SameSides(t, u, p), Below(t, D, n, p),
           NULL \notin D
    PROVE  Below(u, D, n, p)
BY DEF Below, SameSides, Sides, LeftOf, RightOf

\* A round leaves the way above the parent as it is.
LEMMA ChainKept ==
    ASSUME NEW t, NEW D, NEW pos, NEW lo, NEW hi, NEW up, Shape(t, D, pos, lo, hi, up),
           NEW way, OnceEach(way, D), NEW i \in 2 .. Len(way), Chain(t, D, way, i),
           NEW u, u.root = t.root,
           \A m \in D : SameSides(t, u, m) \/ Near(up, D, way[i], way[i - 1], m)
    PROVE  Chain(u, D, way, i - 1)
<1>1. way \in Seq(D) /\ NULL \notin D
  BY DEF OnceEach, Shape, Ghosts
<1>2. i - 1 > 0 => way[1] = u.root
  BY DEF Chain
<1>3. ASSUME NEW j \in 1 .. (i - 1) - 1
      PROVE  Below(u, D, way[j + 1], way[j])
  <2>1. way[j] \in D /\ way[j] # way[i] /\ way[j] # way[i - 1]
    BY <1>1, <1>3 DEF OnceEach
  <2>2. up[way[j]] # way[i]
    <3>1. CASE j = 1
      BY <1>1, <1>3, <3>1, ChainUp
    <3>2. CASE j > 1
      <4>1. up[way[j]] = way[j - 1]
        BY <1>1, <1>3, <3>2, ChainUp
      <4>2. j - 1 \in 1 .. Len(way) /\ i \in 1 .. Len(way) /\ j - 1 # i
        BY <1>1, <1>3, <3>2
      <4> QED
        BY <4>1, <4>2 DEF OnceEach
    <3> QED
      BY <1>3, <3>1, <3>2
  <2>3. up[way[j]] \in D => up[up[way[j]]] # way[i]
    <3> SUFFICES ASSUME up[way[j]] \in D PROVE up[up[way[j]]] # way[i]
      OBVIOUS
    <3>1. j > 1 /\ up[way[j]] = way[j - 1]
      BY <1>1, <1>3, ChainUp
    <3>2. j - 1 \in 1 .. i
      BY <1>3, <3>1
    <3>3. CASE j - 1 = 1
      BY <1>1, <3>1, <3>2, <3>3, ChainUp
    <3>4. CASE j - 1 > 1
      <4>1. up[way[j - 1]] = way[(j - 1) - 1]
        <5>1. PICK k : k = j - 1 /\ k \in 1 .. i /\ k > 1
          BY <3>2, <3>4
        <5>2. up[way[k]] = way[k - 1]
          BY <1>1, <5>1, ChainUp
        <5> QED
          BY Zenon, <5>1, <5>2
      <4>2. (j - 1) - 1 \in 1 .. Len(way) /\ i \in 1 .. Len(way) /\ (j - 1) - 1 # i
        BY <1>1, <1>3, <3>4
      <4> QED
        BY <3>1, <4>1, <4>2 DEF OnceEach
    <3> QED
      BY <3>1, <3>2, <3>3, <3>4
  <2>4. SameSides(t, u, way[j])
    BY <2>1, <2>2, <2>3 DEF Near
  <2>5. Below(t, D, way[j + 1], way[j])
    BY SMTT(40), <1>3 DEF Chain
  <2> QED
    BY <1>1, <2>1, <2>4, <2>5, BelowSame
<1> QED
  BY <1>2, <1>3 DEF Chain

LEMMA ChainSame ==
    ASSUME NEW t, NEW u, NEW D, NULL \notin D, NEW way, way \in Seq(D), NEW i \in 0 .. Len(way),
           Chain(t, D, way, i), u.root = t.root, \A m \in D : SameSides(t, u, m)
    PROVE  Chain(u, D, way, i)
<1>1. i > 0 => way[1] = u.root
  BY DEF Chain
<1>2. ASSUME NEW j \in 1 .. i - 1 PROVE Below(u, D, way[j + 1], way[j])
  <2>1. way[j] \in D /\ Below(t, D, way[j + 1], way[j])
    BY <1>2 DEF Chain
  <2> QED
    BY <2>1, BelowSame
<1> QED
  BY <1>1, <1>2 DEF Chain

LEMMA UntouchedTwice ==
    ASSUME NEW t, NEW u, NEW v, NEW E, NEW D, D \subseteq E,
           Untouched(t, u, E, D), Untouched(u, v, E, D)
    PROVE  Untouched(t, v, E, D)
BY DEF Untouched, SameData

\* One round of the loop: k counts them.
Climb(way, by, before, k) ==
    LET i      == Len(way) + 1 - k
        parent == IF i = 1 THEN NULL ELSE way[i - 1]
        x      == Rebalanced(before.tree, way[i], parent)
        same   == (x.tree.node[x.top].balance = 0) = (by = 1)
        left   == IsLeftNode(before.tree, way[i], parent)
    IN IF before.done THEN before
       ELSE IF same \/ parent = NULL
       THEN [tree |-> x.tree, done |-> TRUE]
       ELSE [tree |-> Shift(x.tree, parent, IF left THEN -by ELSE by),
             done |-> FALSE]

\* What holds after k rounds on the way up from a tree t.
Climbing(t, E, D, pos, e, way, c, k) ==
    /\ Untouched(t, c.tree, E, D)
    /\ \E lo, hi, up : Shape(c.tree, D, pos, lo, hi, up)
    /\ c.done \in BOOLEAN
    /\ c.done \/ Len(way) = 0 => \E h : Settled(c.tree, D, h)
    /\ ~c.done /\ Len(way) > 0 =>
          /\ k < Len(way) /\ Chain(c.tree, D, way, Len(way) - k)
          /\ \E h : Unsettled(c.tree, D, h, way[Len(way) - k], e)

LEMMA ClimbKeeps ==
    ASSUME NEW t, NEW E, NEW D, D \subseteq E, NEW pos, NEW e \in {0, 1}, NEW by, by = Step(e),
           NEW way, OnceEach(way, D), NEW k \in 1 .. Len(way),
           NEW b, Climbing(t, E, D, pos, e, way, b, k - 1),
           NEW c, c = Climb(way, by, b, k)
    PROVE  Climbing(t, E, D, pos, e, way, c, k)
<1>1. CASE b.done
  <2>1. c = b
    BY <1>1 DEF Climb
  <2> QED
    BY Zenon, <1>1, <2>1 DEF Climbing
<1>2. CASE ~b.done
  <2>1. PICK i, n, p, q : /\ i = Len(way) + 1 - k /\ n = way[i]
                          /\ p = (IF i = 1 THEN NULL ELSE way[i - 1]) /\ q = b.tree
    OBVIOUS
  <2>2. way \in Seq(D) /\ i \in 1 .. Len(way) /\ n \in D /\ Len(way) - (k - 1) = i /\ Len(way) > 0
    BY <2>1 DEF OnceEach
  <2>3. PICK lo, hi, up : Shape(q, D, pos, lo, hi, up)
    BY <2>1 DEF Climbing
  <2>4. Untouched(t, q, E, D) /\ Chain(q, D, way, i)
    BY <1>2, <2>1, <2>2 DEF Climbing
  <2>5. PICK h : Unsettled(q, D, h, n, e)
    BY <1>2, <2>1, <2>2 DEF Climbing
  <2>6. Below(q, D, n, p) /\ NULL \notin D
    <3>1. /\ i = 1 => Below(q, D, way[i], NULL)
          /\ i > 1 => Below(q, D, way[i], way[i - 1])
      BY <2>2, <2>3, <2>4, ChainUp
    <3>2. NULL \notin D
      BY <2>3 DEF Shape, Ghosts
    <3> QED
      BY <2>1, <2>2, <3>1, <3>2
  <2>7. PICK x : x = Rebalanced(q, n, p)
    OBVIOUS
  <2>8. PICK u, top : u = x.tree /\ top = x.top
    OBVIOUS
  <2>9. Rounded(q, u, E, D, pos, up, h, n, e, top, p)
    <3>1. TreeType(q, E)
      BY <2>4 DEF Untouched
    <3> QED
      BY <2>3, <2>5, <2>6, <2>7, <2>8, <3>1, RebalancedRounds
  <2>10. Untouched(q, u, E, D) /\ \E lo2, hi2, up2 : Shape(u, D, pos, lo2, hi2, up2)
    BY <2>9 DEF Rounded
  <2>11. Untouched(t, u, E, D)
    BY <2>4, <2>10, UntouchedTwice
  <2>12. PICK same : same = ((u.node[top].balance = 0) = (by = 1))
    OBVIOUS
  <2>16. same <=> NewHeight(h, n, e, u, top) = h[n]
    <3>1. h[n] \in Nat
      BY <2>2, <2>5 DEF Unsettled
    <3>2. PICK z : z = u.node[top].balance
      OBVIOUS
    <3>3. same <=> ((z = 0) <=> (by = 1))
      BY Zenon, <2>12, <3>2
    <3>4. same <=> ((z = 0) <=> (e = 0))
      BY <3>3 DEF Step
    <3>5. NewHeight(h, n, e, u, top) = h[n] - e + (IF z = 0 THEN 0 ELSE 1)
      BY <3>2 DEF NewHeight
    <3> QED
      BY <3>1, <3>4, <3>5
  <2>17. ~same => NewHeight(h, n, e, u, top) = h[n] + by
    <3>1. h[n] \in Nat
      BY <2>2, <2>5 DEF Unsettled
    <3>2. PICK z : z = u.node[top].balance
      OBVIOUS
    <3>3. NewHeight(h, n, e, u, top) = h[n] - e + (IF z = 0 THEN 0 ELSE 1)
      BY <3>2 DEF NewHeight
    <3>4. by = IF e = 0 THEN 1 ELSE -1
      BY SMTT(40) DEF Step
    <3> QED
      BY <2>16, <3>1, <3>3, <3>4
  <2>13. c = IF same \/ p = NULL THEN [tree |-> u, done |-> TRUE]
             ELSE [tree |-> Shift(u, p, IF IsLeftNode(q, n, p) THEN -by ELSE by), done |-> FALSE]
    BY Zenon, <1>2, <2>1, <2>7, <2>8, <2>12 DEF Climb
  <2>14. CASE same \/ p = NULL
    <3>1. c = [tree |-> u, done |-> TRUE]
      BY <2>13, <2>14
    <3>2. p = NULL \/ h[n] = NewHeight(h, n, e, u, top)
      BY <2>14, <2>16
    <3>3. \E g : Settled(u, D, g)
      BY <2>3, <2>5, <2>6, <2>9, <3>2, RoundSettles
    <3> QED
      BY <2>10, <2>11, <3>1, <3>3 DEF Climbing
  <2>15. CASE ~(same \/ p = NULL)
    <3>1. PICK s, v : s = Toward(q, n, p, by) /\ v = Shift(u, p, s)
      OBVIOUS
    <3>2. c = [tree |-> v, done |-> FALSE]
      BY <2>13, <2>15, <3>1 DEF Toward
    <3>3. i \in 2 .. Len(way) /\ p = way[i - 1] /\ p \in D /\ p \in E /\ s \in Int
      <4>1. i # 1
        BY <2>1, <2>15
      <4>2. by \in Int /\ -by \in Int
        BY DEF Step
      <4> QED
        BY SMTT(40), <2>1, <2>2, <3>1, <4>1, <4>2 DEF Toward
    <3>4. NewHeight(h, n, e, u, top) = h[n] + by
      BY <2>15, <2>17
    <3>5. \E g : Unsettled(v, D, g, p, e)
      <4>1. TreeType(q, E) /\ p # NULL
        BY <2>4, <2>15 DEF Untouched
      <4> QED
        BY <2>3, <2>5, <2>6, <2>9, <3>1, <3>4, <4>1, RoundUnsettles
    <3>6. Shifted(u, v, E, p, s)
      <4>1. TreeType(u, E)
        BY <2>10 DEF Untouched
      <4> QED
        BY <3>1, <3>3, <4>1, ShiftNodes
    <3>7. /\ v.root = u.root /\ \A m \in D : SameSides(u, v, m)
          /\ Untouched(u, v, E, D)
      BY <3>3, <3>6 DEF Shifted, Untouched
    <3>8. Untouched(t, v, E, D)
      BY <2>11, <3>7, UntouchedTwice
    <3>9. \E lo2, hi2, up2 : Shape(v, D, pos, lo2, hi2, up2)
      <4>1. PICK lo2, hi2, up2 : Shape(u, D, pos, lo2, hi2, up2)
        BY <2>10
      <4> QED
        BY <3>7, <4>1, ShapeSame
    <3>10. Chain(v, D, way, i - 1)
      <4>1. Chain(u, D, way, i - 1)
        <5>1. /\ u.root = q.root
              /\ \A m \in D : SameSides(q, u, m) \/ Near(up, D, way[i], way[i - 1], m)
          BY Zenon, <2>1, <2>9, <2>15, <3>3 DEF Rounded
        <5> QED
          BY <2>3, <2>4, <3>3, <5>1, ChainKept
      <4> QED
        BY <2>2, <2>6, <3>3, <3>7, <4>1, ChainSame
    <3>11. k < Len(way) /\ Len(way) - k = i - 1
      BY <2>1, <2>2, <3>3
    <3> QED
      BY <2>2, <3>2, <3>3, <3>5, <3>8, <3>9, <3>10, <3>11 DEF Climbing
  <2> QED
    BY <2>14, <2>15
<1> QED
  BY <1>1, <1>2

Climbs(t, way, by, f, max) ==
    f = [k \in 0 .. max |->
            IF k = 0 THEN [tree |-> t, done |-> FALSE] ELSE Climb(way, by, f[k - 1], k)]

LEMMA ClimbsExists ==
    ASSUME NEW t, NEW way, NEW by
    PROVE  \A max \in Nat : \E f : Climbs(t, way, by, f, max)
<1> DEFINE S == {k \in Nat : \E f : Climbs(t, way, by, f, k)}
<1>1. 0 \in S
  <2>1. PICK f : f = [k \in 0 .. 0 |-> [tree |-> t, done |-> FALSE]]
    BY Zenon
  <2>2. Climbs(t, way, by, f, 0)
    BY <2>1 DEF Climbs
  <2> QED
    BY <2>2
<1>2. ASSUME NEW k \in Nat, k \in S
      PROVE  k + 1 \in S
  <2>1. PICK f : Climbs(t, way, by, f, k)
    BY <1>2
  <2>2. PICK last : last = Climb(way, by, f[k], k + 1)
    OBVIOUS
  <2>3. PICK g : g = [n \in 0 .. k + 1 |-> IF n = k + 1 THEN last ELSE f[n]]
    BY Zenon
  <2>4. ASSUME NEW n \in 0 .. k + 1
        PROVE  g[n] = IF n = 0 THEN [tree |-> t, done |-> FALSE] ELSE Climb(way, by, g[n - 1], n)
    <3>1. CASE n = k + 1
      <4>1. g[n] = last /\ n # 0 /\ n - 1 = k /\ g[k] = f[k]
        BY <2>3, <3>1
      <4> QED
        BY <2>2, <3>1, <4>1
    <3>2. CASE n # k + 1
      <4>1. n \in 0 .. k /\ g[n] = f[n] /\ (n # 0 => n - 1 \in 0 .. k /\ g[n - 1] = f[n - 1])
        BY <2>3, <3>2
      <4>2. f[n] = IF n = 0 THEN [tree |-> t, done |-> FALSE] ELSE Climb(way, by, f[n - 1], n)
        BY Zenon, <2>1, <4>1 DEF Climbs
      <4> QED
        BY <4>1, <4>2
    <3> QED
      BY <3>1, <3>2
  <2>5. PICK G : G = [n \in 0 .. k + 1 |->
            IF n = 0 THEN [tree |-> t, done |-> FALSE] ELSE Climb(way, by, g[n - 1], n)]
    BY Zenon
  <2>6. g = G
    BY Zenon, <2>3, <2>4, <2>5
  <2>7. Climbs(t, way, by, g, k + 1)
    BY Zenon, <2>5, <2>6 DEF Climbs
  <2> QED
    BY <2>7
<1>3. \A k \in Nat : k \in S
  <2> HIDE DEF S
  <2> QED
    BY <1>1, <1>2, Induction
<1> QED
  BY <1>3

LEMMA RestoreClimbs ==
    ASSUME NEW t, NEW by, NEW way, Len(way) \in Nat
    PROVE  \E f : Climbs(t, way, by, f, Len(way)) /\ Restore(t, way, by) = f[Len(way)].tree
<1> DEFINE after == CHOOSE f : Climbs(t, way, by, f, Len(way))
<1>1. Climbs(t, way, by, after, Len(way))
  BY ClimbsExists
<1>2. Restore(t, way, by) = after[Len(way)].tree
  BY DEF Restore, Climb, Climbs
<1> QED
  BY Zenon, <1>1, <1>2

\* The balance is restored: from a tree in which one node is unsettled to one
\* that has its shape, the same nodes in order, and exact balances.
THEOREM RestoreKeeps ==
    ASSUME NEW t, NEW E, TreeType(t, E), NEW D, D \subseteq E,
           NEW pos, \E lo, hi, up : Shape(t, D, pos, lo, hi, up),
           NEW e \in {0, 1}, NEW by, by = Step(e),
           NEW way, OnceEach(way, D), Chain(t, D, way, Len(way)),
           IF Len(way) = 0 THEN \E h : Settled(t, D, h)
                           ELSE \E h : Unsettled(t, D, h, way[Len(way)], e),
           NEW u, u = Restore(t, way, by)
    PROVE  /\ Untouched(t, u, E, D)
           /\ \E lo, hi, up : Shape(u, D, pos, lo, hi, up)
           /\ \E h : Settled(u, D, h)
<1>1. Len(way) \in Nat
  BY DEF OnceEach
<1>2. PICK f : Climbs(t, way, by, f, Len(way)) /\ u = f[Len(way)].tree
  BY <1>1, RestoreClimbs
<1>3. f[0] = [tree |-> t, done |-> FALSE] /\ \A k \in 1 .. Len(way) : f[k] = Climb(way, by, f[k - 1], k)
  <2>1. 0 \in 0 .. Len(way) /\ \A k \in 1 .. Len(way) : k \in 0 .. Len(way) /\ k # 0
    BY <1>1
  <2>2. \A k \in 0 .. Len(way) :
           f[k] = IF k = 0 THEN [tree |-> t, done |-> FALSE] ELSE Climb(way, by, f[k - 1], k)
    BY Zenon, <1>2 DEF Climbs
  <2> QED
    BY Zenon, <2>1, <2>2
<1> DEFINE S == {k \in Nat : k <= Len(way) => Climbing(t, E, D, pos, e, way, f[k], k)}
<1>4. 0 \in S
  <2>1. PICK c : c = f[0] /\ c.tree = t /\ c.done = FALSE
    BY <1>3
  <2>2. Untouched(t, t, E, D)
    BY DEF Untouched, SameData
  <2>3. Climbing(t, E, D, pos, e, way, c, 0)
    <3>1. Len(way) - 0 = Len(way) /\ (Len(way) > 0 => 0 < Len(way))
      BY <1>1
    <3>2. /\ Len(way) = 0 => \E h : Settled(t, D, h)
          /\ Len(way) > 0 => \E h : Unsettled(t, D, h, way[Len(way)], e)
      BY <1>1
    <3> QED
      BY Zenon, <2>1, <2>2, <3>1, <3>2 DEF Climbing
  <2> QED
    BY <2>1, <2>3
<1>5. ASSUME NEW k \in Nat, k \in S
      PROVE  k + 1 \in S
  <2> SUFFICES ASSUME k + 1 <= Len(way)
               PROVE  Climbing(t, E, D, pos, e, way, f[k + 1], k + 1)
    OBVIOUS
  <2>1. PICK b, c, j : b = f[k] /\ c = f[k + 1] /\ j = k + 1
    OBVIOUS
  <2>2. j \in 1 .. Len(way) /\ j - 1 = k
    BY <1>1, <2>1
  <2>3. c = Climb(way, by, b, j)
    BY <1>3, <2>1, <2>2
  <2>4. Climbing(t, E, D, pos, e, way, b, j - 1)
    BY <1>1, <1>5, <2>1, <2>2
  <2>5. Climbing(t, E, D, pos, e, way, c, j)
    BY Zenon, <2>2, <2>3, <2>4, ClimbKeeps
  <2> QED
    BY <2>1, <2>5
<1>6. \A k \in Nat : k \in S
  <2> HIDE DEF S
  <2> QED
    BY Zenon, <1>4, <1>5, Induction
<1>7. PICK c : c = f[Len(way)] /\ u = c.tree /\ Climbing(t, E, D, pos, e, way, c, Len(way))
  BY <1>1, <1>2, <1>6
<1>8. c.done \/ Len(way) = 0
  BY <1>1, <1>7 DEF Climbing
<1> QED
  BY <1>7, <1>8 DEF Climbing

-----------------------------------------------------------------------------
(* Walking.                                                                 *)

\* The walk ends: what step leads to has a lower rank.
Ranked(step, D, rank, max) ==
    /\ step \in [D -> D \cup {NULL}] /\ NULL \notin D
    /\ rank \in [D -> 0 .. max] /\ max \in Nat
    /\ \A m \in D : step[m] # NULL => rank[step[m]] < rank[m]

Walk(step, f, m) == IF step[m] = NULL THEN <<m>> ELSE <<m>> \o f[step[m]]

LEMMA FollowExists ==
    ASSUME NEW step, NEW D, NEW rank, NEW max, Ranked(step, D, rank, max)
    PROVE  \E f : f = [m \in D |-> Walk(step, f, m)]
<1> DEFINE Low(k) == {m \in D : rank[m] < k}
           F(f, k) == f = [m \in Low(k) |-> Walk(step, f, m)]
           S == {k \in Nat : \E f : F(f, k)}
<1>0. rank \in [D -> 0 .. max] /\ max \in Nat /\ \A m \in D : step[m] # NULL => step[m] \in D /\ rank[step[m]] < rank[m]
  BY DEF Ranked
<1>1. 0 \in S
  <2>1. PICK f : f = [m \in Low(0) |-> m]
    BY Zenon
  <2>2. PICK g : g = [m \in Low(0) |-> Walk(step, f, m)]
    BY Zenon
  <2>3. Low(0) = {}
    BY <1>0
  <2>4. f = g
    BY <2>1, <2>2, <2>3
  <2>5. F(f, 0)
    BY <2>2, <2>4
  <2> HIDE DEF F
  <2> QED
    BY <2>5
<1>2. ASSUME NEW k \in Nat, k \in S
      PROVE  k + 1 \in S
  <2>1. PICK f : F(f, k)
    BY <1>2
  <2>2. PICK g : g = [m \in Low(k + 1) |-> Walk(step, f, m)]
    BY Zenon
  <2>3. \A m \in Low(k) : m \in Low(k + 1) /\ g[m] = f[m]
    <3> SUFFICES ASSUME NEW m \in Low(k) PROVE m \in Low(k + 1) /\ g[m] = f[m]
      OBVIOUS
    <3>1. m \in Low(k + 1)
      BY <1>0
    <3>2. f[m] = Walk(step, f, m)
      BY <2>1
    <3> QED
      BY <2>2, <3>1, <3>2
  <2>4. \A m \in Low(k + 1) : Walk(step, g, m) = Walk(step, f, m)
    <3> SUFFICES ASSUME NEW m \in Low(k + 1) PROVE Walk(step, g, m) = Walk(step, f, m)
      OBVIOUS
    <3>1. step[m] # NULL => step[m] \in Low(k)
      BY <1>0
    <3>2. step[m] # NULL => g[step[m]] = f[step[m]]
      BY <2>3, <3>1
    <3> HIDE DEF Low
    <3> QED
      BY <3>2 DEF Walk
  <2>5. F(g, k + 1)
    BY <2>2, <2>4
  <2> HIDE DEF F
  <2> QED
    BY <2>5
<1>3. \A k \in Nat : k \in S
  <2> HIDE DEF S
  <2> QED
    BY <1>1, <1>2, Induction
<1>4. PICK f : F(f, max + 1)
  BY SMTT(40), <1>0, <1>3
<1>5. Low(max + 1) = D
  BY <1>0
<1> QED
  BY <1>4, <1>5

LEMMA FollowStep ==
    ASSUME NEW step, NEW D, NEW rank, NEW max, Ranked(step, D, rank, max), NEW n \in D
    PROVE  /\ step[n] = NULL => Follow(step, n) = <<n>>
           /\ step[n] # NULL => Follow(step, n) = <<n>> \o Follow(step, step[n])
<1> DEFINE nodes == CHOOSE f : f = [m \in D |-> Walk(step, f, m)]
<1>1. nodes = [m \in D |-> Walk(step, nodes, m)]
  BY FollowExists
<1>2. DOMAIN step = D /\ (step[n] # NULL => step[n] \in D)
  BY DEF Ranked
<1>3. \A m \in D : Follow(step, m) = nodes[m]
  BY <1>2 DEF Follow, Walk
<1> HIDE DEF nodes
<1>4. nodes[n] = Walk(step, nodes, n)
  BY <1>1
<1> QED
  BY Zenon, <1>2, <1>3, <1>4 DEF Walk

\* w leads from n by step to where step ends.
Trail(step, D, w, n) ==
    /\ w \in Seq(D) /\ Len(w) >= 1 /\ w[1] = n
    /\ \A j \in 1 .. Len(w) - 1 : step[w[j]] = w[j + 1]
    /\ step[w[Len(w)]] = NULL

LEMMA FollowTrails ==
    ASSUME NEW step, NEW D, NEW rank, NEW max, Ranked(step, D, rank, max)
    PROVE  \A n \in D : Trail(step, D, Follow(step, n), n)
<1> DEFINE S == {k \in Nat : \A n \in D : rank[n] < k => Trail(step, D, Follow(step, n), n)}
<1>0. rank \in [D -> 0 .. max] /\ max \in Nat /\ \A m \in D : step[m] # NULL => step[m] \in D /\ rank[step[m]] < rank[m]
  BY DEF Ranked
<1>1. 0 \in S
  BY <1>0
<1>2. ASSUME NEW k \in Nat, k \in S
      PROVE  k + 1 \in S
  <2> SUFFICES ASSUME NEW n \in D, rank[n] < k + 1
               PROVE  Trail(step, D, Follow(step, n), n)
    OBVIOUS
  <2>1. CASE step[n] = NULL
    <3>1. PICK w : w = <<n>> /\ w = Follow(step, n)
      BY Zenon, <2>1, FollowStep
    <3>2. w \in Seq(D) /\ Len(w) = 1 /\ w[1] = n
      BY <3>1
    <3>3. Trail(step, D, w, n)
      BY <2>1, <3>2 DEF Trail
    <3> QED
      BY <3>1, <3>3
  <2>2. CASE step[n] # NULL
    <3>1. PICK m, v, w : /\ m = step[n] /\ v = Follow(step, m) /\ w = <<n>> \o v
                         /\ w = Follow(step, n) /\ m \in D /\ rank[m] < k
      <4>1. step[n] \in D /\ rank[step[n]] < rank[n]
        BY <1>0, <2>2
      <4>2. rank[step[n]] < k
        BY <1>0, <4>1
      <4> QED
        BY <2>2, <4>1, <4>2, FollowStep
    <3>2. /\ v \in Seq(D) /\ Len(v) >= 1 /\ v[1] = m
          /\ \A j \in 1 .. Len(v) - 1 : step[v[j]] = v[j + 1]
          /\ step[v[Len(v)]] = NULL
      BY Zenon, <1>2, <3>1 DEF Trail
    <3>3. /\ w \in Seq(D) /\ Len(w) = Len(v) + 1 /\ w[1] = n
          /\ \A j \in 2 .. Len(w) : w[j] = v[j - 1]
      BY <3>1, <3>2
    <3>4. ASSUME NEW j \in 1 .. Len(w) - 1 PROVE step[w[j]] = w[j + 1]
      <4>1. CASE j = 1
        BY <3>1, <3>2, <3>3, <4>1
      <4>2. CASE j > 1
        <5>1. w[j] = v[j - 1] /\ w[j + 1] = v[j] /\ j - 1 \in 1 .. Len(v) - 1 /\ (j - 1) + 1 = j
          BY <3>2, <3>3, <4>2
        <5> QED
          BY <3>2, <5>1
      <4> QED
        BY <4>1, <4>2
    <3>5. w[Len(w)] = v[Len(v)]
      BY <3>2, <3>3
    <3>6. Trail(step, D, w, n)
      BY <3>2, <3>3, <3>4, <3>5 DEF Trail
    <3> QED
      BY <3>1, <3>6
  <2> QED
    BY <2>1, <2>2
<1>3. \A k \in Nat : k \in S
  <2> HIDE DEF S
  <2> QED
    BY <1>1, <1>2, Induction
<1>4. max + 1 \in S
  BY <1>0, <1>3
<1> QED
  BY <1>0, <1>4

\* Ranks fall along the walk, so that no node is met twice.
LEMMA TrailFalls ==
    ASSUME NEW step, NEW D, NEW rank, NEW max, Ranked(step, D, rank, max),
           NEW w, NEW n, Trail(step, D, w, n)
    PROVE  /\ \A i, j \in 1 .. Len(w) : i < j => rank[w[j]] < rank[w[i]]
           /\ OnceEach(w, D)
<1>0. /\ rank \in [D -> 0 .. max] /\ max \in Nat
      /\ \A m \in D : step[m] # NULL => step[m] \in D /\ rank[step[m]] < rank[m]
      /\ NULL \notin D
  BY DEF Ranked
<1>1. /\ w \in Seq(D) /\ Len(w) \in Nat /\ \A j \in 1 .. Len(w) : w[j] \in D /\ rank[w[j]] \in Nat
      /\ \A j \in 1 .. Len(w) - 1 : rank[w[j + 1]] < rank[w[j]]
  <2>1. w \in Seq(D) /\ Len(w) \in Nat /\ \A j \in 1 .. Len(w) : w[j] \in D /\ rank[w[j]] \in Nat
    BY <1>0 DEF Trail
  <2>2. ASSUME NEW j \in 1 .. Len(w) - 1 PROVE rank[w[j + 1]] < rank[w[j]]
    <3>1. step[w[j]] = w[j + 1] /\ w[j] \in D /\ w[j + 1] \in D
      BY <2>1 DEF Trail
    <3> QED
      BY <1>0, <3>1
  <2> QED
    BY <2>1, <2>2
<1> DEFINE S == {d \in Nat : \A i \in 1 .. Len(w) : i + d + 1 <= Len(w) => rank[w[i + d + 1]] < rank[w[i]]}
<1>2. 0 \in S
  BY <1>1
<1>3. ASSUME NEW d \in Nat, d \in S PROVE d + 1 \in S
  <2> SUFFICES ASSUME NEW i \in 1 .. Len(w), i + (d + 1) + 1 <= Len(w)
               PROVE  rank[w[i + (d + 1) + 1]] < rank[w[i]]
    OBVIOUS
  <2>1. PICK j : j = i + d + 1
    OBVIOUS
  <2>2. j \in 1 .. Len(w) - 1 /\ i + (d + 1) + 1 = j + 1 /\ rank[w[j]] < rank[w[i]]
    <3>1. j \in 1 .. Len(w) - 1 /\ i + (d + 1) + 1 = j + 1 /\ i + d + 1 <= Len(w)
      BY <1>1, <2>1
    <3> QED
      BY <1>3, <2>1, <3>1
  <2>3. rank[w[j + 1]] < rank[w[j]] /\ j + 1 \in 1 .. Len(w)
    BY <1>1, <2>2
  <2> QED
    BY SMTT(40), <1>1, <2>2, <2>3
<1>4. \A d \in Nat : d \in S
  <2> HIDE DEF S
  <2> QED
    BY <1>2, <1>3, Induction
<1>5. ASSUME NEW i \in 1 .. Len(w), NEW j \in 1 .. Len(w), i < j
      PROVE  rank[w[j]] < rank[w[i]]
  <2>1. j - i - 1 \in Nat /\ i + (j - i - 1) + 1 = j
    BY <1>1, <1>5
  <2>2. j - i - 1 \in S
    BY Zenon, <1>4, <2>1
  <2> QED
    BY <1>1, <2>1, <2>2
<1>6. ASSUME NEW i \in 1 .. Len(w), NEW j \in 1 .. Len(w), w[i] = w[j] PROVE i = j
  <2>1. i < j \/ j < i \/ i = j
    BY <1>1
  <2>2. ~(i < j) /\ ~(j < i)
    BY <1>1, <1>5, <1>6
  <2> QED
    BY <2>1, <2>2
<1> QED
  BY <1>1, <1>5, <1>6 DEF OnceEach

LEMMA RankBounded ==
    ASSUME NEW D, IsFiniteSet(D), NEW rank \in [D -> Nat]
    PROVE  \E max \in Nat : rank \in [D -> 0 .. max]
<1> DEFINE S == {k \in Nat : \A F \in SUBSET D : Cardinality(F) = k =>
                    \E max \in Nat : \A m \in F : rank[m] <= max}
<1>1. \A F \in SUBSET D : IsFiniteSet(F) /\ Cardinality(F) \in Nat
  BY FS_Subset, FS_CardinalityType
<1>2. 0 \in S
  <2> SUFFICES ASSUME NEW F \in SUBSET D, Cardinality(F) = 0
               PROVE  \E max \in Nat : \A m \in F : rank[m] <= max
    OBVIOUS
  <2>1. F = {}
    BY <1>1, FS_EmptySet
  <2> QED
    BY <2>1
<1>3. ASSUME NEW k \in Nat, k \in S PROVE k + 1 \in S
  <2> SUFFICES ASSUME NEW F \in SUBSET D, Cardinality(F) = k + 1
               PROVE  \E max \in Nat : \A m \in F : rank[m] <= max
    OBVIOUS
  <2>1. F # {}
    BY FS_EmptySet
  <2>2. PICK x : x \in F
    BY <2>1
  <2>3. Cardinality(F \ {x}) = k /\ F \ {x} \in SUBSET D
    BY <1>1, <2>2, FS_RemoveElement
  <2>4. PICK max \in Nat : \A m \in F \ {x} : rank[m] <= max
    BY <1>3, <2>3
  <2>5. rank[x] \in Nat /\ \A m \in F : rank[m] \in Nat
    BY <2>2
  <2>6. PICK b : b = IF rank[x] <= max THEN max ELSE rank[x]
    OBVIOUS
  <2>7. b \in Nat /\ \A m \in F : rank[m] <= b
    BY <2>4, <2>5, <2>6
  <2> QED
    BY <2>7
<1>4. \A k \in Nat : k \in S
  <2> HIDE DEF S
  <2> QED
    BY <1>2, <1>3, Induction
<1>5. Cardinality(D) \in Nat
  BY FS_CardinalityType
<1>6. PICK max \in Nat : \A m \in D : rank[m] <= max
  BY <1>4, <1>5
<1>7. \A m \in D : rank[m] \in 0 .. max
  BY <1>6
<1>8. rank \in [D -> 0 .. max]
  BY <1>7
<1> QED
  BY <1>8

\* A tree as the operations find and leave it.
Sound(t, D, pos, lo, hi, up, h) ==
    /\ TreeType(t, D) /\ IsFiniteSet(D) /\ t.nnodes = Cardinality(D)
    /\ Shape(t, D, pos, lo, hi, up)
    /\ Settled(t, D, h)

LEMMA SoundParts ==
    ASSUME NEW t, NEW D, NEW pos, NEW lo, NEW hi, NEW up, NEW h, Sound(t, D, pos, lo, hi, up, h)
    PROVE  /\ TreeType(t, D) /\ IsFiniteSet(D) /\ Shape(t, D, pos, lo, hi, up) /\ Settled(t, D, h)
           /\ DOMAIN t.node = D /\ NULL \notin D
           /\ \A m \in D : /\ LeftPlaced(t, D, pos, lo, hi, up, m) /\ RightPlaced(t, D, pos, lo, hi, up, m)
                           /\ Level(t, h, m) /\ h[m] \in Nat /\ pos[m] \in Int
<1>1. TreeType(t, D) /\ IsFiniteSet(D) /\ Shape(t, D, pos, lo, hi, up) /\ Settled(t, D, h)
  BY DEF Sound
<1>2. DOMAIN t.node = D
  BY <1>1 DEF TreeType, Trees
<1>3. NULL \notin D /\ \A m \in D : /\ LeftPlaced(t, D, pos, lo, hi, up, m) /\ RightPlaced(t, D, pos, lo, hi, up, m)
                                    /\ pos[m] \in Int
  BY <1>1 DEF Shape, Ghosts, Placed
<1>4. \A m \in D : Level(t, h, m) /\ h[m] \in Nat
  BY <1>1 DEF Settled
<1> QED
  BY <1>1, <1>2, <1>3, <1>4

LEMMA ChildrenLower ==
    ASSUME NEW t, NEW D, NEW pos, NEW lo, NEW hi, NEW up, NEW h, Sound(t, D, pos, lo, hi, up, h),
           NEW n \in D
    PROVE  /\ t.node[n].left_child => t.node[n].left \in D /\ h[t.node[n].left] < h[n]
           /\ t.node[n].right_child => t.node[n].right \in D /\ h[t.node[n].right] < h[n]
<1>1. Shape(t, D, pos, lo, hi, up) /\ h \in [D -> Nat] /\ Tall(t, h, n)
  BY SoundParts DEF Settled, Level
<1>2. LeftHeight(t, h, n) \in Nat /\ RightHeight(t, h, n) \in Nat
  BY <1>1, HeightsNatural
<1>3. h[n] > LeftHeight(t, h, n) /\ h[n] > RightHeight(t, h, n)
  BY <1>1, <1>2 DEF Tall, Taller
<1>4. /\ t.node[n].left_child => t.node[n].left \in D
      /\ t.node[n].right_child => t.node[n].right \in D
  BY <1>1, Children
<1> QED
  BY <1>1, <1>2, <1>3, <1>4 DEF LeftHeight, RightHeight

LEMMA DownRanked ==
    ASSUME NEW t, NEW D, NEW pos, NEW lo, NEW hi, NEW up, NEW h, Sound(t, D, pos, lo, hi, up, h),
           NEW c
    PROVE  \E max : Ranked(Down(t, c), D, h, max)
<1>1. DOMAIN t.node = D /\ NULL \notin D /\ IsFiniteSet(D) /\ h \in [D -> Nat]
  BY SoundParts DEF Settled
<1>2. PICK max \in Nat : h \in [D -> 0 .. max]
  BY <1>1, RankBounded
<1>3. PICK step : step = Down(t, c)
  OBVIOUS
<1>4. \A m \in D : step[m] = IF c[m] < 0 /\ t.node[m].left_child THEN t.node[m].left
                             ELSE IF c[m] > 0 /\ t.node[m].right_child THEN t.node[m].right
                             ELSE NULL
  BY <1>1, <1>3 DEF Down
<1>5. \A m \in D : step[m] \in D \cup {NULL} /\ (step[m] # NULL => h[step[m]] < h[m])
  BY <1>4, ChildrenLower
<1>6. step \in [D -> D \cup {NULL}]
  BY <1>1, <1>3, <1>5 DEF Down
<1> QED
  BY Zenon, <1>1, <1>2, <1>3, <1>5, <1>6 DEF Ranked

\* A search that c directs goes from n down along w.
Searches(t, D, c, h, w, n) ==
    /\ OnceEach(w, D) /\ Len(w) >= 1 /\ w[1] = n
    /\ \A i, j \in 1 .. Len(w) : i < j => h[w[j]] < h[w[i]]
    /\ \A j \in 1 .. Len(w) - 1 :
          \/ c[w[j]] < 0 /\ LeftOf(t, w[j + 1], w[j])
          \/ c[w[j]] > 0 /\ RightOf(t, w[j + 1], w[j])
    /\ c[w[Len(w)]] < 0 => ~t.node[w[Len(w)]].left_child
    /\ c[w[Len(w)]] > 0 => ~t.node[w[Len(w)]].right_child

LEMMA WaySearches ==
    ASSUME NEW t, NEW D, NEW pos, NEW lo, NEW hi, NEW up, NEW h, Sound(t, D, pos, lo, hi, up, h),
           NEW c \in [D -> Int], NEW n \in D, NEW w, w = Way(t, c, n)
    PROVE  Searches(t, D, c, h, w, n)
<1>1. DOMAIN t.node = D /\ NULL \notin D
  BY SoundParts
<1>2. PICK max : Ranked(Down(t, c), D, h, max)
  BY DownRanked
<1>3. PICK step : step = Down(t, c)
  OBVIOUS
<1>4. Trail(step, D, w, n)
  BY <1>2, <1>3, FollowTrails DEF Way
<1>5. OnceEach(w, D) /\ \A i, j \in 1 .. Len(w) : i < j => h[w[j]] < h[w[i]]
  BY <1>2, <1>3, <1>4, TrailFalls
<1>6. /\ w \in Seq(D) /\ Len(w) >= 1 /\ w[1] = n
      /\ \A j \in 1 .. Len(w) - 1 : step[w[j]] = w[j + 1]
      /\ step[w[Len(w)]] = NULL
  BY <1>4 DEF Trail
<1>7. \A m \in D : step[m] = IF c[m] < 0 /\ t.node[m].left_child THEN t.node[m].left
                             ELSE IF c[m] > 0 /\ t.node[m].right_child THEN t.node[m].right
                             ELSE NULL
  BY <1>1, <1>3 DEF Down
<1>8. \A m \in D : /\ t.node[m].left_child => t.node[m].left # NULL
                   /\ t.node[m].right_child => t.node[m].right # NULL
  BY <1>1, ChildrenLower
<1>9. ASSUME NEW j \in 1 .. Len(w) - 1
      PROVE  \/ c[w[j]] < 0 /\ LeftOf(t, w[j + 1], w[j])
             \/ c[w[j]] > 0 /\ RightOf(t, w[j + 1], w[j])
  <2>1. w[j] \in D /\ w[j + 1] \in D /\ step[w[j]] = w[j + 1]
    BY SMTT(40), <1>6
  <2> QED
    BY <1>1, <1>7, <2>1 DEF LeftOf, RightOf
<1>10. /\ c[w[Len(w)]] < 0 => ~t.node[w[Len(w)]].left_child
       /\ c[w[Len(w)]] > 0 => ~t.node[w[Len(w)]].right_child
  <2>1. PICK l : l = w[Len(w)] /\ l \in D /\ step[l] = NULL /\ c[l] \in Int
    <3>1. PICK k : k = Len(w) /\ k \in 1 .. Len(w)
      BY <1>6
    <3>2. w \in Seq(D)
      BY Zenon, <1>6
    <3>3. w[k] \in D
      BY <3>1, <3>2
    <3>4. step[w[k]] = NULL
      BY <1>6, <3>1
    <3>5. c[w[k]] \in Int
      BY <3>3
    <3> QED
      BY Zenon, <3>1, <3>3, <3>4, <3>5
  <2> QED
    BY <1>7, <1>8, <2>1
<1> QED
  BY <1>5, <1>6, <1>9, <1>10 DEF Searches

\* What is passed on the way bounds where the key can be.
Bracketed(D, c, lo, hi, n, m) ==
    /\ lo[m] = lo[n] \/ (lo[m] \in D /\ c[lo[m]] > 0)
    /\ hi[m] = hi[n] \/ (hi[m] \in D /\ c[hi[m]] < 0)

LEMMA SearchBrackets ==
    ASSUME NEW t, NEW D, NEW pos, NEW lo, NEW hi, NEW up, NEW h, Sound(t, D, pos, lo, hi, up, h),
           NEW c, NEW n, NEW w, Searches(t, D, c, h, w, n)
    PROVE  \A j \in 1 .. Len(w) : Bracketed(D, c, lo, hi, n, w[j])
<1>1. w \in Seq(D) /\ Len(w) \in Nat /\ w[1] = n
  BY DEF Searches, OnceEach
<1> DEFINE S == {k \in Nat : k + 1 <= Len(w) => Bracketed(D, c, lo, hi, n, w[k + 1])}
<1>2. 0 \in S
  BY <1>1 DEF Bracketed
<1>3. ASSUME NEW k \in Nat, k \in S PROVE k + 1 \in S
  <2> SUFFICES ASSUME (k + 1) + 1 <= Len(w)
               PROVE  Bracketed(D, c, lo, hi, n, w[(k + 1) + 1])
    OBVIOUS
  <2>1. PICK i, a, b : i = k + 1 /\ a = w[i] /\ b = w[i + 1]
    OBVIOUS
  <2>2. i \in 1 .. Len(w) - 1 /\ a \in D /\ b \in D /\ Bracketed(D, c, lo, hi, n, a)
    BY <1>1, <1>3, <2>1
  <2>3. (c[a] < 0 /\ LeftOf(t, b, a)) \/ (c[a] > 0 /\ RightOf(t, b, a))
    BY <2>1, <2>2 DEF Searches
  <2>4. LeftPlaced(t, D, pos, lo, hi, up, a) /\ RightPlaced(t, D, pos, lo, hi, up, a)
    BY <2>2, SoundParts
  <2>5. Bracketed(D, c, lo, hi, n, b)
    BY <2>2, <2>3, <2>4 DEF Bracketed, LeftPlaced, RightPlaced, LeftOf, RightOf
  <2> QED
    BY <2>1, <2>5
<1>4. \A k \in Nat : k \in S
  <2> HIDE DEF S
  <2> QED
    BY <1>2, <1>3, Induction
<1>5. ASSUME NEW j \in 1 .. Len(w) PROVE Bracketed(D, c, lo, hi, n, w[j])
  <2>1. j - 1 \in Nat /\ (j - 1) + 1 = j
    OBVIOUS
  <2>2. j - 1 \in S
    BY Zenon, <1>4, <2>1
  <2> QED
    BY <1>1, <2>1, <2>2
<1> QED
  BY <1>5

-----------------------------------------------------------------------------
(* Every node is reached from the root.                                     *)

\* m lies in the subtree of x.
Inside(pos, lo, hi, x, m) == Before(pos, lo[x], m) /\ Before(pos, m, hi[x])

\* n hangs below its parent, and its bounds are ancestors that have it below
\* them.
Reached(t, D, lo, hi, up, n) ==
    /\ Below(t, D, n, up[n])
    /\ lo[n] # NULL => t.node[lo[n]].right_child
    /\ hi[n] # NULL => t.node[hi[n]].left_child

\* The way from x to the node m in its subtree goes on with a child of x.
LEMMA StepInside ==
    ASSUME NEW t, NEW D, NEW pos, NEW lo, NEW hi, NEW up, Shape(t, D, pos, lo, hi, up),
           NEW m \in D, NEW x \in D, Inside(pos, lo, hi, x, m), m # x
    PROVE  \/ /\ pos[m] < pos[x] /\ t.node[x].left_child
              /\ Inside(pos, lo, hi, t.node[x].left, m)
           \/ /\ pos[x] < pos[m] /\ t.node[x].right_child
              /\ Inside(pos, lo, hi, t.node[x].right, m)
<1>1. /\ NULL \notin D /\ pos[m] \in Int /\ pos[x] \in Int
      /\ LeftPlaced(t, D, pos, lo, hi, up, x) /\ RightPlaced(t, D, pos, lo, hi, up, x)
      /\ pos[m] # pos[x]
  BY DEF Shape, Ghosts, Placed
<1>2. CASE pos[m] < pos[x]
  <2>1. t.node[x].left_child
    BY <1>1, <1>2 DEF LeftPlaced, Adjacent, Inside, Before
  <2> QED
    BY <1>1, <1>2, <2>1 DEF LeftPlaced, Inside, Before
<1>3. CASE pos[x] < pos[m]
  <2>1. t.node[x].right_child
    BY <1>1, <1>3 DEF RightPlaced, Adjacent, Inside, Before
  <2> QED
    BY <1>1, <1>3, <2>1 DEF RightPlaced, Inside, Before
<1> QED
  BY <1>1, <1>2, <1>3

LEMMA AllReached ==
    ASSUME NEW t, NEW D, NEW pos, NEW lo, NEW hi, NEW up, NEW h, Sound(t, D, pos, lo, hi, up, h),
           NEW m \in D
    PROVE  Reached(t, D, lo, hi, up, m)
<1>0. Shape(t, D, pos, lo, hi, up) /\ NULL \notin D
  BY SoundParts
<1> DEFINE S == {x \in D : Inside(pos, lo, hi, x, m) /\ Reached(t, D, lo, hi, up, x)}
<1>1. t.root \in S
  BY <1>0 DEF Shape, Rooted, Inside, Before, Reached, Below
<1> DEFINE H == {h[x] : x \in S}
<1>2. PICK k \in H : \A j \in H : k <= j
  <2>1. H \in SUBSET Nat /\ H # {}
    BY <1>1, SoundParts
  <2> HIDE DEF H
  <2> QED
    BY <2>1, Least
<1>3. PICK x \in S : h[x] = k
  BY <1>2
<1>4. m = x
  <2> SUFFICES ASSUME m # x PROVE FALSE
    OBVIOUS
  <2>1. /\ x \in D /\ Inside(pos, lo, hi, x, m) /\ Reached(t, D, lo, hi, up, x)
        /\ LeftPlaced(t, D, pos, lo, hi, up, x) /\ RightPlaced(t, D, pos, lo, hi, up, x)
    BY SoundParts
  <2>2. PICK l, r : l = t.node[x].left /\ r = t.node[x].right
    BY Zenon
  <2>3. CASE t.node[x].left_child /\ Inside(pos, lo, hi, l, m)
    <3>1. l \in D /\ up[l] = x /\ lo[l] = lo[x] /\ hi[l] = x
      BY <2>1, <2>2, <2>3 DEF LeftPlaced
    <3>2. Reached(t, D, lo, hi, up, l)
      BY <1>0, <2>1, <2>2, <2>3, <3>1 DEF Reached, Below, LeftOf
    <3>3. h[l] < h[x] /\ h[l] \in Nat /\ h[x] \in Nat
      BY <2>1, <2>2, <2>3, <3>1, ChildrenLower, SoundParts
    <3> QED
      BY <1>2, <1>3, <2>3, <3>1, <3>2, <3>3
  <2>4. CASE t.node[x].right_child /\ Inside(pos, lo, hi, r, m)
    <3>1. r \in D /\ up[r] = x /\ lo[r] = x /\ hi[r] = hi[x]
      BY <2>1, <2>2, <2>4 DEF RightPlaced
    <3>2. Reached(t, D, lo, hi, up, r)
      BY <1>0, <2>1, <2>2, <2>4, <3>1 DEF Reached, Below, RightOf
    <3>3. h[r] < h[x] /\ h[r] \in Nat /\ h[x] \in Nat
      BY <2>1, <2>2, <2>4, <3>1, ChildrenLower, SoundParts
    <3> QED
      BY <1>2, <1>3, <2>4, <3>1, <3>2, <3>3
  <2> QED
    BY <1>0, <2>1, <2>2, <2>3, <2>4, StepInside
<1> QED
  BY <1>4

\* w leads from n down along one side, to the end of n's subtree.
LeftRun(t, D, lo, h, w, n) ==
    /\ OnceEach(w, D) /\ Len(w) \in Nat \ {0} /\ w[1] = n
    /\ \A i, j \in 1 .. Len(w) : i < j => h[w[j]] < h[w[i]]
    /\ \A j \in 1 .. Len(w) - 1 : LeftOf(t, w[j + 1], w[j])
    /\ ~t.node[w[Len(w)]].left_child
    /\ \A j \in 1 .. Len(w) : lo[w[j]] = lo[n]
RightRun(t, D, hi, h, w, n) ==
    /\ OnceEach(w, D) /\ Len(w) \in Nat \ {0} /\ w[1] = n
    /\ \A i, j \in 1 .. Len(w) : i < j => h[w[j]] < h[w[i]]
    /\ \A j \in 1 .. Len(w) - 1 : RightOf(t, w[j + 1], w[j])
    /\ ~t.node[w[Len(w)]].right_child
    /\ \A j \in 1 .. Len(w) : hi[w[j]] = hi[n]

LEMMA LeftSpineRuns ==
    ASSUME NEW t, NEW D, NEW pos, NEW lo, NEW hi, NEW up, NEW h, Sound(t, D, pos, lo, hi, up, h),
           NEW n \in D, NEW w, w = LeftSpine(t, n)
    PROVE  LeftRun(t, D, lo, h, w, n)
<1>0. DOMAIN t.node = D
  BY SoundParts
<1>1. PICK c : c = [m \in DOMAIN t.node |-> -1] /\ c \in [D -> Int]
  <2>1. PICK b : b = [m \in D |-> -1]
    BY Zenon
  <2>2. b \in [D -> Int]
    BY <2>1
  <2> QED
    BY <1>0, <2>1, <2>2
<1>2. \A m \in D : c[m] = -1
  BY <1>1, SoundParts
<1>3. Searches(t, D, c, h, w, n)
  BY <1>1, WaySearches DEF LeftSpine
<1>4. \A j \in 1 .. Len(w) : Bracketed(D, c, lo, hi, n, w[j])
  BY <1>1, <1>3, SearchBrackets
<1>5. OnceEach(w, D) /\ Len(w) \in Nat \ {0} /\ w[1] = n /\ w \in Seq(D)
      /\ \A i, j \in 1 .. Len(w) : i < j => h[w[j]] < h[w[i]]
  BY <1>3 DEF Searches, OnceEach
<1>6. \A j \in 1 .. Len(w) : w[j] \in D /\ c[w[j]] = -1
  BY <1>2, <1>5
<1>7. \A j \in 1 .. Len(w) - 1 : LeftOf(t, w[j + 1], w[j])
  BY <1>3, <1>5, <1>6 DEF Searches
<1>8. ~t.node[w[Len(w)]].left_child
  BY <1>3, <1>5, <1>6 DEF Searches
<1>9. \A j \in 1 .. Len(w) : lo[w[j]] = lo[n]
  BY <1>2, <1>4 DEF Bracketed
<1> QED
  BY Zenon, <1>5, <1>7, <1>8, <1>9 DEF LeftRun

LEMMA RightSpineRuns ==
    ASSUME NEW t, NEW D, NEW pos, NEW lo, NEW hi, NEW up, NEW h, Sound(t, D, pos, lo, hi, up, h),
           NEW n \in D, NEW w, w = RightSpine(t, n)
    PROVE  RightRun(t, D, hi, h, w, n)
<1>0. DOMAIN t.node = D
  BY SoundParts
<1>1. PICK c : c = [m \in DOMAIN t.node |-> 1] /\ c \in [D -> Int]
  <2>1. PICK b : b = [m \in D |-> 1]
    BY Zenon
  <2>2. b \in [D -> Int]
    BY <2>1
  <2> QED
    BY <1>0, <2>1, <2>2
<1>2. \A m \in D : c[m] = 1
  BY <1>1, SoundParts
<1>3. Searches(t, D, c, h, w, n)
  BY <1>1, WaySearches DEF RightSpine
<1>4. \A j \in 1 .. Len(w) : Bracketed(D, c, lo, hi, n, w[j])
  BY <1>1, <1>3, SearchBrackets
<1>5. OnceEach(w, D) /\ Len(w) \in Nat \ {0} /\ w[1] = n /\ w \in Seq(D)
      /\ \A i, j \in 1 .. Len(w) : i < j => h[w[j]] < h[w[i]]
  BY <1>3 DEF Searches, OnceEach
<1>6. \A j \in 1 .. Len(w) : w[j] \in D /\ c[w[j]] = 1
  BY <1>2, <1>5
<1>7. \A j \in 1 .. Len(w) - 1 : RightOf(t, w[j + 1], w[j])
  BY <1>3, <1>5, <1>6 DEF Searches
<1>8. ~t.node[w[Len(w)]].right_child
  BY <1>3, <1>5, <1>6 DEF Searches
<1>9. \A j \in 1 .. Len(w) : hi[w[j]] = hi[n]
  BY <1>2, <1>4 DEF Bracketed
<1> QED
  BY <1>5, <1>7, <1>8, <1>9 DEF RightRun

\* The two ends of n's subtree.
LEMMA Leftmosts ==
    ASSUME NEW t, NEW D, NEW pos, NEW lo, NEW hi, NEW up, NEW h, Sound(t, D, pos, lo, hi, up, h),
           NEW n \in D, NEW q, q = Leftmost(t, n)
    PROVE  /\ q \in D /\ ~t.node[q].left_child /\ t.node[q].left = lo[n] /\ lo[q] = lo[n]
           /\ Before(pos, lo[n], q) /\ Adjacent(D, pos, lo[n], q)
<1>1. PICK w : w = LeftSpine(t, n)
  OBVIOUS
<1>2. LeftRun(t, D, lo, h, w, n)
  BY <1>1, LeftSpineRuns
<1>3. q = w[Len(w)]
  BY <1>1 DEF Leftmost, Last
<1>4. q \in D /\ ~t.node[q].left_child /\ lo[q] = lo[n]
  BY <1>2, <1>3 DEF LeftRun, OnceEach
<1> QED
  BY <1>4, SoundParts DEF LeftPlaced

LEMMA Rightmosts ==
    ASSUME NEW t, NEW D, NEW pos, NEW lo, NEW hi, NEW up, NEW h, Sound(t, D, pos, lo, hi, up, h),
           NEW n \in D, NEW q, q = Rightmost(t, n)
    PROVE  /\ q \in D /\ ~t.node[q].right_child /\ t.node[q].right = hi[n] /\ hi[q] = hi[n]
           /\ Before(pos, q, hi[n]) /\ Adjacent(D, pos, q, hi[n])
<1>1. PICK w : w = RightSpine(t, n)
  OBVIOUS
<1>2. RightRun(t, D, hi, h, w, n)
  BY <1>1, RightSpineRuns
<1>3. q = w[Len(w)]
  BY <1>1 DEF Rightmost, Last
<1>4. q \in D /\ ~t.node[q].right_child /\ hi[q] = hi[n]
  BY <1>2, <1>3 DEF RightRun, OnceEach
<1> QED
  BY <1>4, SoundParts DEF RightPlaced

\* b comes right after a; NULL is before the first and after the last.
Successive(D, pos, a, b) ==
    /\ a \in D \cup {NULL} /\ b \in D \cup {NULL}
    /\ Before(pos, a, b) /\ Adjacent(D, pos, a, b)

LEMMA NextSuccessive ==
    ASSUME NEW t, NEW D, NEW pos, NEW lo, NEW hi, NEW up, NEW h, Sound(t, D, pos, lo, hi, up, h),
           NEW n \in D, NEW q, q = NextNode(t, n)
    PROVE  /\ Successive(D, pos, n, q)
           /\ t.node[n].right_child => q \in D /\ ~t.node[q].left_child /\ t.node[q].left = n
           /\ ~t.node[n].right_child => q = hi[n] /\ t.node[n].right = hi[n]
<1>0. RightPlaced(t, D, pos, lo, hi, up, n)
  BY SoundParts
<1>1. CASE t.node[n].right_child
  <2>1. PICK r : r = t.node[n].right /\ r \in D /\ lo[r] = n
    BY <1>0, <1>1 DEF RightPlaced
  <2>2. q = Leftmost(t, r)
    BY <1>1, <2>1 DEF NextNode
  <2> QED
    BY <1>1, <2>1, <2>2, Leftmosts DEF Successive
<1>2. CASE ~t.node[n].right_child
  <2>1. q = t.node[n].right /\ hi[n] \in D \cup {NULL}
    BY <1>2, SoundParts DEF NextNode, Shape, Ghosts
  <2> QED
    BY <1>0, <1>2, <2>1 DEF RightPlaced, Successive
<1> QED
  BY <1>1, <1>2

LEMMA PreviousSuccessive ==
    ASSUME NEW t, NEW D, NEW pos, NEW lo, NEW hi, NEW up, NEW h, Sound(t, D, pos, lo, hi, up, h),
           NEW n \in D, NEW q, q = PreviousNode(t, n)
    PROVE  /\ Successive(D, pos, q, n)
           /\ t.node[n].left_child => q \in D /\ ~t.node[q].right_child /\ t.node[q].right = n
           /\ ~t.node[n].left_child => q = lo[n] /\ t.node[n].left = lo[n]
<1>0. LeftPlaced(t, D, pos, lo, hi, up, n)
  BY SoundParts
<1>1. CASE t.node[n].left_child
  <2>1. PICK l : l = t.node[n].left /\ l \in D /\ hi[l] = n
    BY <1>0, <1>1 DEF LeftPlaced
  <2>2. q = Rightmost(t, l)
    BY <1>1, <2>1 DEF PreviousNode
  <2> QED
    BY <1>1, <2>1, <2>2, Rightmosts DEF Successive
<1>2. CASE ~t.node[n].left_child
  <2>1. q = t.node[n].left /\ lo[n] \in D \cup {NULL}
    BY <1>2, SoundParts DEF PreviousNode, Shape, Ghosts
  <2> QED
    BY <1>0, <1>2, <2>1 DEF LeftPlaced, Successive
<1> QED
  BY <1>1, <1>2

LEMMA FirstSuccessive ==
    ASSUME NEW t, NEW D, NEW pos, NEW lo, NEW hi, NEW up, NEW h, Sound(t, D, pos, lo, hi, up, h),
           NEW q, q = FirstNode(t)
    PROVE  /\ Successive(D, pos, NULL, q) /\ (D # {} => q \in D /\ t.node[q].left = NULL)
           /\ t.root = NULL <=> D = {}
<1>1. Rooted(t, D, lo, hi, up) /\ NULL \notin D
  BY SoundParts DEF Shape
<1>2. CASE D = {}
  BY <1>1, <1>2 DEF Rooted, FirstNode, Successive, Before, Adjacent
<1>3. CASE D # {}
  <2>1. t.root \in D /\ lo[t.root] = NULL /\ q = Leftmost(t, t.root) /\ t.root # NULL
    BY <1>1, <1>3 DEF Rooted, FirstNode
  <2> QED
    BY <1>3, <2>1, Leftmosts DEF Successive
<1> QED
  BY <1>2, <1>3

LEMMA LastSuccessive ==
    ASSUME NEW t, NEW D, NEW pos, NEW lo, NEW hi, NEW up, NEW h, Sound(t, D, pos, lo, hi, up, h),
           NEW q, q = LastNode(t)
    PROVE  Successive(D, pos, q, NULL) /\ (D # {} => q \in D /\ t.node[q].right = NULL)
<1>1. Rooted(t, D, lo, hi, up) /\ NULL \notin D
  BY SoundParts DEF Shape
<1>2. CASE D = {}
  BY <1>1, <1>2 DEF Rooted, LastNode, Successive, Before, Adjacent
<1>3. CASE D # {}
  <2>1. t.root \in D /\ hi[t.root] = NULL /\ q = Rightmost(t, t.root) /\ t.root # NULL
    BY <1>1, <1>3 DEF Rooted, LastNode
  <2> QED
    BY <1>3, <2>1, Rightmosts DEF Successive
<1> QED
  BY <1>2, <1>3

\* tree_foreach, which goes from each node to the next through the threads,
\* comes to every node.
THEOREM ForeachVisitsAll ==
    ASSUME NEW t, NEW D, NEW pos, NEW lo, NEW hi, NEW up, NEW h, Sound(t, D, pos, lo, hi, up, h)
    PROVE  ToSet(Foreach(t)) = D /\ Foreach(t) \in Seq(D)
<1>0. /\ DOMAIN t.node = D /\ NULL \notin D /\ IsFiniteSet(D)
      /\ \A m \in D : pos[m] \in Int
      /\ \A m, n \in D : pos[m] = pos[n] => m = n
  BY SoundParts DEF Shape, Ghosts
<1>1. PICK n : n = FirstNode(t)
  OBVIOUS
<1>2. Successive(D, pos, NULL, n) /\ (D # {} => n \in D)
  BY <1>1, FirstSuccessive
<1>3. CASE D = {}
  <2>1. n = NULL
    BY <1>2, <1>3 DEF Successive
  <2>2. Foreach(t) = <<>>
    BY <1>1, <2>1 DEF Foreach, NodesFrom
  <2> QED
    BY <1>3, <2>2 DEF ToSet
<1>4. CASE D # {}
  <2>1. PICK step : step = [m \in D |-> NextNode(t, m)]
    BY Zenon
  <2>2. PICK w : w = Foreach(t)
    OBVIOUS
  <2>3. w = Follow(step, n)
    BY <1>0, <1>1, <1>2, <1>4, <2>1, <2>2 DEF Foreach, NodesFrom
  <2>4. \A m \in D : Successive(D, pos, m, step[m])
    BY <2>1, NextSuccessive
  <2>5. PICK after : after = [m \in D |-> {x \in D : pos[m] < pos[x]}]
    BY Zenon
  <2>6. PICK rank : rank = [m \in D |-> Cardinality(after[m])]
    BY Zenon
  <2>7. \A m \in D : IsFiniteSet(after[m]) /\ rank[m] \in Nat
    BY <1>0, <2>5, <2>6, FS_Subset, FS_CardinalityType
  <2>8. rank \in [D -> Nat]
    BY <2>6, <2>7
  <2>9. PICK max \in Nat : rank \in [D -> 0 .. max]
    BY <1>0, <2>8, RankBounded
  <2>10. ASSUME NEW m \in D, step[m] # NULL PROVE rank[step[m]] < rank[m]
    <3>1. PICK s : s = step[m]
      OBVIOUS
    <3>2. s \in D /\ pos[m] < pos[s]
      BY <1>0, <2>4, <2>10, <3>1 DEF Successive, Before
    <3>3. after[s] \in SUBSET after[m] /\ s \in after[m] /\ s \notin after[s]
      BY <1>0, <2>5, <3>2
    <3>4. Cardinality(after[s]) <= Cardinality(after[m]) /\ Cardinality(after[s]) # Cardinality(after[m])
      BY <2>7, <3>3, FS_Subset
    <3>5. rank[s] = Cardinality(after[s]) /\ rank[m] = Cardinality(after[m]) /\ rank[s] \in Nat /\ rank[m] \in Nat
      BY <2>6, <2>7, <3>2
    <3> QED
      BY <3>1, <3>4, <3>5
  <2>11. step \in [D -> D \cup {NULL}]
    BY <2>1, <2>4 DEF Successive
  <2>12. Ranked(step, D, rank, max)
    BY <1>0, <2>9, <2>10, <2>11 DEF Ranked
  <2>13. Trail(step, D, w, n)
    BY <1>2, <1>4, <2>3, <2>12, FollowTrails
  <2>14. /\ w \in Seq(D) /\ Len(w) \in Nat /\ Len(w) >= 1 /\ w[1] = n
         /\ \A j \in 1 .. Len(w) - 1 : step[w[j]] = w[j + 1]
         /\ step[w[Len(w)]] = NULL
    BY <2>13 DEF Trail
  <2>15. ASSUME NEW m \in D, \A j \in 1 .. Len(w) : w[j] # m PROVE FALSE
    <3> DEFINE S == {k \in Nat : k + 1 <= Len(w) => pos[w[k + 1]] < pos[m]}
    <3>1. 0 \in S
      <4>1. ~(pos[m] < pos[n]) /\ n # m
        BY <1>0, <1>2, <2>14, <2>15 DEF Successive, Adjacent
      <4> QED
        BY <1>0, <1>2, <1>4, <2>14, <4>1
    <3>2. ASSUME NEW k \in Nat, k \in S PROVE k + 1 \in S
      <4> SUFFICES ASSUME (k + 1) + 1 <= Len(w) PROVE pos[w[(k + 1) + 1]] < pos[m]
        OBVIOUS
      <4>1. PICK i, a, b : i = k + 1 /\ a = w[i] /\ b = w[i + 1]
        OBVIOUS
      <4>2. i \in 1 .. Len(w) - 1 /\ a \in D /\ b \in D /\ pos[a] < pos[m] /\ b # m /\ b = step[a]
        BY <2>14, <2>15, <3>2, <4>1
      <4>3. ~(pos[m] < pos[b])
        BY <1>0, <2>4, <4>2 DEF Successive, Adjacent
      <4> QED
        BY <1>0, <4>1, <4>2, <4>3
    <3>3. \A k \in Nat : k \in S
      <4> HIDE DEF S
      <4> QED
        BY <3>1, <3>2, Induction
    <3>4. PICK last : last = w[Len(w)]
      OBVIOUS
    <3>5. last \in D /\ step[last] = NULL /\ pos[last] < pos[m]
      <4>1. Len(w) - 1 \in Nat /\ (Len(w) - 1) + 1 = Len(w)
        BY <2>14
      <4>2. pos[w[Len(w)]] < pos[m]
        <5>1. PICK d : d = Len(w) - 1
          OBVIOUS
        <5>2. d \in Nat /\ d + 1 = Len(w)
          BY Zenon, <4>1, <5>1
        <5>3. d + 1 <= Len(w)
          BY <5>2
        <5>4. d + 1 <= Len(w) => pos[w[d + 1]] < pos[m]
          BY <3>3, <5>2
        <5> QED
          BY Zenon, <5>2, <5>3, <5>4
      <4>3. Len(w) \in 1 .. Len(w)
        BY <2>14
      <4>4. w[Len(w)] \in D
        BY <2>14, <4>3
      <4>5. step[w[Len(w)]] = NULL
        BY <2>13 DEF Trail
      <4> QED
        BY <3>4, <4>2, <4>4, <4>5
    <3> QED
      BY <1>0, <2>4, <3>5 DEF Successive, Adjacent
  <2>16. \A m \in D : \E j \in 1 .. Len(w) : w[j] = m
    BY <2>15
  <2> QED
    BY <2>2, <2>14, <2>16 DEF ToSet
<1> QED
  BY <1>3, <1>4

\* c is what key_compare says of a key and the key of each node.
Directs(D, pos, c, key) ==
    /\ c \in [D -> Int] /\ key \in Int
    /\ \A m \in D : pos[m] \in Int /\ c[m] = key - pos[m]

\* The search from the root ends at n: with the match, or at one of the two
\* neighbours of the key, on the side where a leaf for it goes.
Found(t, D, pos, lo, hi, c, key, n) ==
    /\ n \in D
    /\ c[n] # 0 => \A m \in D : c[m] # 0
    /\ c[n] < 0 => /\ ~t.node[n].left_child
                   /\ key < pos[n] /\ (lo[n] # NULL => pos[lo[n]] < key)
    /\ c[n] > 0 => /\ ~t.node[n].right_child
                   /\ pos[n] < key /\ (hi[n] # NULL => key < pos[hi[n]])

LEMMA SearchFinds ==
    ASSUME NEW t, NEW D, NEW pos, NEW lo, NEW hi, NEW up, NEW h, Sound(t, D, pos, lo, hi, up, h),
           NEW c, NEW key, Directs(D, pos, c, key), D # {},
           NEW w, w = Way(t, c, t.root)
    PROVE  /\ Searches(t, D, c, h, w, t.root)
           /\ OnceEach(w, D) /\ Chain(t, D, w, Len(w)) /\ Len(w) \in Nat \ {0}
           /\ Found(t, D, pos, lo, hi, c, key, w[Len(w)])
<1>0. /\ NULL \notin D /\ t.root \in D /\ lo[t.root] = NULL /\ hi[t.root] = NULL
  BY SoundParts DEF Shape, Rooted
<1>1. Searches(t, D, c, h, w, t.root)
  BY <1>0, WaySearches DEF Directs
<1>2. OnceEach(w, D) /\ Len(w) \in Nat \ {0} /\ w \in Seq(D)
  BY <1>1 DEF Searches, OnceEach
<1>3. Chain(t, D, w, Len(w))
  <2>1. \A j \in 1 .. Len(w) - 1 : LeftOf(t, w[j + 1], w[j]) \/ RightOf(t, w[j + 1], w[j])
    BY <1>1 DEF Searches
  <2>2. \A j \in 1 .. Len(w) - 1 : Below(t, D, w[j + 1], w[j])
    BY <1>0, <1>2, <2>1 DEF Below
  <2> QED
    BY <1>1, <2>2 DEF Chain, Searches
<1>4. PICK n : n = w[Len(w)] /\ n \in D
  BY <1>2
<1>5. Bracketed(D, c, lo, hi, t.root, n)
  BY <1>1, <1>2, <1>4, SearchBrackets
<1>6. /\ c[n] < 0 => ~t.node[n].left_child
      /\ c[n] > 0 => ~t.node[n].right_child
  BY <1>1, <1>4 DEF Searches
<1>7. /\ lo[n] # NULL => pos[lo[n]] < key
      /\ hi[n] # NULL => key < pos[hi[n]]
  BY <1>0, <1>5 DEF Bracketed, Directs
<1>8. (c[n] < 0 => key < pos[n]) /\ (c[n] > 0 => pos[n] < key)
  BY <1>4 DEF Directs
<1>9. ASSUME c[n] # 0, NEW m \in D PROVE c[m] # 0
  <2> SUFFICES ASSUME c[m] = 0 PROVE FALSE
    OBVIOUS
  <2>1. pos[m] = key /\ pos[n] \in Int /\ key \in Int /\ c[n] \in Int
    BY <1>4 DEF Directs
  <2>2. LeftPlaced(t, D, pos, lo, hi, up, n) /\ RightPlaced(t, D, pos, lo, hi, up, n)
    BY <1>4, SoundParts
  <2>3. CASE c[n] < 0
    <3>1. Adjacent(D, pos, lo[n], n)
      BY <1>6, <2>2, <2>3 DEF LeftPlaced
    <3> QED
      BY <1>7, <1>8, <2>1, <2>3, <3>1 DEF Adjacent
  <2>4. CASE c[n] > 0
    <3>1. Adjacent(D, pos, n, hi[n])
      BY <1>6, <2>2, <2>4 DEF RightPlaced
    <3> QED
      BY <1>7, <1>8, <2>1, <2>4, <3>1 DEF Adjacent
  <2> QED
    BY <1>9, <2>1, <2>3, <2>4
<1> QED
  BY <1>1, <1>2, <1>3, <1>4, <1>6, <1>7, <1>8, <1>9 DEF Found

\* tree_find_node finds the key when it is there, and only then.
THEOREM FindNodeFinds ==
    ASSUME NEW t, NEW D, NEW pos, NEW lo, NEW hi, NEW up, NEW h, Sound(t, D, pos, lo, hi, up, h),
           NEW c, NEW key, Directs(D, pos, c, key)
    PROVE  LET n == FindNode(t, c)
           IN IF \E m \in D : pos[m] = key THEN n \in D /\ pos[n] = key ELSE n = NULL
<1>1. /\ NULL \notin D /\ (t.root = NULL <=> D = {})
      /\ \A m \in D : c[m] \in Int /\ pos[m] \in Int /\ (c[m] = 0 <=> pos[m] = key)
  BY SoundParts, FirstSuccessive DEF Directs
<1>2. CASE D = {}
  BY <1>1, <1>2 DEF FindNode
<1>3. CASE D # {}
  <2>1. PICK w : w = Way(t, c, t.root)
    OBVIOUS
  <2>2. PICK n : n = w[Len(w)]
    OBVIOUS
  <2>3. Found(t, D, pos, lo, hi, c, key, n)
    BY <1>3, <2>1, <2>2, SearchFinds
  <2>4. FindNode(t, c) = IF c[n] = 0 THEN n ELSE NULL
    BY <1>1, <1>3, <2>1, <2>2 DEF FindNode, Descend, Last
  <2> QED
    BY <1>1, <2>3, <2>4 DEF Found
<1> QED
  BY <1>2, <1>3

-----------------------------------------------------------------------------
(* Insertion.                                                               *)

\* u is t with the leaf new below p.
AddedLeft(t, u, D, new, p) ==
    /\ u.root = t.root
    /\ Sides(u.node[new], t.node[p].left, FALSE, p, FALSE)
    /\ Sides(u.node[p], new, TRUE, t.node[p].right, t.node[p].right_child)
    /\ \A m \in D \ {p} : SameSides(t, u, m)
AddedRight(t, u, D, new, p) ==
    /\ u.root = t.root
    /\ Sides(u.node[new], p, FALSE, t.node[p].right, FALSE)
    /\ Sides(u.node[p], t.node[p].left, t.node[p].left_child, new, TRUE)
    /\ \A m \in D \ {p} : SameSides(t, u, m)

With(D, f, new, x) == [m \in D \cup {new} |-> IF m = new THEN x ELSE f[m]]

LEMMA WithValues ==
    ASSUME NEW D, NEW f, NEW new, new \notin D, NEW x, NEW g, g = With(D, f, new, x)
    PROVE  g[new] = x /\ \A m \in D : g[m] = f[m]
BY DEF With

LEMMA AddLeftShape ==
    ASSUME NEW t, NEW D, NEW pos, NEW lo, NEW hi, NEW up, Shape(t, D, pos, lo, hi, up),
           NEW p \in D, ~t.node[p].left_child, NEW rank \in Int,
           rank < pos[p], lo[p] # NULL => pos[lo[p]] < rank,
           \A m \in D : hi[m] # p,
           NEW new, new \notin D, new # NULL, NEW u, AddedLeft(t, u, D, new, p),
           NEW E, E = D \cup {new}, NEW pos2, pos2 = With(D, pos, new, rank),
           NEW lo2, lo2 = With(D, lo, new, lo[p]), NEW hi2, hi2 = With(D, hi, new, p),
           NEW up2, up2 = With(D, up, new, p)
    PROVE  Shape(u, E, pos2, lo2, hi2, up2)
<1>0. /\ NULL \notin D /\ \A m \in D : pos[m] \in Int
      /\ \A m, n \in D : pos[m] = pos[n] => m = n
      /\ \A m \in D : lo[m] \in D \cup {NULL} /\ hi[m] \in D \cup {NULL} /\ up[m] \in D \cup {NULL}
      /\ \A m \in D : LeftPlaced(t, D, pos, lo, hi, up, m) /\ RightPlaced(t, D, pos, lo, hi, up, m)
  BY DEF Shape, Ghosts, Placed
<1>1. /\ pos2[new] = rank /\ \A m \in D : pos2[m] = pos[m]
      /\ lo2[new] = lo[p] /\ \A m \in D : lo2[m] = lo[m]
      /\ hi2[new] = p /\ \A m \in D : hi2[m] = hi[m]
      /\ up2[new] = p /\ \A m \in D : up2[m] = up[m]
  <2>1. pos2[new] = rank /\ \A m \in D : pos2[m] = pos[m]
    BY WithValues
  <2>2. lo2[new] = lo[p] /\ \A m \in D : lo2[m] = lo[m]
    BY WithValues
  <2>3. hi2[new] = p /\ \A m \in D : hi2[m] = hi[m]
    BY WithValues
  <2>4. up2[new] = p /\ \A m \in D : up2[m] = up[m]
    BY WithValues
  <2> QED
    BY <2>1, <2>2, <2>3, <2>4
<1>2. Before(pos, lo[p], p) /\ Adjacent(D, pos, lo[p], p) /\ t.node[p].left = lo[p]
  BY <1>0 DEF LeftPlaced
<1>3. \A m \in D : pos[m] < rank \/ rank < pos[m]
  BY <1>0, <1>2 DEF Adjacent
<1>4. Ghosts(E, pos2, lo2, hi2, up2)
  <2>1. pos2 \in [E -> Int]
    BY <1>0 DEF With
  <2>2. \A m, n \in E : pos2[m] = pos2[n] => m = n
    BY <1>0, <1>1, <1>3
  <2>3. lo2 \in [E -> E \cup {NULL}]
    BY <1>0 DEF With
  <2>4. hi2 \in [E -> E \cup {NULL}] /\ up2 \in [E -> E \cup {NULL}]
    BY <1>0 DEF With
  <2> QED
    BY <1>0, <2>1, <2>2, <2>3, <2>4 DEF Ghosts
<1>5. Rooted(u, E, lo2, hi2, up2)
  BY <1>1 DEF Shape, Rooted, AddedLeft
<1>6. \A a, b \in D \cup {NULL} : Before(pos, a, b) => Before(pos2, a, b)
  BY <1>0, <1>1 DEF Before
<1>7. ASSUME NEW a \in D \cup {NULL}, NEW b \in D \cup {NULL}, Adjacent(D, pos, a, b),
             ~((a # NULL => pos[a] < rank) /\ (b # NULL => rank < pos[b]))
      PROVE  Adjacent(E, pos2, a, b)
  BY <1>0, <1>1, <1>7 DEF Adjacent
<1>8. Placed(u, E, pos2, lo2, hi2, up2, new)
  <2>1. /\ u.node[new].left = lo[p] /\ ~u.node[new].left_child
        /\ u.node[new].right = p /\ ~u.node[new].right_child
    BY <1>2 DEF AddedLeft, Sides
  <2>2. Before(pos2, lo[p], new) /\ Before(pos2, new, p)
    BY <1>0, <1>1 DEF Before
  <2>3. Adjacent(E, pos2, lo[p], new)
    BY <1>0, <1>1, <1>2 DEF Adjacent
  <2>4. Adjacent(E, pos2, new, p)
    BY <1>0, <1>1, <1>2 DEF Adjacent
  <2> QED
    BY <1>1, <2>1, <2>2, <2>3, <2>4 DEF Placed, LeftPlaced, RightPlaced
<1>9. ASSUME NEW m \in D PROVE LeftPlaced(u, E, pos2, lo2, hi2, up2, m)
  <2>1. Before(pos2, lo2[m], m)
    BY <1>0, <1>1, <1>6 DEF LeftPlaced
  <2>2. CASE m = p
    <3>1. u.node[m].left = new /\ u.node[m].left_child
      BY <2>2 DEF AddedLeft, Sides
    <3> QED
      BY <1>1, <2>1, <2>2, <3>1 DEF LeftPlaced
  <2>3. CASE m # p
    <3>1. u.node[m].left = t.node[m].left /\ u.node[m].left_child = t.node[m].left_child
      BY <2>3 DEF AddedLeft, SameSides, Sides
    <3>2. LeftPlaced(t, D, pos, lo, hi, up, m) /\ lo[m] \in D \cup {NULL}
      BY <1>0
    <3>3. CASE t.node[m].left_child
      BY <1>1, <2>1, <3>1, <3>2, <3>3 DEF LeftPlaced
    <3>4. CASE ~t.node[m].left_child
      <4>1. t.node[m].left = lo[m] /\ Adjacent(D, pos, lo[m], m)
        BY <3>2, <3>4 DEF LeftPlaced
      <4>2. ~((lo[m] # NULL => pos[lo[m]] < rank) /\ rank < pos[m])
        BY <1>0, <1>2, <2>3, <4>1 DEF Adjacent
      <4>3. Adjacent(E, pos2, lo[m], m)
        BY Zenon, <1>0, <1>7, <3>2, <4>1, <4>2
      <4> QED
        BY <1>1, <2>1, <3>1, <3>4, <4>1, <4>3 DEF LeftPlaced
    <3> QED
      BY <3>3, <3>4
  <2> QED
    BY <2>2, <2>3
<1>10. ASSUME NEW m \in D PROVE RightPlaced(u, E, pos2, lo2, hi2, up2, m)
  <2>1. Before(pos2, m, hi2[m])
    BY <1>0, <1>1, <1>6 DEF RightPlaced
  <2>2. u.node[m].right = t.node[m].right /\ u.node[m].right_child = t.node[m].right_child
    BY DEF AddedLeft, SameSides, Sides
  <2>3. RightPlaced(t, D, pos, lo, hi, up, m) /\ hi[m] \in D \cup {NULL}
    BY <1>0
  <2>4. CASE t.node[m].right_child
    BY <1>1, <2>1, <2>2, <2>3, <2>4 DEF RightPlaced
  <2>5. CASE ~t.node[m].right_child
    <3>1. t.node[m].right = hi[m] /\ Adjacent(D, pos, m, hi[m])
      BY <2>3, <2>5 DEF RightPlaced
    <3>2. ~(pos[m] < rank /\ (hi[m] # NULL => rank < pos[hi[m]]))
      BY <1>0, <1>2, <3>1 DEF Adjacent
    <3>3. Adjacent(E, pos2, m, hi[m])
      BY Zenon, <1>0, <1>7, <2>3, <3>1, <3>2
    <3> QED
      BY <1>1, <2>1, <2>2, <2>5, <3>1, <3>3 DEF RightPlaced
  <2> QED
    BY <2>4, <2>5
<1> QED
  BY Zenon, <1>4, <1>5, <1>8, <1>9, <1>10 DEF Shape, Placed

LEMMA AddRightShape ==
    ASSUME NEW t, NEW D, NEW pos, NEW lo, NEW hi, NEW up, Shape(t, D, pos, lo, hi, up),
           NEW p \in D, ~t.node[p].right_child, NEW rank \in Int,
           pos[p] < rank, hi[p] # NULL => rank < pos[hi[p]],
           \A m \in D : lo[m] # p,
           NEW new, new \notin D, new # NULL, NEW u, AddedRight(t, u, D, new, p),
           NEW E, E = D \cup {new}, NEW pos2, pos2 = With(D, pos, new, rank),
           NEW lo2, lo2 = With(D, lo, new, p), NEW hi2, hi2 = With(D, hi, new, hi[p]),
           NEW up2, up2 = With(D, up, new, p)
    PROVE  Shape(u, E, pos2, lo2, hi2, up2)
<1>0. Ghosts(D, pos, lo, hi, up) /\ NULL \notin D /\ \A m \in D : pos[m] \in Int
  BY DEF Shape, Ghosts
<1>1. PICK v, w, neg, neg2 : /\ v = Mirror(t, D) /\ w = Mirror(u, E)
                             /\ neg = Negated(D, pos) /\ neg2 = With(D, neg, new, -rank)
  OBVIOUS
<1>2. Shape(v, D, neg, hi, lo, up)
  BY <1>0, <1>1, MirrorShape
<1>3. \A m \in D : neg[m] = -pos[m]
  BY <1>1 DEF Negated
<1>4. ~v.node[p].left_child
  BY <1>1, MirrorNode DEF Sides
<1>5. AddedLeft(v, w, D, new, p)
  <2>1. v.root = t.root /\ w.root = u.root /\ u.root = t.root
    BY <1>1 DEF Mirror, AddedRight
  <2>2. \A m \in D : Sides(v.node[m], t.node[m].right, t.node[m].right_child,
                                      t.node[m].left, t.node[m].left_child)
    BY <1>1, MirrorNode
  <2>3. \A m \in E : Sides(w.node[m], u.node[m].right, u.node[m].right_child,
                                      u.node[m].left, u.node[m].left_child)
    BY <1>1, MirrorNode
  <2>4. Sides(w.node[new], v.node[p].left, FALSE, p, FALSE)
    BY <2>2, <2>3 DEF AddedRight, Sides
  <2>5. Sides(w.node[p], new, TRUE, v.node[p].right, v.node[p].right_child)
    BY <2>2, <2>3 DEF AddedRight, Sides
  <2>6. \A m \in D \ {p} : SameSides(v, w, m)
    BY <2>2, <2>3 DEF AddedRight, Sides, SameSides
  <2> QED
    BY Zenon, <2>1, <2>4, <2>5, <2>6 DEF AddedLeft
<1>6. -rank \in Int /\ -rank < neg[p] /\ (hi[p] # NULL => neg[hi[p]] < -rank)
  <2>1. hi[p] \in D \cup {NULL}
    BY <1>0 DEF Ghosts
  <2> QED
    BY <1>0, <1>3, <2>1
<1>7. Shape(w, E, neg2, hi2, lo2, up2)
  BY Zenon, <1>1, <1>2, <1>4, <1>5, <1>6, AddLeftShape
<1>8. /\ pos2[new] = rank /\ \A m \in D : pos2[m] = pos[m]
      /\ neg2[new] = -rank /\ \A m \in D : neg2[m] = neg[m]
  <2>1. pos2[new] = rank /\ \A m \in D : pos2[m] = pos[m]
    BY WithValues
  <2>2. neg2[new] = -rank /\ \A m \in D : neg2[m] = neg[m]
    BY <1>1, WithValues
  <2> QED
    BY <2>1, <2>2
<1>9. \A m \in E : pos2[m] \in Int /\ neg2[m] = -pos2[m]
  BY <1>0, <1>3, <1>8
<1>10. neg2 = Negated(E, pos2)
  <2>1. neg2 = [m \in E |-> neg2[m]]
    BY <1>1 DEF With
  <2> QED
    BY Zenon, <1>9, <2>1 DEF Negated
<1>11. Ghosts(E, pos2, lo2, hi2, up2)
  <2>1. /\ lo2 \in [E -> E \cup {NULL}] /\ hi2 \in [E -> E \cup {NULL}] /\ up2 \in [E -> E \cup {NULL}]
        /\ NULL \notin E /\ \A m, n \in E : neg2[m] = neg2[n] => m = n
    BY <1>7 DEF Shape, Ghosts
  <2>2. pos2 \in [E -> Int]
    BY <1>0 DEF With
  <2>3. \A m, n \in E : pos2[m] = pos2[n] => m = n
    BY <1>9, <2>1
  <2> QED
    BY <2>1, <2>2, <2>3 DEF Ghosts
<1> QED
  BY <1>1, <1>7, <1>10, <1>11, MirrorShape

\* Every node but p, whose balance changes by b, keeps its balance; the new one
\* has none.
Weighed(t, u, D, new, p, b) ==
    /\ u.node[new].balance = 0
    /\ u.node[p].balance = t.node[p].balance + b
    /\ \A m \in D \ {p} : u.node[m].balance = t.node[m].balance

LEMMA AddLeftHeights ==
    ASSUME NEW t, NEW D, NEW pos, NEW lo, NEW hi, NEW up, Shape(t, D, pos, lo, hi, up),
           NEW h, Settled(t, D, h), NEW p \in D, ~t.node[p].left_child,
           NEW new, new \notin D, NEW u, AddedLeft(t, u, D, new, p),
           Weighed(t, u, D, new, p, -1), NEW E, E = D \cup {new},
           NEW k, k = With(D, h, new, 1)
    PROVE  Unsettled(u, E, k, p, 0)
<1>0. h \in [D -> Nat] /\ \A m \in D : Level(t, h, m)
  BY DEF Settled
<1>1. k[new] = 1 /\ \A m \in D : k[m] = h[m]
  BY WithValues
<1>2. k \in [E -> Nat]
  BY <1>0 DEF With
<1>3. Level(u, k, new)
  BY <1>1 DEF AddedLeft, Sides, Weighed, Level, Exact, Tall, LeftHeight, RightHeight, Taller, Balanced
<1>4. ASSUME NEW m \in D \ {p} PROVE Level(u, k, m)
  <2>1. SameSides(t, u, m) /\ u.node[m].balance = t.node[m].balance
    BY DEF AddedLeft, Weighed
  <2>2. /\ t.node[m].left_child => t.node[m].left \in D
        /\ t.node[m].right_child => t.node[m].right \in D
    BY Children
  <2>3. LeftHeight(u, k, m) = LeftHeight(t, h, m) /\ RightHeight(u, k, m) = RightHeight(t, h, m)
    BY <1>1, <2>1, <2>2 DEF SameSides, Sides, LeftHeight, RightHeight
  <2>4. Level(t, h, m) /\ k[m] = h[m]
    BY <1>0, <1>1
  <2> QED
    BY <2>1, <2>3, <2>4 DEF Level, Exact, Tall
<1>5. PICK b : b = RightHeight(t, h, p)
  OBVIOUS
<1>6. b \in Nat /\ LeftHeight(t, h, p) = 0
  BY <1>0, <1>5, HeightsNatural DEF LeftHeight
<1>7. t.node[p].balance = b - 0 /\ h[p] = 1 + Taller(0, b) /\ b - 0 \in -1 .. 1
  BY <1>0, <1>5, <1>6 DEF Level, Exact, Tall, Balanced
<1>8. LeftHeight(u, k, p) = 1 /\ RightHeight(u, k, p) = b /\ k[p] = h[p]
  <2>1. Sides(u.node[p], new, TRUE, t.node[p].right, t.node[p].right_child)
    BY Zenon DEF AddedLeft
  <2>2. t.node[p].right_child => t.node[p].right \in D
    BY Children
  <2> QED
    BY <1>1, <1>5, <2>1, <2>2 DEF Sides, LeftHeight, RightHeight
<1>9. u.node[p].balance = b - 1
  BY <1>6, <1>7 DEF Weighed
<1>10. /\ b - 1 \in -2 .. 2
       /\ 1 + Taller(0, b) = 1 + Taller(1, b) + 0 - (IF b - 1 = 0 THEN 0 ELSE 1)
  <2>1. Reweighed(0, b, 1, 0)
    BY <1>6, <1>7, HeightsShift DEF Step
  <2> QED
    BY <2>1 DEF Reweighed
<1>11. Exact(u, k, p) /\ k[p] = 1 + Taller(LeftHeight(u, k, p), RightHeight(u, k, p))
                                  + 0 - (IF u.node[p].balance = 0 THEN 0 ELSE 1)
  BY <1>7, <1>8, <1>9, <1>10 DEF Exact
<1> QED
  BY <1>2, <1>3, <1>4, <1>9, <1>10, <1>11 DEF Unsettled

LEMMA AddRightHeights ==
    ASSUME NEW t, NEW D, NEW pos, NEW lo, NEW hi, NEW up, Shape(t, D, pos, lo, hi, up),
           NEW h, Settled(t, D, h), NEW p \in D, ~t.node[p].right_child,
           NEW new, new \notin D, NEW u, AddedRight(t, u, D, new, p),
           Weighed(t, u, D, new, p, 1), NEW E, E = D \cup {new},
           NEW k, k = With(D, h, new, 1)
    PROVE  Unsettled(u, E, k, p, 0)
<1>0. h \in [D -> Nat] /\ \A m \in D : Level(t, h, m)
  BY DEF Settled
<1>1. k[new] = 1 /\ \A m \in D : k[m] = h[m]
  BY WithValues
<1>2. k \in [E -> Nat]
  BY <1>0 DEF With
<1>3. Level(u, k, new)
  BY <1>1 DEF AddedRight, Sides, Weighed, Level, Exact, Tall, LeftHeight, RightHeight, Taller, Balanced
<1>4. ASSUME NEW m \in D \ {p} PROVE Level(u, k, m)
  <2>1. SameSides(t, u, m) /\ u.node[m].balance = t.node[m].balance
    BY DEF AddedRight, Weighed
  <2>2. /\ t.node[m].left_child => t.node[m].left \in D
        /\ t.node[m].right_child => t.node[m].right \in D
    BY Children
  <2>3. LeftHeight(u, k, m) = LeftHeight(t, h, m) /\ RightHeight(u, k, m) = RightHeight(t, h, m)
    BY <1>1, <2>1, <2>2 DEF SameSides, Sides, LeftHeight, RightHeight
  <2>4. Level(t, h, m) /\ k[m] = h[m]
    BY <1>0, <1>1
  <2> QED
    BY <2>1, <2>3, <2>4 DEF Level, Exact, Tall
<1>5. PICK b : b = LeftHeight(t, h, p)
  OBVIOUS
<1>6. b \in Nat /\ RightHeight(t, h, p) = 0
  BY <1>0, <1>5, HeightsNatural DEF RightHeight
<1>7. t.node[p].balance = 0 - b /\ h[p] = 1 + Taller(0, b) /\ b - 0 \in -1 .. 1
  <2>1. h[p] = 1 + Taller(b, 0) /\ t.node[p].balance = 0 - b /\ 0 - b \in -1 .. 1
    BY <1>0, <1>5, <1>6 DEF Level, Exact, Tall, Balanced
  <2> QED
    BY <1>6, <2>1, TallerSymmetric
<1>8. RightHeight(u, k, p) = 1 /\ LeftHeight(u, k, p) = b /\ k[p] = h[p]
  <2>1. Sides(u.node[p], t.node[p].left, t.node[p].left_child, new, TRUE)
    BY Zenon DEF AddedRight
  <2>2. t.node[p].left_child => t.node[p].left \in D
    BY Children
  <2> QED
    BY <1>1, <1>5, <2>1, <2>2 DEF Sides, LeftHeight, RightHeight
<1>9. u.node[p].balance = 1 - b
  BY <1>6, <1>7 DEF Weighed
<1>10. /\ b - 1 \in -2 .. 2
       /\ 1 + Taller(0, b) = 1 + Taller(1, b) + 0 - (IF b - 1 = 0 THEN 0 ELSE 1)
  <2>1. Reweighed(0, b, 1, 0)
    BY <1>6, <1>7, HeightsShift DEF Step
  <2> QED
    BY <2>1 DEF Reweighed
<1>11. Taller(1, b) = Taller(b, 1) /\ 1 - b \in -2 .. 2 /\ (b - 1 = 0 <=> 1 - b = 0)
  BY <1>6, <1>10, TallerSymmetric
<1>12. Exact(u, k, p) /\ k[p] = 1 + Taller(LeftHeight(u, k, p), RightHeight(u, k, p))
                                  + 0 - (IF u.node[p].balance = 0 THEN 0 ELSE 1)
  BY <1>7, <1>8, <1>9, <1>10, <1>11 DEF Exact
<1> QED
  BY <1>2, <1>3, <1>4, <1>9, <1>11, <1>12 DEF Unsettled

\* The way to p is a way in the larger tree.
LEMMA ChainGrows ==
    ASSUME NEW t, NEW u, NEW D, NEW E, D \subseteq E, NULL \notin E, NEW way, OnceEach(way, D),
           Chain(t, D, way, Len(way)), u.root = t.root,
           \A m \in D \ {way[Len(way)]} : SameSides(t, u, m)
    PROVE  OnceEach(way, E) /\ Chain(u, E, way, Len(way))
<1>1. way \in Seq(D) /\ Len(way) \in Nat /\ way \in Seq(E)
  BY DEF OnceEach
<1>2. OnceEach(way, E)
  BY <1>1 DEF OnceEach
<1>3. ASSUME NEW j \in 1 .. Len(way) - 1 PROVE Below(u, E, way[j + 1], way[j])
  <2>1. way[j] \in D /\ way[j] # way[Len(way)]
    BY <1>1 DEF OnceEach
  <2>2. SameSides(t, u, way[j]) /\ Below(t, D, way[j + 1], way[j])
    BY <2>1 DEF Chain
  <2> QED
    BY <2>1, <2>2 DEF Below, SameSides, Sides, LeftOf, RightOf
<1> QED
  BY <1>2, <1>3 DEF Chain

\* The new node holds the key and the value.
Entered(t, u, D, new, key, value) ==
    /\ TreeType(u, D \cup {new}) /\ u.nnodes = t.nnodes + 1
    /\ u.node[new].key = key /\ u.node[new].value = value
    /\ SameData(t, u, D)

WithLeft(x, m, b) == [x EXCEPT !.left = m, !.left_child = TRUE, !.balance = b]
WithRight(x, m, b) == [x EXCEPT !.right = m, !.right_child = TRUE, !.balance = b]
Leaf(key, value, l, r) == [NewNode(key, value) EXCEPT !.left = l, !.right = r]
LeafToo(key, value, l, r) == [NewNode(key, value) EXCEPT !.right = r, !.left = l]

GotLeft(y, x, m, b) ==
    /\ y.balance = b /\ y.key = x.key /\ y.value = x.value
    /\ Sides(y, m, TRUE, x.right, x.right_child)
GotRight(y, x, m, b) ==
    /\ y.balance = b /\ y.key = x.key /\ y.value = x.value
    /\ Sides(y, x.left, x.left_child, m, TRUE)
IsLeaf(z, key, value, l, r) ==
    /\ z.key = key /\ z.value = value /\ z.balance = 0
    /\ Sides(z, l, FALSE, r, FALSE)

LEMMA LeftAdded ==
    ASSUME NEW K, NEW V, NEW L, NEW x \in Node(K, V, L), NEW m \in L, NEW b \in Int,
           NEW y, y = WithLeft(x, m, b)
    PROVE  GotLeft(y, x, m, b) /\ y \in Node(K, V, L)
BY Zenon DEF Node, Sides, WithLeft, GotLeft

LEMMA RightAdded ==
    ASSUME NEW K, NEW V, NEW L, NEW x \in Node(K, V, L), NEW m \in L, NEW b \in Int,
           NEW y, y = WithRight(x, m, b)
    PROVE  GotRight(y, x, m, b) /\ y \in Node(K, V, L)
BY Zenon DEF Node, Sides, WithRight, GotRight

LEMMA NodeMade ==
    ASSUME NEW L, NULL \in L, NEW key, NEW value, NEW z, z = NewNode(key, value)
    PROVE  IsLeaf(z, key, value, NULL, NULL) /\ z \in Node({key}, {value}, L)
BY DEF NewNode, IsLeaf, Sides, Node

PutLeft(x, m) == [x EXCEPT !.left = m]
PutRight(x, m) == [x EXCEPT !.right = m]
LEMMA LeafPut ==
    ASSUME NEW K, NEW V, NEW L, NEW x \in Node(K, V, L), NEW m \in L, NEW key, NEW value,
           NEW l, NEW r, IsLeaf(x, key, value, l, r), NEW y
    PROVE  /\ y = PutLeft(x, m) => y \in Node(K, V, L) /\ IsLeaf(y, key, value, m, r)
           /\ y = PutRight(x, m) => y \in Node(K, V, L) /\ IsLeaf(y, key, value, l, m)
<1>1. ASSUME y = PutLeft(x, m) PROVE y \in Node(K, V, L) /\ IsLeaf(y, key, value, m, r)
  BY <1>1 DEF PutLeft, Node, IsLeaf, Sides
<1>2. ASSUME y = PutRight(x, m) PROVE y \in Node(K, V, L) /\ IsLeaf(y, key, value, l, m)
  BY <1>2 DEF PutRight, Node, IsLeaf, Sides
<1> QED
  BY <1>1, <1>2

LEMMA LeafMade ==
    ASSUME NEW L, NULL \in L, NEW l \in L, NEW r \in L, NEW key, NEW value,
           NEW z, z = Leaf(key, value, l, r) \/ z = LeafToo(key, value, l, r)
    PROVE  IsLeaf(z, key, value, l, r) /\ z \in Node({key}, {value}, L)
<1>1. PICK x : x = NewNode(key, value)
  OBVIOUS
<1>2. IsLeaf(x, key, value, NULL, NULL) /\ x \in Node({key}, {value}, L)
  BY <1>1, NodeMade
<1>3. CASE z = Leaf(key, value, l, r)
  <2>1. PICK y : y = PutLeft(x, l)
    OBVIOUS
  <2>2. z = PutRight(y, r)
    BY <1>1, <1>3, <2>1 DEF Leaf, PutLeft, PutRight
  <2>3. y \in Node({key}, {value}, L) /\ IsLeaf(y, key, value, l, NULL)
    BY <1>2, <2>1, LeafPut
  <2> QED
    BY <2>2, <2>3, LeafPut
<1>4. CASE z = LeafToo(key, value, l, r)
  <2>1. PICK y : y = PutRight(x, r)
    OBVIOUS
  <2>2. z = PutLeft(y, l)
    BY <1>1, <1>4, <2>1 DEF LeafToo, PutLeft, PutRight
  <2>3. y \in Node({key}, {value}, L) /\ IsLeaf(y, key, value, NULL, r)
    BY <1>2, <2>1, LeafPut
  <2> QED
    BY <2>2, <2>3, LeafPut
<1> QED
  BY <1>3, <1>4

LEMMA NodeWider ==
    ASSUME NEW K, NEW V, NEW L, NEW K2, NEW V2, NEW L2, K \subseteq K2, V \subseteq V2,
           L \subseteq L2
    PROVE  Node(K, V, L) \subseteq Node(K2, V2, L2)
BY DEF Node

LEMMA AddLeftNodes ==
    ASSUME NEW t, NEW D, TreeType(t, D), NEW p \in D, NEW new, new \notin D, new # NULL,
           NEW key, NEW value, NEW u, u = AddLeft(t, new, key, value, p)
    PROVE  /\ AddedLeft(t, u, D, new, p) /\ Weighed(t, u, D, new, p, -1)
           /\ Entered(t, u, D, new, key, value)
<1>1. PICK K, V, L : t \in Trees(D, Node(K, V, L), L) /\ L = D \cup {NULL}
  BY DEF TreeType
<1>2. PICK x : x = t.node[p] /\ x \in Node(K, V, L) /\ DOMAIN t.node = D
  BY <1>1 DEF Trees
<1>3. PICK M : M = D \cup {new} \cup {NULL}
  BY Zenon
<1>20. PICK K2, V2, N : K2 = K \cup {key} /\ V2 = V \cup {value} /\ N = Node(K2, V2, M)
  BY Zenon
<1>13. Node(K, V, L) \subseteq N /\ Node({key}, {value}, M) \subseteq N
  <2>1. /\ K \subseteq K2 /\ V \subseteq V2 /\ L \subseteq M /\ M \subseteq M
        /\ {key} \subseteq K2 /\ {value} \subseteq V2
    BY <1>1, <1>3, <1>20
  <2>2. Node(K, V, L) \subseteq Node(K2, V2, M)
    BY <2>1, NodeWider
  <2>3. Node({key}, {value}, M) \subseteq Node(K2, V2, M)
    BY <2>1, NodeWider
  <2> QED
    BY Zenon, <1>20, <2>2, <2>3
<1>4. PICK y : y = WithLeft(x, new, x.balance - 1)
  OBVIOUS
<1>5. GotLeft(y, x, new, x.balance - 1) /\ y \in N
  <2>1. x \in N /\ x.balance \in Int /\ new \in M
    BY <1>2, <1>3, <1>13 DEF Node
  <2>2. x \in Node(K2, V2, M) /\ x.balance - 1 \in Int
    BY <1>20, <2>1
  <2>3. PICK b \in Int : b = x.balance - 1
    BY <2>2
  <2>4. y = WithLeft(x, new, b)
    BY <1>4, <2>3
  <2>5. new \in M
    BY <1>3
  <2>6. GotLeft(y, x, new, b) /\ y \in Node(K2, V2, M)
    BY <2>2, <2>3, <2>4, <2>5, LeftAdded
  <2>7. N = Node(K2, V2, M)
    BY <1>20
  <2> QED
    BY <2>3, <2>6, <2>7
<1>6. PICK z : z = Leaf(key, value, x.left, p)
  OBVIOUS
<1>7. IsLeaf(z, key, value, x.left, p) /\ z \in N
  <2>1. NULL \in M /\ p \in M /\ x.left \in M
    BY <1>1, <1>2, <1>3 DEF Node
  <2>2. PICK l : l = x.left
    OBVIOUS
  <2>3. NULL \in M /\ l \in M /\ p \in M /\ z = Leaf(key, value, l, p)
    BY <1>6, <2>1, <2>2
  <2>4. IsLeaf(z, key, value, l, p) /\ z \in Node({key}, {value}, M)
    BY Zenon, <2>3, LeafMade
  <2> QED
    BY <1>13, <2>2, <2>4
<1>8. PICK f : f = [m \in D \cup {new} |-> IF m = new THEN z ELSE IF m = p THEN y ELSE t.node[m]]
  BY Zenon
<1>9. f[new] = z /\ f[p] = y /\ \A m \in D \ {p} : f[m] = t.node[m]
  BY <1>8
<1>10. u = [t EXCEPT !.node = f, !.nnodes = @ + 1]
  <2>1. y = [t.node[p] EXCEPT !.left = new, !.left_child = TRUE, !.balance = @ - 1]
    BY <1>2, <1>4 DEF WithLeft
  <2>2. z = [NewNode(key, value) EXCEPT !.left = t.node[p].left, !.right = p]
    BY <1>2, <1>6 DEF Leaf
  <2> QED
    BY <1>2, <1>8, <2>1, <2>2 DEF AddLeft
<1>11. u.node = f /\ u.root = t.root /\ u.nnodes = t.nnodes + 1 /\ t.nnodes \in Int
       /\ u = [root |-> t.root, node |-> f, nnodes |-> t.nnodes + 1]
  BY Zenon, <1>1, <1>10 DEF Trees
<1>12. \A m \in D : t.node[m] \in Node(K, V, L)
  BY <1>1 DEF Trees
<1>14. f \in [D \cup {new} -> N]
  <2>1. \A m \in D : t.node[m] \in N
    BY <1>12, <1>13
  <2> QED
    BY <1>5, <1>7, <1>8, <2>1
<1>15. TreeType(u, D \cup {new})
  <2>1. t.root \in M
    BY <1>1, <1>3 DEF Trees
  <2>2. u \in Trees(D \cup {new}, N, M)
    BY <1>11, <1>14, <2>1 DEF Trees
  <2>3. M = (D \cup {new}) \cup {NULL}
    BY <1>3
  <2> QED
    BY <1>20, <2>2, <2>3 DEF TreeType
<1>16. AddedLeft(t, u, D, new, p)
  BY <1>2, <1>5, <1>7, <1>9, <1>11 DEF GotLeft, IsLeaf, AddedLeft, SameSides, Sides
<1>17. Weighed(t, u, D, new, p, -1)
  <2>1. x.balance \in Int
    BY <1>2 DEF Node
  <2> QED
    BY <1>2, <1>5, <1>7, <1>9, <1>11, <2>1 DEF GotLeft, IsLeaf, Weighed
<1>18. SameData(t, u, D)
  BY <1>2, <1>5, <1>9, <1>11 DEF GotLeft, IsLeaf, SameData
<1> QED
  BY <1>7, <1>9, <1>11, <1>15, <1>16, <1>17, <1>18 DEF GotLeft, IsLeaf, Entered

LEMMA AddRightNodes ==
    ASSUME NEW t, NEW D, TreeType(t, D), NEW p \in D, NEW new, new \notin D, new # NULL,
           NEW key, NEW value, NEW u, u = AddRight(t, new, key, value, p)
    PROVE  /\ AddedRight(t, u, D, new, p) /\ Weighed(t, u, D, new, p, 1)
           /\ Entered(t, u, D, new, key, value)
<1>1. PICK K, V, L : t \in Trees(D, Node(K, V, L), L) /\ L = D \cup {NULL}
  BY DEF TreeType
<1>2. PICK x : x = t.node[p] /\ x \in Node(K, V, L) /\ DOMAIN t.node = D
  BY <1>1 DEF Trees
<1>3. PICK M : M = D \cup {new} \cup {NULL}
  OBVIOUS
<1>20. PICK K2, V2, N : K2 = K \cup {key} /\ V2 = V \cup {value} /\ N = Node(K2, V2, M)
  OBVIOUS
<1>13. Node(K, V, L) \subseteq N /\ Node({key}, {value}, M) \subseteq N
  <2>1. /\ K \subseteq K2 /\ V \subseteq V2 /\ L \subseteq M /\ M \subseteq M
        /\ {key} \subseteq K2 /\ {value} \subseteq V2
    BY <1>1, <1>3, <1>20
  <2>2. Node(K, V, L) \subseteq Node(K2, V2, M)
    BY <2>1, NodeWider
  <2>3. Node({key}, {value}, M) \subseteq Node(K2, V2, M)
    BY <2>1, NodeWider
  <2> QED
    BY <1>20, <2>2, <2>3
<1>4. PICK y : y = WithRight(x, new, x.balance + 1)
  OBVIOUS
<1>5. GotRight(y, x, new, x.balance + 1) /\ y \in N
  <2>1. x \in N /\ x.balance \in Int /\ new \in M
    BY <1>2, <1>3, <1>13 DEF Node
  <2>2. x \in Node(K2, V2, M) /\ x.balance + 1 \in Int
    BY <1>20, <2>1
  <2>3. PICK b \in Int : b = x.balance + 1
    BY <2>2
  <2>4. y = WithRight(x, new, b)
    BY <1>4, <2>3
  <2>5. new \in M
    BY <1>3
  <2>6. GotRight(y, x, new, b) /\ y \in Node(K2, V2, M)
    BY <2>2, <2>3, <2>4, <2>5, RightAdded
  <2>7. N = Node(K2, V2, M)
    BY <1>20
  <2> QED
    BY <2>3, <2>6, <2>7
<1>6. PICK z : z = LeafToo(key, value, p, x.right)
  OBVIOUS
<1>7. IsLeaf(z, key, value, p, x.right) /\ z \in N
  <2>1. NULL \in M /\ p \in M /\ x.right \in M
    BY <1>1, <1>2, <1>3 DEF Node
  <2>2. PICK l : l = x.right
    OBVIOUS
  <2>3. NULL \in M /\ l \in M /\ p \in M /\ z = LeafToo(key, value, p, l)
    BY <1>6, <2>1, <2>2
  <2>4. IsLeaf(z, key, value, p, l) /\ z \in Node({key}, {value}, M)
    BY Zenon, <2>3, LeafMade
  <2> QED
    BY <1>13, <2>2, <2>4
<1>8. PICK f : f = [m \in D \cup {new} |-> IF m = new THEN z ELSE IF m = p THEN y ELSE t.node[m]]
  OBVIOUS
<1>9. f[new] = z /\ f[p] = y /\ \A m \in D \ {p} : f[m] = t.node[m]
  BY <1>8
<1>10. u = [t EXCEPT !.node = f, !.nnodes = @ + 1]
  <2>1. y = [t.node[p] EXCEPT !.right = new, !.right_child = TRUE, !.balance = @ + 1]
    BY <1>2, <1>4 DEF WithRight
  <2>2. z = [NewNode(key, value) EXCEPT !.right = t.node[p].right, !.left = p]
    BY <1>2, <1>6 DEF LeafToo
  <2> QED
    BY <1>2, <1>8, <2>1, <2>2 DEF AddRight
<1>11. u.node = f /\ u.root = t.root /\ u.nnodes = t.nnodes + 1 /\ t.nnodes \in Int
       /\ u = [root |-> t.root, node |-> f, nnodes |-> t.nnodes + 1]
  BY <1>1, <1>10 DEF Trees
<1>12. \A m \in D : t.node[m] \in Node(K, V, L)
  BY <1>1 DEF Trees
<1>14. f \in [D \cup {new} -> N]
  <2>1. \A m \in D : t.node[m] \in N
    BY <1>12, <1>13
  <2> QED
    BY <1>5, <1>7, <1>8, <2>1
<1>15. TreeType(u, D \cup {new})
  <2>1. t.root \in M
    BY <1>1, <1>3 DEF Trees
  <2>2. u \in Trees(D \cup {new}, N, M)
    BY <1>11, <1>14, <2>1 DEF Trees
  <2>3. M = (D \cup {new}) \cup {NULL}
    BY <1>3
  <2> QED
    BY <1>20, <2>2, <2>3 DEF TreeType
<1>16. AddedRight(t, u, D, new, p)
  BY <1>2, <1>5, <1>7, <1>9, <1>11 DEF GotRight, IsLeaf, AddedRight, SameSides, Sides
<1>17. Weighed(t, u, D, new, p, 1)
  <2>1. x.balance \in Int
    BY <1>2 DEF Node
  <2> QED
    BY <1>2, <1>5, <1>7, <1>9, <1>11, <2>1 DEF GotRight, IsLeaf, Weighed
<1>18. SameData(t, u, D)
  BY <1>2, <1>5, <1>9, <1>11 DEF GotRight, IsLeaf, SameData
<1> QED
  BY <1>7, <1>9, <1>11, <1>15, <1>16, <1>17, <1>18 DEF GotRight, IsLeaf, Entered

\* A tree whose nodes D are in the order of pos, for some heights and bounds.
Holds(t, D, pos) == \E lo, hi, up, h : Sound(t, D, pos, lo, hi, up, h)

\* The leaf is in place; the balance is restored.
LEMMA GrownKeeps ==
    ASSUME NEW t, NEW D, IsFiniteSet(D), NEW new, new \notin D, t.nnodes = Cardinality(D),
           NEW key, NEW value, NEW u, Entered(t, u, D, new, key, value),
           NEW E, E = D \cup {new}, NEW pos, \E lo, hi, up : Shape(u, E, pos, lo, hi, up),
           NEW way, OnceEach(way, E), Chain(u, E, way, Len(way)), Len(way) # 0,
           \E h : Unsettled(u, E, h, way[Len(way)], 0),
           NEW r, r = Restore(u, way, 1)
    PROVE  Holds(r, E, pos) /\ Entered(t, r, D, new, key, value)
<1>1. TreeType(u, E)
  BY DEF Entered
<1>2. /\ Untouched(u, r, E, E)
      /\ \E lo, hi, up : Shape(r, E, pos, lo, hi, up)
      /\ \E h : Settled(r, E, h)
  <2>1. PICK by : by = 1
    OBVIOUS
  <2>2. by = Step(0) /\ r = Restore(u, way, by)
    BY <2>1 DEF Step
  <2> QED
    BY Zenon, <1>1, <2>2, RestoreKeeps
<1>3. IsFiniteSet(E) /\ Cardinality(E) = Cardinality(D) + 1
  BY FS_AddElement
<1>4. TreeType(r, E) /\ r.nnodes = u.nnodes /\ u.nnodes = t.nnodes + 1 /\ SameData(u, r, E)
  BY <1>2 DEF Untouched, Entered
<1>5. Holds(r, E, pos)
  BY <1>2, <1>3, <1>4 DEF Holds, Sound
<1>6. Entered(t, r, D, new, key, value)
  BY <1>4 DEF Entered, SameData
<1> QED
  BY <1>5, <1>6

LEMMA AddLeftKeeps ==
    ASSUME NEW t, NEW D, NEW pos, NEW lo, NEW hi, NEW up, NEW h, Sound(t, D, pos, lo, hi, up, h),
           NEW c, NEW rank, Directs(D, pos, c, rank),
           NEW way, OnceEach(way, D), Chain(t, D, way, Len(way)), Len(way) # 0,
           NEW p, p = way[Len(way)], Found(t, D, pos, lo, hi, c, rank, p), c[p] < 0,
           NEW new, new \notin D, new # NULL, NEW key, NEW value,
           NEW u, u = AddLeft(t, new, key, value, p),
           NEW r, r = Restore(u, way, 1),
           NEW E, E = D \cup {new}, NEW pos2, pos2 = With(D, pos, new, rank)
    PROVE  Holds(r, E, pos2) /\ Entered(t, r, D, new, key, value)
<1>1. /\ TreeType(t, D) /\ IsFiniteSet(D) /\ Shape(t, D, pos, lo, hi, up) /\ Settled(t, D, h)
      /\ t.nnodes = Cardinality(D) /\ NULL \notin D
  BY SoundParts DEF Sound
<1>2. /\ p \in D /\ ~t.node[p].left_child /\ rank \in Int
      /\ rank < pos[p] /\ (lo[p] # NULL => pos[lo[p]] < rank)
  BY DEF Found, Directs
<1>3. \A m \in D : hi[m] # p
  BY <1>1, <1>2, AllReached DEF Reached
<1>4. AddedLeft(t, u, D, new, p) /\ Weighed(t, u, D, new, p, -1) /\ Entered(t, u, D, new, key, value)
  BY <1>1, <1>2, AddLeftNodes
<1>5. \E lo2, hi2, up2 : Shape(u, E, pos2, lo2, hi2, up2)
  <2>1. PICK lo2, hi2, up2 : /\ lo2 = With(D, lo, new, lo[p]) /\ hi2 = With(D, hi, new, p)
                             /\ up2 = With(D, up, new, p)
    OBVIOUS
  <2>2. Shape(u, E, pos2, lo2, hi2, up2)
    BY Zenon, <1>1, <1>2, <1>3, <1>4, <2>1, AddLeftShape
  <2> QED
    BY <2>2
<1>6. \E k : Unsettled(u, E, k, p, 0)
  <2>1. PICK k : k = With(D, h, new, 1)
    OBVIOUS
  <2>2. Unsettled(u, E, k, p, 0)
    BY <1>1, <1>2, <1>4, <2>1, AddLeftHeights
  <2> QED
    BY <2>2
<1>7. OnceEach(way, E) /\ Chain(u, E, way, Len(way))
  <2>1. u.root = t.root /\ \A m \in D \ {p} : SameSides(t, u, m)
    BY <1>4 DEF AddedLeft
  <2>2. D \subseteq E /\ NULL \notin E
    BY <1>1
  <2> QED
    BY Zenon, <2>1, <2>2, ChainGrows
<1> QED
  BY Zenon, <1>1, <1>4, <1>5, <1>6, <1>7, GrownKeeps

LEMMA AddRightKeeps ==
    ASSUME NEW t, NEW D, NEW pos, NEW lo, NEW hi, NEW up, NEW h, Sound(t, D, pos, lo, hi, up, h),
           NEW c, NEW rank, Directs(D, pos, c, rank),
           NEW way, OnceEach(way, D), Chain(t, D, way, Len(way)), Len(way) # 0,
           NEW p, p = way[Len(way)], Found(t, D, pos, lo, hi, c, rank, p), c[p] > 0,
           NEW new, new \notin D, new # NULL, NEW key, NEW value,
           NEW u, u = AddRight(t, new, key, value, p),
           NEW r, r = Restore(u, way, 1),
           NEW E, E = D \cup {new}, NEW pos2, pos2 = With(D, pos, new, rank)
    PROVE  Holds(r, E, pos2) /\ Entered(t, r, D, new, key, value)
<1>1. /\ TreeType(t, D) /\ IsFiniteSet(D) /\ Shape(t, D, pos, lo, hi, up) /\ Settled(t, D, h)
      /\ t.nnodes = Cardinality(D) /\ NULL \notin D
  BY SoundParts DEF Sound
<1>2. /\ p \in D /\ ~t.node[p].right_child /\ rank \in Int
      /\ pos[p] < rank /\ (hi[p] # NULL => rank < pos[hi[p]])
  BY DEF Found, Directs
<1>3. \A m \in D : lo[m] # p
  BY <1>1, <1>2, AllReached DEF Reached
<1>4. AddedRight(t, u, D, new, p) /\ Weighed(t, u, D, new, p, 1) /\ Entered(t, u, D, new, key, value)
  BY <1>1, <1>2, AddRightNodes
<1>5. \E lo2, hi2, up2 : Shape(u, E, pos2, lo2, hi2, up2)
  <2>1. PICK lo2, hi2, up2 : /\ lo2 = With(D, lo, new, p) /\ hi2 = With(D, hi, new, hi[p])
                             /\ up2 = With(D, up, new, p)
    OBVIOUS
  <2>2. Shape(u, E, pos2, lo2, hi2, up2)
    BY Zenon, <1>1, <1>2, <1>3, <1>4, <2>1, AddRightShape
  <2> QED
    BY <2>2
<1>6. \E k : Unsettled(u, E, k, p, 0)
  <2>1. PICK k : k = With(D, h, new, 1)
    OBVIOUS
  <2>2. Unsettled(u, E, k, p, 0)
    BY <1>1, <1>2, <1>4, <2>1, AddRightHeights
  <2> QED
    BY <2>2
<1>7. OnceEach(way, E) /\ Chain(u, E, way, Len(way))
  <2>1. u.root = t.root /\ \A m \in D \ {p} : SameSides(t, u, m)
    BY <1>4 DEF AddedRight
  <2>2. D \subseteq E /\ NULL \notin E
    BY <1>1
  <2> QED
    BY <2>1, <2>2, ChainGrows
<1> QED
  BY Zenon, <1>1, <1>4, <1>5, <1>6, <1>7, GrownKeeps

\* u is t but for the key and the value of n.
Refilled(t, u, D, n, key, value) ==
    /\ TreeType(u, D) /\ u.root = t.root /\ u.nnodes = t.nnodes
    /\ \A m \in D : SameSides(t, u, m) /\ u.node[m].balance = t.node[m].balance
    /\ u.node[n].key = key /\ u.node[n].value = value
    /\ SameData(t, u, D \ {n})

\* A record with a new key, or with a new value.
Rekeyed(x, key) == [x EXCEPT !.key = key]
Revalued(x, value) == [x EXCEPT !.value = value]
AllBut(x, y) ==
    /\ Sides(y, x.left, x.left_child, x.right, x.right_child) /\ y.balance = x.balance
NewKey(x, y, key) == AllBut(x, y) /\ y.key = key /\ y.value = x.value
NewValue(x, y, value) == AllBut(x, y) /\ y.value = value /\ y.key = x.key

LEMMA Rekeys ==
    ASSUME NEW K, NEW V, NEW L, NEW x \in Node(K, V, L), NEW key, NEW y, y = Rekeyed(x, key)
    PROVE  y \in Node(K \cup {key}, V, L) /\ NewKey(x, y, key)
BY DEF Rekeyed, Node, Sides, AllBut, NewKey
LEMMA Revalues ==
    ASSUME NEW K, NEW V, NEW L, NEW x \in Node(K, V, L), NEW value, NEW y, y = Revalued(x, value)
    PROVE  y \in Node(K, V \cup {value}, L) /\ NewValue(x, y, value)
BY DEF Revalued, Node, Sides, AllBut, NewValue

SameElse(t, u, D) == \A m \in D : SameSides(t, u, m) /\ u.node[m].balance = t.node[m].balance
LEMMA NodeReplaced ==
    ASSUME NEW t, NEW D, NEW N, NEW M, NEW L, t \in Trees(D, N, L), N \subseteq M,
           NEW n \in D, NEW y \in M, AllBut(t.node[n], y), NEW u, u = [t EXCEPT !.node[n] = y]
    PROVE  u \in Trees(D, M, L) /\ Changed(t, u, n, y) /\ SameElse(t, u, D)
<1>1. t \in Trees(D, M, L)
  BY DEF Trees
<1>2. u \in Trees(D, M, L) /\ Changed(t, u, n, y)
  BY <1>1, NodeChanged
<1>3. u.node[n] = y /\ \A m \in D \ {n} : u.node[m] = t.node[m]
  BY <1>1, <1>2 DEF Changed, Trees
<1> QED
  BY <1>2, <1>3 DEF AllBut, SameSides, Sides, SameElse

LEMMA OverwriteNodes ==
    ASSUME NEW t, NEW D, TreeType(t, D), NEW n \in D, NEW key, NEW value, NEW replace,
           NEW x, x = Overwrite(t, n, key, value, replace),
           NEW u, u = x.tree, NEW kept, kept = IF replace THEN key ELSE t.node[n].key
    PROVE  /\ Refilled(t, u, D, n, kept, value)
           /\ x.freed = {t.node[n].value, IF replace THEN t.node[n].key ELSE key}
<1>1. PICK K, V, L : t \in Trees(D, Node(K, V, L), L) /\ L = D \cup {NULL}
  BY DEF TreeType
<1>2. PICK a, b, c : a = t.node[n] /\ b = Revalued(a, value) /\ c = Rekeyed(b, kept)
  OBVIOUS
<1>3. PICK K2, V2 : K2 = K \cup {kept} /\ V2 = V \cup {value}
  BY Zenon
<1>4. a \in Node(K, V, L)
  BY <1>1, <1>2 DEF Trees
<1>5. b \in Node(K, V2, L) /\ NewValue(a, b, value)
  BY <1>2, <1>3, <1>4, Revalues
<1>6. c \in Node(K2, V2, L) /\ NewKey(b, c, kept)
  BY <1>2, <1>3, <1>5, Rekeys
<1>18. /\ AllBut(a, b) /\ AllBut(b, c) /\ b.key = a.key /\ b.value = value
       /\ c.key = kept /\ c.value = value
  BY <1>5, <1>6 DEF NewKey, NewValue
<1>7. PICK s : s = [t EXCEPT !.node[n] = b]
  BY Zenon
<1>8. Node(K, V, L) \subseteq Node(K, V2, L) /\ Node(K, V2, L) \subseteq Node(K2, V2, L)
  <2>1. K \subseteq K2 /\ V \subseteq V2 /\ K \subseteq K /\ V2 \subseteq V2 /\ L \subseteq L
    BY <1>3
  <2>2. Node(K, V, L) \subseteq Node(K, V2, L)
    BY <2>1, NodeWider
  <2>3. Node(K, V2, L) \subseteq Node(K2, V2, L)
    BY <2>1, NodeWider
  <2> QED
    BY <2>2, <2>3
<1>9. s \in Trees(D, Node(K, V2, L), L) /\ Changed(t, s, n, b) /\ SameElse(t, s, D)
  <2>1. AllBut(t.node[n], b)
    BY <1>2, <1>18
  <2>2. PICK N, M : N = Node(K, V, L) /\ M = Node(K, V2, L)
    OBVIOUS
  <2>3. t \in Trees(D, N, L) /\ N \subseteq M /\ b \in M
    BY <1>1, <1>5, <1>8, <2>2
  <2>4. s \in Trees(D, M, L) /\ Changed(t, s, n, b) /\ SameElse(t, s, D)
    BY <1>7, <2>1, <2>3, NodeReplaced
  <2> QED
    BY <2>2, <2>4
<1>10. s.node[n] = b
  BY <1>9 DEF Changed
<1>11. u = [s EXCEPT !.node[n] = c]
  <2>1. s = [t EXCEPT !.node[n].value = value]
    BY <1>1, <1>2, <1>7 DEF Revalued, Trees
  <2>2. u = [s EXCEPT !.node[n].key = kept]
    <3>1. CASE replace
      BY <2>1, <3>1 DEF Overwrite
    <3>2. CASE ~replace
      <4>1. s.node[n].key = t.node[n].key
        BY <1>2, <1>10, <1>18
      <4> QED
        BY <2>1, <3>2, <4>1 DEF Overwrite
    <3> QED
      BY <3>1, <3>2
  <2> QED
    BY <1>2, <1>9, <1>10, <2>2 DEF Rekeyed, Trees
<1>12. u \in Trees(D, Node(K2, V2, L), L) /\ Changed(s, u, n, c) /\ SameElse(s, u, D)
  BY <1>6, <1>8, <1>9, <1>10, <1>11, <1>18, NodeReplaced
<1>13. /\ u.node[n] = c /\ u.root = t.root /\ u.nnodes = t.nnodes
       /\ \A m \in D \ {n} : u.node[m] = t.node[m]
  <2>1. DOMAIN t.node = D /\ DOMAIN s.node = D
    BY <1>1, <1>9 DEF Trees
  <2> QED
    BY <1>9, <1>12, <2>1 DEF Changed
<1>14. \A m \in D : SameSides(t, u, m) /\ u.node[m].balance = t.node[m].balance
  BY <1>9, <1>12 DEF SameSides, Sides, SameElse
<1>15. TreeType(u, D)
  BY <1>1, <1>12 DEF TreeType
<1>16. SameData(t, u, D \ {n})
  BY <1>13 DEF SameData
<1>17. x.freed = {t.node[n].value, IF replace THEN t.node[n].key ELSE key}
  BY DEF Overwrite
<1> QED
  BY <1>13, <1>14, <1>15, <1>16, <1>17, <1>18 DEF Refilled

LEMMA RefillKeeps ==
    ASSUME NEW t, NEW D, NEW pos, Holds(t, D, pos), NEW n \in D, NEW key, NEW value,
           NEW u, Refilled(t, u, D, n, key, value)
    PROVE  Holds(u, D, pos)
<1>1. PICK lo, hi, up, h : Sound(t, D, pos, lo, hi, up, h)
  BY DEF Holds
<1>2. Shape(u, D, pos, lo, hi, up)
  BY <1>1, SoundParts, ShapeSame DEF Refilled
<1>3. \A m \in D : Level(u, h, m)
  <2> SUFFICES ASSUME NEW m \in D PROVE Level(u, h, m)
    OBVIOUS
  <2>1. Level(t, h, m) /\ SameSides(t, u, m) /\ u.node[m].balance = t.node[m].balance
    BY <1>1, SoundParts DEF Refilled
  <2>2. LeftHeight(u, h, m) = LeftHeight(t, h, m) /\ RightHeight(u, h, m) = RightHeight(t, h, m)
    BY <2>1 DEF SameSides, Sides, LeftHeight, RightHeight
  <2> QED
    BY <2>1, <2>2 DEF Level, Exact, Tall
<1>4. Sound(u, D, pos, lo, hi, up, h)
  BY <1>1, <1>2, <1>3 DEF Sound, Settled, Refilled
<1> QED
  BY <1>4 DEF Holds

\* The first node of all.
LEMMA FirstEntered ==
    ASSUME NEW t, t.nnodes = 0, NEW new, new # NULL, NEW key, NEW value,
           NEW pos, NEW rank \in Int, NEW D, D = {},
           NEW E, E = D \cup {new}, NEW pos2, pos2 = With(D, pos, new, rank),
           NEW u, u = [root |-> new, node |-> [x \in {new} |-> NewNode(key, value)],
                       nnodes |-> t.nnodes + 1]
    PROVE  Holds(u, E, pos2) /\ Entered(t, u, D, new, key, value)
<1>1. E = {new} /\ IsFiniteSet(E) /\ Cardinality(E) = 1
  <2>1. E = {new}
    OBVIOUS
  <2>2. IsFiniteSet({new}) /\ Cardinality({new}) = 1
    BY Zenon, FS_Singleton
  <2> QED
    BY <2>1, <2>2
<1>2. u.root = new /\ u.nnodes = 1 /\ u.node = [x \in E |-> NewNode(key, value)]
  BY <1>1
<1>3. PICK z, L : z = NewNode(key, value) /\ L = E \cup {NULL}
  BY Zenon
<1>4. IsLeaf(z, key, value, NULL, NULL) /\ z \in Node({key}, {value}, L)
  BY <1>3, NodeMade
<1>5. TreeType(u, E)
  <2>1. u.node \in [E -> Node({key}, {value}, L)]
    BY <1>2, <1>3, <1>4
  <2>2. u \in Trees(E, Node({key}, {value}, L), L)
    BY <1>1, <1>2, <1>3, <2>1 DEF Trees
  <2> QED
    BY <1>3, <2>2 DEF TreeType
<1>6. u.node[new] = z
  BY <1>1, <1>2, <1>3
<1>7. PICK lo, h : lo = [x \in E |-> NULL] /\ h = [x \in E |-> 1]
  BY Zenon
<1>8. pos2[new] = rank /\ pos2 \in [E -> Int] /\ lo[new] = NULL /\ h[new] = 1
      /\ lo \in [E -> E \cup {NULL}] /\ h \in [E -> Nat]
  BY <1>1, <1>7 DEF With
<1>9. Shape(u, E, pos2, lo, lo, lo)
  <2>1. Ghosts(E, pos2, lo, lo, lo)
    BY <1>1, <1>8 DEF Ghosts
  <2>2. Rooted(u, E, lo, lo, lo)
    BY <1>1, <1>2, <1>8 DEF Rooted
  <2>3. Placed(u, E, pos2, lo, lo, lo, new)
    BY <1>1, <1>4, <1>6, <1>8 DEF Placed, LeftPlaced, RightPlaced, Before, Adjacent, IsLeaf, Sides
  <2> QED
    BY <1>1, <2>1, <2>2, <2>3 DEF Shape
<1>10. Settled(u, E, h)
  <2>1. Level(u, h, new)
    BY <1>4, <1>6, <1>8 DEF Level, Exact, Tall, LeftHeight, RightHeight, Taller, Balanced, IsLeaf, Sides
  <2> QED
    BY <1>1, <1>8, <2>1 DEF Settled
<1>11. Holds(u, E, pos2)
  BY <1>1, <1>2, <1>5, <1>9, <1>10 DEF Holds, Sound
<1>12. Entered(t, u, D, new, key, value)
  BY <1>1, <1>2, <1>4, <1>5, <1>6 DEF Entered, SameData, IsLeaf
<1> QED
  BY <1>11, <1>12

GotIn(t, u, D, pos, new, rank, key, value, freed) ==
    /\ Holds(u, D \cup {new}, With(D, pos, new, rank))
    /\ Entered(t, u, D, new, key, value) /\ freed = {}
WasIn(t, u, D, pos, n, key, value, replace, freed) ==
    /\ Holds(u, D, pos)
    /\ Refilled(t, u, D, n, IF replace THEN key ELSE t.node[n].key, value)
    /\ freed = {t.node[n].value, IF replace THEN t.node[n].key ELSE key}

\* tree_insert_internal, for any tree that holds nodes in order and any search
\* that their order directs: a key that is there is overwritten and its object
\* freed, any other gets the new node in its place; order, threads and balances
\* hold again.
THEOREM InsertKeeps ==
    ASSUME NEW t, NEW D, NEW pos, Holds(t, D, pos), NEW c, NEW rank, Directs(D, pos, c, rank),
           NEW new, new # NULL, new \in D => \E m \in D : pos[m] = rank, NEW key, NEW value, NEW replace,
           NEW x, x = InsertInternal(t, c, new, key, value, replace),
           NEW u, u = x.tree
    PROVE  /\ (\A m \in D : pos[m] # rank) =>
                 GotIn(t, u, D, pos, new, rank, key, value, x.freed)
           /\ \A n \in D : pos[n] = rank =>
                 WasIn(t, u, D, pos, n, key, value, replace, x.freed)
<1>0. PICK lo, hi, up, h : Sound(t, D, pos, lo, hi, up, h)
  BY DEF Holds
<1>1. /\ t.nnodes = Cardinality(D) /\ (t.root = NULL <=> D = {}) /\ NULL \notin D
      /\ IsFiniteSet(D) /\ TreeType(t, D) /\ rank \in Int
      /\ \A m \in D : c[m] \in Int /\ pos[m] \in Int /\ (c[m] = 0 <=> pos[m] = rank)
      /\ \A m, n \in D : pos[m] = pos[n] => m = n
  <2>1. t.nnodes = Cardinality(D) /\ IsFiniteSet(D) /\ TreeType(t, D)
    BY <1>0 DEF Sound
  <2>2. t.root = NULL <=> D = {}
    BY <1>0, FirstSuccessive
  <2>3. NULL \notin D /\ \A m, n \in D : pos[m] = pos[n] => m = n
    BY <1>0, SoundParts DEF Shape, Ghosts
  <2> QED
    BY <2>1, <2>2, <2>3 DEF Directs
<1>2. CASE D = {}
  <2>1. x = [tree |-> [root |-> new, node |-> [y \in {new} |-> NewNode(key, value)],
                       nnodes |-> t.nnodes + 1], freed |-> {}]
    BY <1>1, <1>2 DEF InsertInternal
  <2>2. /\ x.freed = {}
        /\ u = [root |-> new, node |-> [y \in {new} |-> NewNode(key, value)],
                nnodes |-> t.nnodes + 1]
    BY <2>1
  <2>3. t.nnodes = 0
    BY <1>1, <1>2, FS_EmptySet
  <2>4. Holds(u, D \cup {new}, With(D, pos, new, rank)) /\ Entered(t, u, D, new, key, value)
    BY <1>1, <1>2, <2>2, <2>3, FirstEntered
  <2>5. GotIn(t, u, D, pos, new, rank, key, value, x.freed)
    BY <2>2, <2>4 DEF GotIn
  <2> QED
    BY <1>2, <2>5
<1>3. CASE D # {}
  <2>1. PICK w, p : w = Way(t, c, t.root) /\ p = w[Len(w)]
    OBVIOUS
  <2>2. /\ OnceEach(w, D) /\ Chain(t, D, w, Len(w)) /\ Len(w) \in Nat \ {0}
        /\ Found(t, D, pos, lo, hi, c, rank, p)
    BY <1>0, <1>3, <2>1, SearchFinds
  <2>3. p \in D /\ (c[p] # 0 => \A m \in D : c[m] # 0)
    BY <2>2 DEF Found
  <2>4. CASE c[p] = 0
    <3>1. x = Overwrite(t, p, key, value, replace)
      BY <1>1, <1>3, <2>1, <2>4 DEF InsertInternal, Last
    <3>2. PICK kept : kept = IF replace THEN key ELSE t.node[p].key
      OBVIOUS
    <3>3. /\ Refilled(t, u, D, p, kept, value)
          /\ x.freed = {t.node[p].value, IF replace THEN t.node[p].key ELSE key}
      BY <1>1, <2>3, <3>1, <3>2, OverwriteNodes
    <3>4. Holds(u, D, pos)
      BY <2>3, <3>3, RefillKeeps
    <3>5. pos[p] = rank /\ \A n \in D : pos[n] = rank => n = p
      BY <1>1, <2>3, <2>4
    <3>6. WasIn(t, u, D, pos, p, key, value, replace, x.freed)
      BY <3>2, <3>3, <3>4 DEF WasIn
    <3> QED
      BY <2>3, <3>5, <3>6
  <2>5. CASE c[p] # 0
    <3>1. /\ \A m \in D : pos[m] # rank
          /\ new \notin D
      BY <1>1, <2>3, <2>5
    <3>2. PICK g : g = IF c[p] < 0 THEN AddLeft(t, new, key, value, p)
                                   ELSE AddRight(t, new, key, value, p)
      OBVIOUS
    <3>3. x = [tree |-> Restore(g, w, 1), freed |-> {}]
      BY <1>1, <1>3, <2>1, <2>5, <3>2 DEF InsertInternal, Last
    <3>4. u = Restore(g, w, 1) /\ x.freed = {}
      BY <3>3
    <3>5. PICK E, pos2 : E = D \cup {new} /\ pos2 = With(D, pos, new, rank)
      BY Zenon
    <3>6. Holds(u, E, pos2) /\ Entered(t, u, D, new, key, value)
      <4>1. CASE c[p] < 0
        <5>1. g = AddLeft(t, new, key, value, p)
          BY <3>2, <4>1
        <5> QED
          BY Zenon, <1>0, <2>1, <2>2, <3>1, <3>4, <3>5, <4>1, <5>1, AddLeftKeeps
      <4>2. CASE c[p] > 0
        <5>1. g = AddRight(t, new, key, value, p)
          BY <1>1, <2>3, <3>2, <4>2
        <5> QED
          BY Zenon, <1>0, <2>1, <2>2, <3>1, <3>4, <3>5, <4>2, <5>1, AddRightKeeps
      <4> QED
        BY <1>1, <2>3, <2>5, <4>1, <4>2
    <3>7. GotIn(t, u, D, pos, new, rank, key, value, x.freed)
      BY <3>4, <3>5, <3>6 DEF GotIn
    <3> QED
      BY <3>1, <3>7
  <2> QED
    BY <2>4, <2>5
<1> QED
  BY <1>2, <1>3
=============================================================================
