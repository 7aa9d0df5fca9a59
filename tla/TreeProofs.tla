----------------------------- MODULE TreeProofs -----------------------------
(***************************************************************************)
(* tree.cpp and topn.cpp after any sequence of calls, for any ranks,       *)
(* objects, items, weights and capacities: the tree passes the checks of   *)
(* its own code and implements the ordered map, and a container on it      *)
(* keeps what it promises.  First comes what a removal does to the shape   *)
(* of a tree, which continues TreeShapeProofs.                             *)
(***************************************************************************)
EXTENDS Tree, TopN, TreeShapeProofs

-----------------------------------------------------------------------------
(* Removal.                                                                 *)

Kept(S, f) == [m \in S |-> f[m]]

\* The order of the nodes that stay.
LEMMA OrderKept ==
    ASSUME NEW D, NEW pos, \A m \in D : pos[m] \in Int, NULL \notin D,
           NEW S, S \subseteq D, NEW pos2, pos2 = Kept(S, pos)
    PROVE  /\ \A m \in S : pos2[m] = pos[m]
           /\ \A a, b \in S \cup {NULL} :
                 /\ Before(pos, a, b) => Before(pos2, a, b)
                 /\ Adjacent(D, pos, a, b) => Adjacent(S, pos2, a, b)
<1>1. \A m \in S : pos2[m] = pos[m]
  BY DEF Kept
<1> QED
  BY <1>1 DEF Before, Adjacent

\* What refers to n refers to y instead.
Past(S, f, n, y) == [m \in S |-> IF f[m] = n THEN y ELSE f[m]]

\* u is t with the right subtree of n, which has no left child, in the place of
\* n.  The left thread of x, if there is such a node, led to n.
RightLifted(t, u, D, n, p, x) ==
    /\ IF p = NULL
       THEN u.root = IF t.node[n].right_child THEN t.node[n].right ELSE NULL
       ELSE /\ u.root = t.root
            /\ IF LeftOf(t, n, p)
               THEN Sides(u.node[p],
                          IF t.node[n].right_child THEN t.node[n].right ELSE t.node[n].left,
                          t.node[n].right_child, t.node[p].right, t.node[p].right_child)
               ELSE Sides(u.node[p], t.node[p].left, t.node[p].left_child,
                          t.node[n].right, t.node[n].right_child)
    /\ x # NULL => Sides(u.node[x], t.node[n].left, FALSE, t.node[x].right, t.node[x].right_child)
    /\ \A m \in D \ {n, p, x} : SameSides(t, u, m)
OnlyThread(t, D, lo, n, x, p) ==
    /\ \A m \in D \ {x} : t.node[m].left_child \/ lo[m] # n
    /\ x # NULL => x \in D \ {n, p} /\ lo[x] = n /\ ~t.node[x].left_child

LEMMA OneFewer ==
    ASSUME NEW D, NEW pos, \A m \in D : pos[m] \in Int,
           \A m, q \in D : pos[m] = pos[q] => m = q, NEW n \in D,
           NEW S, S = D \ {n}, NEW pos2, \A m \in S : pos2[m] = pos[m],
           NEW a \in S \cup {NULL}, NEW b \in S \cup {NULL}, n # NULL,
           Adjacent(D, pos, a, n), Adjacent(D, pos, n, b)
    PROVE  Adjacent(S, pos2, a, b)
<1> SUFFICES ASSUME NEW m \in S, a # NULL => pos[a] < pos[m], b # NULL => pos[m] < pos[b]
             PROVE  FALSE
  BY DEF Adjacent
<1>1. m \in D /\ pos[m] \in Int /\ pos[n] \in Int /\ n \in D
  OBVIOUS
<1>2. ~(pos[m] < pos[n])
  BY <1>1 DEF Adjacent
<1>3. ~(pos[n] < pos[m])
  BY <1>1 DEF Adjacent
<1>4. pos[m] # pos[n]
  BY <1>1
<1> QED
  BY <1>1, <1>2, <1>3, <1>4

LEMMA PastValues ==
    ASSUME NEW S, NEW f, NEW n, NEW y, NEW g, g = Past(S, f, n, y), NEW m \in S
    PROVE  (f[m] = n => g[m] = y) /\ (f[m] # n => g[m] = f[m])
BY DEF Past

\* What the lemma below has in scope, for a node that stays.
Staying(S, pos, lo, hi, up, pos2, lo2, hi2, up2, n, low, p, m) ==
    /\ pos2[m] = pos[m] /\ hi2[m] = hi[m] /\ hi[m] \in S \cup {NULL}
    /\ lo[m] = n => lo2[m] = low
    /\ lo[m] # n => lo2[m] = lo[m] /\ lo[m] \in S \cup {NULL}
    /\ up[m] = n => up2[m] = p
    /\ up[m] # n => up2[m] = up[m] /\ up[m] \in S \cup {NULL}
    /\ lo2[m] \in S \cup {NULL} /\ up2[m] \in S \cup {NULL}

LEMMA RightLiftShape ==
    ASSUME NEW t, NEW D, NEW pos, NEW lo, NEW hi, NEW up, Shape(t, D, pos, lo, hi, up),
           NEW n \in D, ~t.node[n].left_child, \A m \in D : hi[m] # n,
           NEW p, Below(t, D, n, p), NEW x, OnlyThread(t, D, lo, n, x, p),
           NEW u, RightLifted(t, u, D, n, p, x),
           NEW S, S = D \ {n}, NEW pos2, pos2 = Kept(S, pos),
           NEW lo2, lo2 = Past(S, lo, n, lo[n]), NEW hi2, hi2 = Kept(S, hi),
           NEW up2, up2 = Past(S, up, n, p)
    PROVE  Shape(u, S, pos2, lo2, hi2, up2)
<1>0. /\ NULL \notin D /\ n # NULL /\ \A m \in D : pos[m] \in Int
      /\ \A m, q \in D : pos[m] = pos[q] => m = q
      /\ \A m \in D : lo[m] \in D \cup {NULL} /\ hi[m] \in D \cup {NULL} /\ up[m] \in D \cup {NULL}
      /\ \A m \in D : LeftPlaced(t, D, pos, lo, hi, up, m) /\ RightPlaced(t, D, pos, lo, hi, up, m)
  BY DEF Shape, Ghosts, Placed
<1>1. \A m \in S : m \in D /\ m # n /\ m # NULL
  BY <1>0
<1>2. /\ up[n] = p /\ p # n /\ (p # NULL => p \in S)
      /\ p # NULL /\ LeftOf(t, n, p) => lo[n] = lo[p] /\ hi[n] = p
      /\ p # NULL /\ ~LeftOf(t, n, p) => hi[n] = hi[p] /\ lo[n] = p /\ RightOf(t, n, p)
  BY <1>0, ParentUnique DEF Below
<1>3. /\ t.node[n].left = lo[n] /\ Adjacent(D, pos, lo[n], n) /\ Before(pos, lo[n], n)
      /\ lo[n] \in S \cup {NULL}
  <2>1. LeftPlaced(t, D, pos, lo, hi, up, n)
    BY <1>0
  <2>2. t.node[n].left = lo[n] /\ Adjacent(D, pos, lo[n], n) /\ Before(pos, lo[n], n)
    BY <2>1 DEF LeftPlaced
  <2>3. lo[n] # n
    BY <1>0, <2>2 DEF Before
  <2> QED
    BY <1>0, <2>2, <2>3
<1>4. /\ Before(pos, n, hi[n]) /\ hi[n] \in S \cup {NULL}
      /\ ~t.node[n].right_child => t.node[n].right = hi[n] /\ Adjacent(D, pos, n, hi[n])
      /\ t.node[n].right_child =>
            /\ t.node[n].right \in S /\ up[t.node[n].right] = n
            /\ lo[t.node[n].right] = n /\ hi[t.node[n].right] = hi[n]
  <2>1. RightPlaced(t, D, pos, lo, hi, up, n)
    BY <1>0
  <2>2. t.node[n].right_child => t.node[n].right # n
    BY Children
  <2> QED
    BY <1>0, <2>1, <2>2 DEF RightPlaced
<1>5. \A m \in S : Staying(S, pos, lo, hi, up, pos2, lo2, hi2, up2, n, lo[n], p, m)
  <2> TAKE m \in S
  <2>1. pos2[m] = pos[m] /\ hi2[m] = hi[m]
    BY DEF Kept
  <2>2. (lo[m] = n => lo2[m] = lo[n]) /\ (lo[m] # n => lo2[m] = lo[m])
    BY PastValues
  <2>3. (up[m] = n => up2[m] = p) /\ (up[m] # n => up2[m] = up[m])
    BY PastValues
  <2>4. hi[m] # n /\ lo[m] \in D \cup {NULL} /\ hi[m] \in D \cup {NULL} /\ up[m] \in D \cup {NULL}
    BY <1>0
  <2> QED
    BY <1>2, <1>3, <2>1, <2>2, <2>3, <2>4 DEF Staying
<1>6. \A a, b \in S \cup {NULL} :
         /\ Before(pos, a, b) => Before(pos2, a, b)
         /\ Adjacent(D, pos, a, b) => Adjacent(S, pos2, a, b)
  BY Zenon, <1>0, OrderKept
<1>7. \A a, b \in S \cup {NULL} :
         Adjacent(D, pos, a, n) /\ Adjacent(D, pos, n, b) => Adjacent(S, pos2, a, b)
  <2>1. \A m \in S : pos2[m] = pos[m]
    BY DEF Kept
  <2> QED
    BY Zenon, <1>0, <2>1, OneFewer
<1>8. Ghosts(S, pos2, lo2, hi2, up2)
  <2>1. pos2 \in [S -> Int]
    BY <1>0 DEF Kept
  <2>2. \A m, q \in S : pos2[m] = pos2[q] => m = q
    <3>1. \A m \in S : m \in D /\ pos2[m] = pos[m]
      BY Zenon, <1>1, <1>5 DEF Staying
    <3>2. \A m, q \in D : pos[m] = pos[q] => m = q
      BY <1>0
    <3> QED
      BY <3>1, <3>2
  <2>3. lo2 \in [S -> S \cup {NULL}]
    <3>1. \A m \in S : lo2[m] \in S \cup {NULL}
      BY Zenon, <1>5 DEF Staying
    <3> QED
      BY <3>1 DEF Past
  <2>4. up2 \in [S -> S \cup {NULL}]
    <3>1. \A m \in S : up2[m] \in S \cup {NULL}
      BY Zenon, <1>5 DEF Staying
    <3> QED
      BY <3>1 DEF Past
  <2>5. hi2 \in [S -> S \cup {NULL}]
    <3>1. \A m \in S : hi[m] \in S \cup {NULL}
      BY <1>5 DEF Staying
    <3> QED
      BY <3>1 DEF Kept
  <2> QED
    BY Zenon, <1>0, <2>1, <2>2, <2>3, <2>4, <2>5 DEF Ghosts

<1>9. Rooted(u, S, lo2, hi2, up2)
  <2>1. CASE p = NULL
    <3>1. t.root = n /\ up[n] = NULL /\ lo[n] = NULL /\ hi[n] = NULL
      BY <2>1 DEF Below, Shape, Rooted
    <3>2. CASE t.node[n].right_child
      <4>1. PICK r \in S : r = t.node[n].right
        BY <1>4, <3>2
      <4>2. up[r] = n /\ lo[r] = n /\ hi[r] = NULL
        BY <1>4, <3>1, <3>2, <4>1
      <4>3. lo2[r] = NULL /\ hi2[r] = NULL /\ up2[r] = NULL
        BY Zenon, <1>5, <2>1, <3>1, <4>2 DEF Staying
      <4>4. u.root = r
        BY <2>1, <3>2, <4>1 DEF RightLifted
      <4> QED
        BY <4>3, <4>4 DEF Rooted
    <3>3. CASE ~t.node[n].right_child
      <4>1. Adjacent(D, pos, NULL, n) /\ Adjacent(D, pos, n, NULL)
        BY <1>3, <1>4, <3>1, <3>3
      <4>2. S = {}
        <5> SUFFICES ASSUME NEW m \in S PROVE FALSE
          OBVIOUS
        <5>1. m \in D /\ ~(pos[m] < pos[n]) /\ ~(pos[n] < pos[m])
          BY <1>0, <1>1, <4>1 DEF Adjacent
        <5>2. pos[m] \in Int /\ pos[n] \in Int /\ pos[m] # pos[n]
          BY <1>0, <1>1
        <5> QED
          BY <5>1, <5>2
      <4> QED
        BY <2>1, <3>3, <4>2 DEF RightLifted, Rooted
    <3> QED
      BY <3>2, <3>3
  <2>2. CASE p # NULL
    <3>1. u.root = t.root
      BY <2>2 DEF RightLifted
    <3>2. t.root \in D /\ lo[t.root] = NULL /\ hi[t.root] = NULL /\ up[t.root] = NULL
      BY DEF Shape, Rooted
    <3>3. t.root \in S
      BY <1>2, <2>2, <3>2
    <3>4. lo2[t.root] = NULL /\ hi2[t.root] = NULL /\ up2[t.root] = NULL
      <4>1. Staying(S, pos, lo, hi, up, pos2, lo2, hi2, up2, n, lo[n], p, t.root)
        BY <1>5, <3>3
      <4> QED
        BY <1>0, <3>2, <4>1 DEF Staying
    <3> QED
      BY <3>1, <3>3, <3>4 DEF Rooted
  <2> QED
    BY <2>1, <2>2
<1>10. ASSUME NEW m \in S, p # NULL, m = p, LeftOf(t, n, p)
       PROVE  LeftPlaced(u, S, pos2, lo2, hi2, up2, m)
  <2>0. Staying(S, pos, lo, hi, up, pos2, lo2, hi2, up2, n, lo[n], p, m)
    BY <1>5
  <2>1. lo2[m] = lo[m] /\ lo[m] \in S \cup {NULL} /\ lo[m] = lo[n] /\ hi[n] = m
    <3>1. lo[m] = lo[n] /\ lo[n] # n
      BY <1>0, <1>2, <1>3, <1>10
    <3> QED
      BY <1>2, <1>10, <2>0, <3>1 DEF Staying
  <2>2. u.node[m].left_child <=> t.node[n].right_child
    BY <1>10 DEF RightLifted, Sides
  <2>3. Before(pos2, lo2[m], m)
    <3>1. Before(pos, lo[m], m)
      BY <1>0, <1>1 DEF LeftPlaced
    <3> QED
      BY Zenon, <1>6, <2>1, <3>1
  <2>4. CASE t.node[n].right_child
    <3>1. PICK r \in S : r = t.node[n].right
      BY <1>4, <2>4
    <3>2. u.node[m].left = r
      BY <1>10, <2>4, <3>1 DEF RightLifted, Sides
    <3>3. up[r] = n /\ lo[r] = n /\ hi[r] = m
      BY <1>4, <2>1, <2>4, <3>1
    <3>4. up2[r] = m /\ lo2[r] = lo2[m] /\ hi2[r] = m
      BY Zenon, <1>5, <1>10, <2>1, <3>3 DEF Staying
    <3> QED
      BY <2>2, <2>3, <2>4, <3>2, <3>4 DEF LeftPlaced
  <2>5. CASE ~t.node[n].right_child
    <3>1. u.node[m].left = lo2[m]
      BY <1>3, <1>10, <2>1, <2>5 DEF RightLifted, Sides
    <3>2. Adjacent(S, pos2, lo[m], m)
      BY <1>3, <1>4, <1>7, <2>1, <2>5
    <3> QED
      BY <2>1, <2>2, <2>3, <2>5, <3>1, <3>2 DEF LeftPlaced
  <2> QED
    BY <2>4, <2>5
<1>11. ASSUME NEW m \in S, m = x
       PROVE  LeftPlaced(u, S, pos2, lo2, hi2, up2, m)
  <2>0. Staying(S, pos, lo, hi, up, pos2, lo2, hi2, up2, n, lo[n], p, m)
    BY <1>5
  <2>1. x # NULL /\ lo[m] = n /\ ~t.node[m].left_child
    BY <1>1, <1>11 DEF OnlyThread
  <2>2. u.node[m].left = lo[n] /\ ~u.node[m].left_child
    BY <1>3, <1>11, <2>1 DEF RightLifted, Sides
  <2>3. LeftPlaced(t, D, pos, lo, hi, up, m) /\ m \in D
    BY <1>0, <1>1
  <2>4. Before(pos, n, m) /\ Adjacent(D, pos, n, m)
    BY <2>1, <2>3 DEF LeftPlaced
  <2>5. Adjacent(S, pos2, lo[n], m)
    BY <1>3, <1>7, <2>4
  <2>6. Before(pos, lo[n], m)
    <3> SUFFICES ASSUME lo[n] # NULL PROVE pos[lo[n]] < pos[m]
      BY DEF Before
    <3>1. pos[lo[n]] < pos[n] /\ pos[n] < pos[m]
      BY <1>0, <1>1, <1>3, <2>4 DEF Before
    <3>2. pos[lo[n]] \in Int /\ pos[n] \in Int /\ pos[m] \in Int
      BY <1>0, <1>1, <1>3
    <3> QED
      BY <3>1, <3>2
  <2>7. lo2[m] = lo[n]
    BY <2>0, <2>1 DEF Staying
  <2>8. Before(pos2, lo[n], m)
    BY <1>3, <1>6, <2>6
  <2> QED
    BY <2>2, <2>5, <2>7, <2>8 DEF LeftPlaced
<1>12. ASSUME NEW m \in S, m # x, ~(p # NULL /\ m = p /\ LeftOf(t, n, p))
       PROVE  LeftPlaced(u, S, pos2, lo2, hi2, up2, m)
  <2>0. Staying(S, pos, lo, hi, up, pos2, lo2, hi2, up2, n, lo[n], p, m)
    BY <1>5
  <2>1. u.node[m].left = t.node[m].left /\ (u.node[m].left_child <=> t.node[m].left_child)
    <3>1. CASE m = p
      BY <1>1, <1>12, <3>1 DEF RightLifted, Sides
    <3>2. CASE m # p
      BY <1>1, <1>12, <3>2 DEF RightLifted, SameSides, Sides
    <3> QED
      BY <3>1, <3>2
  <2>2. LeftPlaced(t, D, pos, lo, hi, up, m) /\ m \in D
    BY <1>0, <1>1
  <2>3. Before(pos2, lo2[m], m)
    <3>1. Before(pos, lo[m], m)
      BY <2>2 DEF LeftPlaced
    <3>2. CASE lo[m] # n
      BY Zenon, <1>6, <2>0, <3>1, <3>2 DEF Staying
    <3>3. CASE lo[m] = n
      <4>1. Before(pos, lo[n], m)
        <5> SUFFICES ASSUME lo[n] # NULL PROVE pos[lo[n]] < pos[m]
          BY DEF Before
        <5>1. pos[lo[n]] < pos[n] /\ pos[n] < pos[m]
          BY <1>0, <1>1, <1>3, <3>1, <3>3 DEF Before
        <5>2. pos[lo[n]] \in Int /\ pos[n] \in Int /\ pos[m] \in Int
          BY <1>0, <1>1, <1>3
        <5> QED
          BY <5>1, <5>2
      <4>2. lo2[m] = lo[n]
        BY <2>0, <3>3 DEF Staying
      <4> QED
        BY <1>3, <1>6, <4>1, <4>2
    <3> QED
      BY <3>2, <3>3
  <2>4. CASE t.node[m].left_child
    <3>1. PICK l \in D : l = t.node[m].left
      BY <2>2, <2>4 DEF LeftPlaced
    <3>2. up[l] = m /\ lo[l] = lo[m] /\ hi[l] = m
      BY <2>2, <2>4, <3>1 DEF LeftPlaced
    <3>3. l # n
      <4> SUFFICES ASSUME l = n PROVE FALSE
        OBVIOUS
      <4>1. m = p /\ LeftOf(t, n, p)
        BY <1>2, <2>4, <3>1, <3>2 DEF LeftOf
      <4> QED
        BY <1>1, <1>12, <4>1
    <3>4. l \in S
      BY <3>3
    <3>5. Staying(S, pos, lo, hi, up, pos2, lo2, hi2, up2, n, lo[n], p, l)
      BY <1>5, <3>4
    <3>6. up2[l] = m /\ hi2[l] = m
      BY <1>1, <3>2, <3>5 DEF Staying
    <3>7. lo2[l] = lo2[m]
      BY <2>0, <3>2, <3>5 DEF Staying
    <3> QED
      BY <2>1, <2>3, <2>4, <3>1, <3>4, <3>6, <3>7 DEF LeftPlaced
  <2>5. CASE ~t.node[m].left_child
    <3>1. lo[m] # n
      BY <1>12, <2>2, <2>5 DEF OnlyThread
    <3>2. lo2[m] = lo[m] /\ lo[m] \in S \cup {NULL}
      BY <2>0, <3>1 DEF Staying
    <3>3. t.node[m].left = lo[m] /\ Adjacent(D, pos, lo[m], m)
      BY <2>2, <2>5 DEF LeftPlaced
    <3>4. Adjacent(S, pos2, lo[m], m)
      BY <1>6, <3>2, <3>3
    <3> QED
      BY <2>1, <2>3, <2>5, <3>2, <3>3, <3>4 DEF LeftPlaced
  <2> QED
    BY <2>4, <2>5
<1>13. ASSUME NEW m \in S, p # NULL, m = p, ~LeftOf(t, n, p)
       PROVE  RightPlaced(u, S, pos2, lo2, hi2, up2, m)
  <2>0. Staying(S, pos, lo, hi, up, pos2, lo2, hi2, up2, n, lo[n], p, m)
    BY <1>5
  <2>1. hi2[m] = hi[m] /\ hi[m] = hi[n] /\ lo[n] = m
    BY <1>2, <1>13, <2>0 DEF Staying
  <2>2. u.node[m].right = t.node[n].right /\ (u.node[m].right_child <=> t.node[n].right_child)
    BY <1>13 DEF RightLifted, Sides
  <2>3. Before(pos2, m, hi2[m])
    <3>1. Before(pos, m, hi[m])
      BY <1>0, <1>1 DEF RightPlaced
    <3> QED
      BY Zenon, <1>4, <1>6, <2>1, <3>1
  <2>4. CASE t.node[n].right_child
    <3>1. PICK r \in S : r = t.node[n].right
      BY <1>4, <2>4
    <3>2. up[r] = n /\ lo[r] = n /\ hi[r] = hi[n]
      BY <1>4, <2>4, <3>1
    <3>3. up2[r] = m /\ lo2[r] = m /\ hi2[r] = hi2[m]
      BY Zenon, <1>5, <1>13, <2>1, <3>2 DEF Staying
    <3> QED
      BY <2>2, <2>3, <2>4, <3>1, <3>3 DEF RightPlaced
  <2>5. CASE ~t.node[n].right_child
    <3>1. t.node[n].right = hi2[m]
      BY <1>4, <2>1, <2>5
    <3>2. Adjacent(S, pos2, m, hi[n])
      BY <1>3, <1>4, <1>7, <2>1, <2>5
    <3> QED
      BY <2>1, <2>2, <2>3, <2>5, <3>1, <3>2 DEF RightPlaced
  <2> QED
    BY <2>4, <2>5
<1>14. ASSUME NEW m \in S, ~(p # NULL /\ m = p /\ ~LeftOf(t, n, p))
       PROVE  RightPlaced(u, S, pos2, lo2, hi2, up2, m)
  <2>0. Staying(S, pos, lo, hi, up, pos2, lo2, hi2, up2, n, lo[n], p, m)
    BY <1>5
  <2>1. u.node[m].right = t.node[m].right /\ (u.node[m].right_child <=> t.node[m].right_child)
    <3>1. CASE m = p
      BY <1>1, <1>14, <3>1 DEF RightLifted, Sides
    <3>2. CASE m = x
      BY <1>1, <3>2 DEF RightLifted, Sides
    <3>3. CASE m # p /\ m # x
      BY <1>1, <3>3 DEF RightLifted, SameSides, Sides
    <3> QED
      BY <3>1, <3>2, <3>3
  <2>2. RightPlaced(t, D, pos, lo, hi, up, m) /\ m \in D
    BY <1>0, <1>1
  <2>3. hi2[m] = hi[m] /\ hi[m] \in S \cup {NULL}
    BY <2>0 DEF Staying
  <2>4. Before(pos2, m, hi2[m])
    <3>1. Before(pos, m, hi[m])
      BY <2>2 DEF RightPlaced
    <3> QED
      BY <1>6, <2>3, <3>1
  <2>5. CASE t.node[m].right_child
    <3>1. PICK r \in D : r = t.node[m].right
      BY <2>2, <2>5 DEF RightPlaced
    <3>2. up[r] = m /\ lo[r] = m /\ hi[r] = hi[m]
      BY <2>2, <2>5, <3>1 DEF RightPlaced
    <3>3. r # n
      <4> SUFFICES ASSUME r = n PROVE FALSE
        OBVIOUS
      <4>1. m = p /\ RightOf(t, n, p)
        BY <1>2, <2>5, <3>1, <3>2 DEF RightOf
      <4>2. ~LeftOf(t, n, p)
        BY <1>1, <4>1, ParentUnique
      <4> QED
        BY <1>1, <1>14, <4>1, <4>2
    <3>4. r \in S
      BY <3>3
    <3>5. Staying(S, pos, lo, hi, up, pos2, lo2, hi2, up2, n, lo[n], p, r)
      BY <1>5, <3>4
    <3>6. up2[r] = m /\ lo2[r] = m /\ hi2[r] = hi2[m]
      BY <1>1, <2>3, <3>2, <3>5 DEF Staying
    <3> QED
      BY <2>1, <2>4, <2>5, <3>1, <3>4, <3>6 DEF RightPlaced
  <2>6. CASE ~t.node[m].right_child
    <3>1. t.node[m].right = hi[m] /\ Adjacent(D, pos, m, hi[m])
      BY <2>2, <2>6 DEF RightPlaced
    <3>2. Adjacent(S, pos2, m, hi[m])
      BY <1>6, <2>3, <3>1
    <3> QED
      BY <2>1, <2>3, <2>4, <2>6, <3>1, <3>2 DEF RightPlaced
  <2> QED
    BY <2>5, <2>6
<1> QED
  BY <1>8, <1>9, <1>10, <1>11, <1>12, <1>13, <1>14 DEF Shape, Placed

\* The mirror image: the left subtree of n, which has no right child.
LeftLifted(t, u, D, n, p, x) ==
    /\ IF p = NULL
       THEN u.root = IF t.node[n].left_child THEN t.node[n].left ELSE NULL
       ELSE /\ u.root = t.root
            /\ IF LeftOf(t, n, p)
               THEN Sides(u.node[p], t.node[n].left, t.node[n].left_child,
                          t.node[p].right, t.node[p].right_child)
               ELSE Sides(u.node[p], t.node[p].left, t.node[p].left_child,
                          IF t.node[n].left_child THEN t.node[n].left ELSE t.node[n].right,
                          t.node[n].left_child)
    /\ x # NULL => Sides(u.node[x], t.node[x].left, t.node[x].left_child, t.node[n].right, FALSE)
    /\ \A m \in D \ {n, p, x} : SameSides(t, u, m)
OnlyThreadBack(t, D, hi, n, x, p) ==
    /\ \A m \in D \ {x} : t.node[m].right_child \/ hi[m] # n
    /\ x # NULL => x \in D \ {n, p} /\ hi[x] = n /\ ~t.node[x].right_child

LEMMA MirrorLift ==
    ASSUME NEW t, NEW D, NEW pos, NEW lo, NEW hi, NEW up, Shape(t, D, pos, lo, hi, up),
           NEW n \in D, ~t.node[n].right_child,
           NEW p, Below(t, D, n, p), NEW x, OnlyThreadBack(t, D, hi, n, x, p),
           NEW u, LeftLifted(t, u, D, n, p, x),
           NEW v, v = Mirror(t, D), NEW w, w = Mirror(u, D)
    PROVE  /\ ~v.node[n].left_child /\ Below(v, D, n, p) /\ OnlyThread(v, D, hi, n, x, p)
           /\ RightLifted(v, w, D, n, p, x)
<1>0. NULL \notin D /\ (p # NULL => p \in D) /\ (x # NULL => x \in D) /\ n # NULL
  BY ParentUnique DEF Shape, Ghosts, Below, OnlyThreadBack
<1>1. /\ \A m \in D : Sides(v.node[m], t.node[m].right, t.node[m].right_child,
                                       t.node[m].left, t.node[m].left_child)
      /\ \A m \in D : Sides(w.node[m], u.node[m].right, u.node[m].right_child,
                                       u.node[m].left, u.node[m].left_child)
      /\ v.root = t.root /\ w.root = u.root
  BY Zenon, MirrorNode
<1>2. Below(v, D, n, p)
  BY MirrorBelow
<1>3. p # NULL => (LeftOf(v, n, p) <=> ~LeftOf(t, n, p))
  <2> SUFFICES ASSUME p # NULL PROVE LeftOf(v, n, p) <=> ~LeftOf(t, n, p)
    OBVIOUS
  <2>1. LeftOf(v, n, p) <=> RightOf(t, n, p)
    BY <1>0, MirrorBelow
  <2>2. RightOf(t, n, p) <=> ~LeftOf(t, n, p)
    BY ParentUnique
  <2> QED
    BY <2>1, <2>2
<1>4. ~v.node[n].left_child
  BY <1>1 DEF Sides
<1>5. OnlyThread(v, D, hi, n, x, p)
  BY <1>1 DEF OnlyThread, OnlyThreadBack, Sides
<1>6. \A m \in D \ {n, p, x} : SameSides(v, w, m)
  BY <1>1 DEF LeftLifted, SameSides, Sides
<1>7. x # NULL => Sides(w.node[x], v.node[n].left, FALSE, v.node[x].right, v.node[x].right_child)
  BY <1>0, <1>1 DEF LeftLifted, Sides
<1>8. p = NULL => w.root = IF v.node[n].right_child THEN v.node[n].right ELSE NULL
  BY <1>1 DEF LeftLifted, Sides
<1>9. p # NULL =>
        /\ w.root = v.root
        /\ LeftOf(v, n, p) =>
             Sides(w.node[p], IF v.node[n].right_child THEN v.node[n].right ELSE v.node[n].left,
                   v.node[n].right_child, v.node[p].right, v.node[p].right_child)
        /\ ~LeftOf(v, n, p) =>
             Sides(w.node[p], v.node[p].left, v.node[p].left_child,
                   v.node[n].right, v.node[n].right_child)
  <2> SUFFICES ASSUME p # NULL
               PROVE  /\ w.root = v.root
                      /\ LeftOf(v, n, p) =>
                           Sides(w.node[p],
                                 IF v.node[n].right_child THEN v.node[n].right ELSE v.node[n].left,
                                 v.node[n].right_child, v.node[p].right, v.node[p].right_child)
                      /\ ~LeftOf(v, n, p) =>
                           Sides(w.node[p], v.node[p].left, v.node[p].left_child,
                                 v.node[n].right, v.node[n].right_child)
    OBVIOUS
  <2>1. /\ Sides(v.node[n], t.node[n].right, t.node[n].right_child, t.node[n].left, t.node[n].left_child)
        /\ Sides(v.node[p], t.node[p].right, t.node[p].right_child, t.node[p].left, t.node[p].left_child)
        /\ Sides(w.node[p], u.node[p].right, u.node[p].right_child, u.node[p].left, u.node[p].left_child)
    BY <1>0, <1>1
  <2>2. w.root = v.root
    BY <1>1 DEF LeftLifted
  <2>3. CASE LeftOf(t, n, p)
    <3>1. Sides(u.node[p], t.node[n].left, t.node[n].left_child,
                t.node[p].right, t.node[p].right_child)
      BY <2>3 DEF LeftLifted
    <3> QED
      BY <1>3, <2>1, <2>2, <2>3, <3>1 DEF Sides
  <2>4. CASE ~LeftOf(t, n, p)
    <3>1. Sides(u.node[p], t.node[p].left, t.node[p].left_child,
                IF t.node[n].left_child THEN t.node[n].left ELSE t.node[n].right,
                t.node[n].left_child)
      BY <2>4 DEF LeftLifted
    <3> QED
      BY <1>3, <2>1, <2>2, <2>4, <3>1 DEF Sides
  <2> QED
    BY <2>3, <2>4
<1>10. RightLifted(v, w, D, n, p, x)
  BY Zenon, <1>6, <1>7, <1>8, <1>9 DEF RightLifted
<1> QED
  BY <1>2, <1>4, <1>5, <1>10

LEMMA LeftLiftShape ==
    ASSUME NEW t, NEW D, NEW pos, NEW lo, NEW hi, NEW up, Shape(t, D, pos, lo, hi, up),
           NEW n \in D, ~t.node[n].right_child, \A m \in D : lo[m] # n,
           NEW p, Below(t, D, n, p), NEW x, OnlyThreadBack(t, D, hi, n, x, p),
           NEW u, LeftLifted(t, u, D, n, p, x),
           NEW S, S = D \ {n}, NEW pos2, pos2 = Kept(S, pos)
    PROVE  \E lo2, hi2, up2 : Shape(u, S, pos2, lo2, hi2, up2)
<1>1. PICK v, w, neg : v = Mirror(t, D) /\ w = Mirror(u, D) /\ neg = Negated(D, pos)
  OBVIOUS
<1>2. Shape(v, D, neg, hi, lo, up)
  BY <1>1, MirrorShape DEF Shape
<1>3. /\ ~v.node[n].left_child /\ Below(v, D, n, p) /\ OnlyThread(v, D, hi, n, x, p)
      /\ RightLifted(v, w, D, n, p, x)
  BY <1>1, MirrorLift
<1>4. PICK neg2, hi2, lo2, up2 :
         /\ neg2 = Kept(S, neg) /\ hi2 = Past(S, hi, n, hi[n]) /\ lo2 = Kept(S, lo)
         /\ up2 = Past(S, up, n, p)
  OBVIOUS
<1>5. Shape(w, S, neg2, hi2, lo2, up2)
  BY <1>2, <1>3, <1>4, RightLiftShape
<1>6. PICK y : y = Mirror(u, S)
  OBVIOUS
<1>7. Shape(y, S, neg2, hi2, lo2, up2)
  <2>1. y.root = w.root
    BY <1>1, <1>6, MirrorNode DEF Mirror
  <2>2. \A m \in S : SameSides(w, y, m)
    <3> TAKE m \in S
    <3>1. /\ Sides(w.node[m], u.node[m].right, u.node[m].right_child, u.node[m].left, u.node[m].left_child)
          /\ Sides(y.node[m], u.node[m].right, u.node[m].right_child, u.node[m].left, u.node[m].left_child)
      BY <1>1, <1>6, MirrorNode
    <3> QED
      BY <3>1 DEF SameSides, Sides
  <2> QED
    BY <1>5, <2>1, <2>2, ShapeSame
<1>8. Ghosts(S, pos2, lo2, hi2, up2)
  <2>1. Ghosts(S, neg2, hi2, lo2, up2)
    BY <1>5 DEF Shape
  <2>2. pos \in [D -> Int] /\ \A m, q \in D : pos[m] = pos[q] => m = q
    BY DEF Shape, Ghosts
  <2>3. pos2 \in [S -> Int] /\ \A m, q \in S : pos2[m] = pos2[q] => m = q
    BY <2>2 DEF Kept
  <2> QED
    BY Zenon, <2>1, <2>3 DEF Ghosts
<1>9. neg2 = Negated(S, pos2)
  BY <1>1, <1>4 DEF Kept, Negated
<1> QED
  BY <1>6, <1>7, <1>8, <1>9, MirrorShape

\* The subtree below p where n was is one lower in u, and p's balance says so.
Thinned(t, u, S, h, k, n, p) ==
    /\ \A m \in S \ {p} : SameHeights(t, u, h, k, m) /\ u.node[m].balance = t.node[m].balance
    /\ p # NULL =>
         IF LeftOf(t, n, p)
         THEN /\ LeftHeight(u, k, p) = h[n] - 1 /\ RightHeight(u, k, p) = RightHeight(t, h, p)
              /\ u.node[p].balance = t.node[p].balance + 1
         ELSE /\ RightHeight(u, k, p) = h[n] - 1 /\ LeftHeight(u, k, p) = LeftHeight(t, h, p)
              /\ u.node[p].balance = t.node[p].balance - 1

LEMMA ThinnedHeights ==
    ASSUME NEW t, NEW D, NEW pos, NEW lo, NEW hi, NEW up, Shape(t, D, pos, lo, hi, up),
           NEW h, Settled(t, D, h), NEW n \in D, NEW p, Below(t, D, n, p), h[n] # 0,
           NEW S, S = D \ {n}, NEW k, k = Kept(S, h), NEW u, Thinned(t, u, S, h, k, n, p)
    PROVE  /\ p = NULL => Settled(u, S, k)
           /\ p # NULL => Unsettled(u, S, k, p, 1)
<1>1. h \in [D -> Nat] /\ (\A m \in D : Level(t, h, m)) /\ NULL \notin D
  BY DEF Settled, Shape, Ghosts
<1>2. k \in [S -> Nat] /\ \A m \in S : k[m] = h[m] /\ m \in D
  BY <1>1 DEF Kept
<1>3. ASSUME NEW m \in S \ {p} PROVE Level(u, k, m)
  <2>1. SameHeights(t, u, h, k, m) /\ u.node[m].balance = t.node[m].balance
    BY Zenon, <1>3 DEF Thinned
  <2>2. Level(t, h, m) /\ k[m] = h[m]
    BY <1>1, <1>2
  <2> QED
    BY <2>1, <2>2 DEF Level, Exact, Tall, SameHeights
<1>4. ASSUME p = NULL PROVE Settled(u, S, k)
  BY <1>1, <1>2, <1>3, <1>4 DEF Settled
<1>5. ASSUME p # NULL PROVE Unsettled(u, S, k, p, 1)
  <2>1. p \in S /\ p \in D /\ p # n
    BY <1>5, ParentUnique DEF Below
  <2>2. PICK a, b, c : a = LeftHeight(t, h, p) /\ b = RightHeight(t, h, p) /\ c = h[n] - 1
    OBVIOUS
  <2>3. a \in Nat /\ b \in Nat /\ c \in Nat /\ h[n] = c + 1
    <3>1. a \in Nat /\ b \in Nat
      BY <1>1, <2>1, <2>2, HeightsNatural
    <3>2. h[n] \in Nat
      BY <1>1
    <3> QED
      BY <2>2, <3>1, <3>2
  <2>4. t.node[p].balance = b - a /\ h[p] = 1 + Taller(a, b) /\ b - a \in -1 .. 1 /\ k[p] = h[p]
    BY Zenon, <1>1, <1>2, <2>1, <2>2, <2>3 DEF Level, Exact, Tall, Balanced
  <2>5. /\ Exact(u, k, p) /\ u.node[p].balance \in -2 .. 2
        /\ k[p] = 1 + Taller(LeftHeight(u, k, p), RightHeight(u, k, p))
                    + 1 - (IF u.node[p].balance = 0 THEN 0 ELSE 1)
    <3>1. CASE LeftOf(t, n, p)
      <4>1. a = h[n]
        BY <2>2, <3>1 DEF LeftOf, LeftHeight
      <4>2. LeftHeight(u, k, p) = c /\ RightHeight(u, k, p) = b
        BY <1>5, <2>2, <3>1 DEF Thinned
      <4>3. u.node[p].balance = b - a + 1
        BY <1>5, <2>4, <3>1 DEF Thinned
      <4>4. u.node[p].balance = b - c
        BY <2>3, <4>1, <4>3
      <4>5. Reweighed(a, b, c, 1)
        <5>1. c = a + Step(1)
          BY <2>3, <4>1 DEF Step
        <5> QED
          BY <2>3, <2>4, <5>1, HeightsShift
      <4>6. /\ b - c \in -2 .. 2
            /\ 1 + Taller(a, b) = 1 + Taller(c, b) + 1 - (IF b - c = 0 THEN 0 ELSE 1)
        BY <4>5 DEF Reweighed
      <4> QED
        BY <2>4, <4>2, <4>4, <4>6 DEF Exact
    <3>2. CASE ~LeftOf(t, n, p)
      <4>1. b = h[n]
        BY <1>5, <2>2, <3>2 DEF Below, RightOf, RightHeight
      <4>2. LeftHeight(u, k, p) = a /\ RightHeight(u, k, p) = c
        BY <1>5, <2>2, <3>2 DEF Thinned
      <4>3. u.node[p].balance = b - a - 1
        BY <1>5, <2>4, <3>2 DEF Thinned
      <4>4. u.node[p].balance = c - a /\ a - b \in -1 .. 1
        BY <2>3, <2>4, <4>1, <4>3
      <4>5. Reweighed(b, a, c, 1)
        <5>1. c = b + Step(1)
          BY <2>3, <4>1 DEF Step
        <5> QED
          BY <2>3, <4>4, <5>1, HeightsShift
      <4>6. /\ a - c \in -2 .. 2
            /\ 1 + Taller(b, a) = 1 + Taller(c, a) + 1 - (IF a - c = 0 THEN 0 ELSE 1)
        BY <4>5 DEF Reweighed
      <4>7. Taller(b, a) = Taller(a, b) /\ Taller(c, a) = Taller(a, c)
        BY <2>3, TallerSymmetric
      <4>8. c - a \in -2 .. 2 /\ (a - c = 0 <=> c - a = 0)
        BY <2>3, <4>6
      <4> QED
        BY <2>4, <4>2, <4>4, <4>6, <4>7, <4>8 DEF Exact
    <3> QED
      BY <3>1, <3>2
  <2> QED
    BY Zenon, <1>2, <1>3, <2>1, <2>5 DEF Unsettled
<1> QED
  BY <1>4, <1>5

\* What the lifts do to balances: p's side got lighter.
Lightened(t, u, D, n, p) ==
    /\ \A m \in D \ {n, p} : u.node[m].balance = t.node[m].balance
    /\ p # NULL =>
         u.node[p].balance = t.node[p].balance + (IF LeftOf(t, n, p) THEN 1 ELSE -1)

LEMMA RightLiftHeights ==
    ASSUME NEW t, NEW D, NEW pos, NEW lo, NEW hi, NEW up, Shape(t, D, pos, lo, hi, up),
           NEW h, Settled(t, D, h), NEW n \in D, ~t.node[n].left_child,
           NEW p, Below(t, D, n, p), NEW x, OnlyThread(t, D, lo, n, x, p),
           NEW u, RightLifted(t, u, D, n, p, x), Lightened(t, u, D, n, p),
           NEW S, S = D \ {n}, NEW k, k = Kept(S, h)
    PROVE  /\ p = NULL => Settled(u, S, k)
           /\ p # NULL => Unsettled(u, S, k, p, 1)
<1>1. h \in [D -> Nat] /\ NULL \notin D /\ n # NULL /\ (p # NULL => p \in D /\ p # n)
  BY ParentUnique DEF Settled, Shape, Ghosts, Below
<1>2. \A m \in S : k[m] = h[m]
  BY DEF Kept
<1>3. PICK r : r = IF t.node[n].right_child THEN h[t.node[n].right] ELSE 0
  OBVIOUS
<1>4. h[n] = 1 + r /\ r \in Nat
  <2>1. Tall(t, h, n)
    BY DEF Settled, Level
  <2>2. RightHeight(t, h, n) = r /\ LeftHeight(t, h, n) = 0 /\ RightHeight(t, h, n) \in Nat
    BY <1>1, <1>3, HeightsNatural DEF RightHeight, LeftHeight
  <2> QED
    BY <2>1, <2>2 DEF Tall, Taller
<1>5. ASSUME NEW m \in S PROVE
        /\ t.node[m].left_child => t.node[m].left \in D
        /\ t.node[m].right_child => t.node[m].right \in D
        /\ t.node[m].left_child /\ t.node[m].left = n => m = p /\ LeftOf(t, n, p)
        /\ t.node[m].right_child /\ t.node[m].right = n => m = p /\ ~LeftOf(t, n, p)
  <2>0. m \in D /\ m # NULL
    BY <1>1
  <2>1. (t.node[m].left_child => t.node[m].left \in D) /\ (t.node[m].right_child => t.node[m].right \in D)
    BY <2>0, Children
  <2>2. ASSUME t.node[m].left_child /\ t.node[m].left = n PROVE m = p /\ LeftOf(t, n, p)
    <3>1. LeftOf(t, n, m) /\ Below(t, D, n, m)
      BY <2>0, <2>2 DEF LeftOf, Below
    <3> QED
      BY <3>1, ParentUnique
  <2>3. ASSUME t.node[m].right_child /\ t.node[m].right = n PROVE m = p /\ ~LeftOf(t, n, p)
    <3>1. RightOf(t, n, m) /\ Below(t, D, n, m)
      BY <2>0, <2>3 DEF RightOf, Below
    <3> QED
      BY <2>0, <3>1, ParentUnique
  <2> QED
    BY <2>1, <2>2, <2>3
<1>6. ASSUME NEW m \in S \ {p} PROVE SameHeights(t, u, h, k, m) /\ u.node[m].balance = t.node[m].balance
  <2>1. /\ u.node[m].left_child = t.node[m].left_child
        /\ t.node[m].left_child => u.node[m].left = t.node[m].left
        /\ u.node[m].right_child = t.node[m].right_child /\ u.node[m].right = t.node[m].right
    <3>0. m # NULL /\ m \in D
      BY <1>1
    <3>1. CASE m = x
      <4>1. ~t.node[m].left_child /\ Sides(u.node[m], t.node[n].left, FALSE, t.node[m].right, t.node[m].right_child)
        BY Zenon, <3>0, <3>1 DEF RightLifted, OnlyThread
      <4>2. t.node[m].left_child = FALSE
        <5>1. OnlyThread(t, D, lo, n, x, p)
          OBVIOUS
        <5> QED
          BY <4>1
      <4> QED
        BY Zenon, <4>1, <4>2 DEF Sides
    <3>2. CASE m # x
      BY <3>2 DEF RightLifted, SameSides, Sides
    <3> QED
      BY <3>1, <3>2
  <2>2. LeftHeight(u, k, m) = LeftHeight(t, h, m)
    BY Zenon, <1>2, <1>5, <2>1 DEF LeftHeight
  <2>3. RightHeight(u, k, m) = RightHeight(t, h, m)
    BY Zenon, <1>2, <1>5, <2>1 DEF RightHeight
  <2> QED
    BY <2>2, <2>3 DEF SameHeights, Lightened
<1>7. ASSUME p # NULL, LeftOf(t, n, p)
      PROVE  LeftHeight(u, k, p) = r /\ RightHeight(u, k, p) = RightHeight(t, h, p)
  <2>1. Sides(u.node[p], IF t.node[n].right_child THEN t.node[n].right ELSE t.node[n].left,
              t.node[n].right_child, t.node[p].right, t.node[p].right_child)
    BY <1>7 DEF RightLifted
  <2>2. t.node[n].right_child => t.node[n].right \in S
    BY Children
  <2>3. LeftHeight(u, k, p) = r
    BY <1>2, <1>3, <2>1, <2>2 DEF LeftHeight, Sides
  <2>4. p \in S
    BY <1>1, <1>7
  <2>5. RightHeight(u, k, p) = RightHeight(t, h, p)
    BY Zenon, <1>2, <1>5, <1>7, <2>1, <2>4 DEF RightHeight, Sides
  <2> QED
    BY <2>3, <2>5
<1>8. ASSUME p # NULL, ~LeftOf(t, n, p)
      PROVE  RightHeight(u, k, p) = r /\ LeftHeight(u, k, p) = LeftHeight(t, h, p)
  <2>1. Sides(u.node[p], t.node[p].left, t.node[p].left_child, t.node[n].right, t.node[n].right_child)
    BY <1>8 DEF RightLifted
  <2>2. t.node[n].right_child => t.node[n].right \in S
    BY Children
  <2>3. RightHeight(u, k, p) = r
    BY <1>2, <1>3, <2>1, <2>2 DEF RightHeight, Sides
  <2>4. p \in S
    BY <1>1, <1>8
  <2>5. LeftHeight(u, k, p) = LeftHeight(t, h, p)
    BY Zenon, <1>2, <1>5, <1>8, <2>1, <2>4 DEF LeftHeight, Sides
  <2> QED
    BY <2>3, <2>5
<1>9. Thinned(t, u, S, h, k, n, p)
  <2>1. p # NULL /\ LeftOf(t, n, p) => u.node[p].balance = t.node[p].balance + 1
    BY DEF Lightened
  <2>2. p # NULL /\ ~LeftOf(t, n, p) => u.node[p].balance = t.node[p].balance + (-1)
    BY DEF Lightened
  <2>3. p # NULL => t.node[p].balance \in Int
    <3>1. p # NULL => Exact(t, h, p) /\ LeftHeight(t, h, p) \in Nat /\ RightHeight(t, h, p) \in Nat
      BY <1>1, HeightsNatural DEF Settled, Level
    <3> QED
      BY <3>1 DEF Exact
  <2>4. p # NULL /\ ~LeftOf(t, n, p) => u.node[p].balance = t.node[p].balance - 1
    BY <2>2, <2>3
  <2>5. h[n] - 1 = r
    BY <1>4
  <2> QED
    BY Zenon, <1>6, <1>7, <1>8, <2>1, <2>4, <2>5 DEF Thinned
<1> QED
  BY <1>4, <1>9, ThinnedHeights

LEMMA LeftLiftHeights ==
    ASSUME NEW t, NEW D, NEW pos, NEW lo, NEW hi, NEW up, Shape(t, D, pos, lo, hi, up),
           NEW h, Settled(t, D, h), NEW n \in D, ~t.node[n].right_child,
           NEW p, Below(t, D, n, p), NEW x, OnlyThreadBack(t, D, hi, n, x, p),
           NEW u, LeftLifted(t, u, D, n, p, x), Lightened(t, u, D, n, p),
           NEW S, S = D \ {n}, NEW k, k = Kept(S, h)
    PROVE  /\ p = NULL => Settled(u, S, k)
           /\ p # NULL => Unsettled(u, S, k, p, 1)
<1>1. h \in [D -> Nat] /\ NULL \notin D /\ n # NULL /\ (p # NULL => p \in D /\ p # n)
  BY ParentUnique DEF Settled, Shape, Ghosts, Below
<1>2. \A m \in S : k[m] = h[m]
  BY DEF Kept
<1>3. PICK r : r = IF t.node[n].left_child THEN h[t.node[n].left] ELSE 0
  OBVIOUS
<1>4. h[n] = 1 + r /\ r \in Nat
  <2>1. Tall(t, h, n)
    BY DEF Settled, Level
  <2>2. LeftHeight(t, h, n) = r /\ RightHeight(t, h, n) = 0 /\ LeftHeight(t, h, n) \in Nat
    BY <1>1, <1>3, HeightsNatural DEF LeftHeight, RightHeight
  <2> QED
    BY <2>1, <2>2 DEF Tall, Taller
<1>5. ASSUME NEW m \in S PROVE
        /\ t.node[m].left_child => t.node[m].left \in D
        /\ t.node[m].right_child => t.node[m].right \in D
        /\ t.node[m].left_child /\ t.node[m].left = n => m = p /\ LeftOf(t, n, p)
        /\ t.node[m].right_child /\ t.node[m].right = n => m = p /\ ~LeftOf(t, n, p)
  <2>0. m \in D /\ m # NULL
    BY <1>1
  <2>1. (t.node[m].left_child => t.node[m].left \in D) /\ (t.node[m].right_child => t.node[m].right \in D)
    BY <2>0, Children
  <2>2. ASSUME t.node[m].left_child /\ t.node[m].left = n PROVE m = p /\ LeftOf(t, n, p)
    <3>1. LeftOf(t, n, m) /\ Below(t, D, n, m)
      BY <2>0, <2>2 DEF LeftOf, Below
    <3> QED
      BY <3>1, ParentUnique
  <2>3. ASSUME t.node[m].right_child /\ t.node[m].right = n PROVE m = p /\ ~LeftOf(t, n, p)
    <3>1. RightOf(t, n, m) /\ Below(t, D, n, m)
      BY <2>0, <2>3 DEF RightOf, Below
    <3> QED
      BY <2>0, <3>1, ParentUnique
  <2> QED
    BY <2>1, <2>2, <2>3
<1>6. ASSUME NEW m \in S \ {p} PROVE SameHeights(t, u, h, k, m) /\ u.node[m].balance = t.node[m].balance
  <2>1. /\ u.node[m].right_child = t.node[m].right_child
        /\ t.node[m].right_child => u.node[m].right = t.node[m].right
        /\ u.node[m].left_child = t.node[m].left_child /\ u.node[m].left = t.node[m].left
    <3>0. m # NULL /\ m \in D
      BY <1>1
    <3>1. CASE m = x
      <4>1. ~t.node[m].right_child /\ Sides(u.node[m], t.node[m].left, t.node[m].left_child, t.node[n].right, FALSE)
        BY Zenon, <3>0, <3>1 DEF LeftLifted, OnlyThreadBack
      <4>2. t.node[m].right_child = FALSE
        <5>1. OnlyThreadBack(t, D, hi, n, x, p)
          OBVIOUS
        <5> QED
          BY <4>1
      <4> QED
        BY Zenon, <4>1, <4>2 DEF Sides
    <3>2. CASE m # x
      BY <3>2 DEF LeftLifted, SameSides, Sides
    <3> QED
      BY <3>1, <3>2
  <2>2. RightHeight(u, k, m) = RightHeight(t, h, m)
    BY Zenon, <1>2, <1>5, <2>1 DEF RightHeight
  <2>3. LeftHeight(u, k, m) = LeftHeight(t, h, m)
    BY <1>2, <1>5, <2>1 DEF LeftHeight
  <2> QED
    BY <2>2, <2>3 DEF SameHeights, Lightened
<1>7. ASSUME p # NULL, LeftOf(t, n, p)
      PROVE  LeftHeight(u, k, p) = r /\ RightHeight(u, k, p) = RightHeight(t, h, p)
  <2>1. Sides(u.node[p], t.node[n].left, t.node[n].left_child, t.node[p].right, t.node[p].right_child)
    BY <1>7 DEF LeftLifted
  <2>2. t.node[n].left_child => t.node[n].left \in S
    BY Children
  <2>3. LeftHeight(u, k, p) = r
    BY Zenon, <1>2, <1>3, <2>1, <2>2 DEF LeftHeight, Sides
  <2>4. p \in S
    BY <1>1, <1>7
  <2>5. RightHeight(u, k, p) = RightHeight(t, h, p)
    BY Zenon, <1>2, <1>5, <1>7, <2>1, <2>4 DEF RightHeight, Sides
  <2> QED
    BY <2>3, <2>5
<1>8. ASSUME p # NULL, ~LeftOf(t, n, p)
      PROVE  RightHeight(u, k, p) = r /\ LeftHeight(u, k, p) = LeftHeight(t, h, p)
  <2>1. Sides(u.node[p], t.node[p].left, t.node[p].left_child,
              IF t.node[n].left_child THEN t.node[n].left ELSE t.node[n].right,
              t.node[n].left_child)
    BY <1>8 DEF LeftLifted
  <2>2. t.node[n].left_child => t.node[n].left \in S
    BY Children
  <2>3. RightHeight(u, k, p) = r
    BY <1>2, <1>3, <2>1, <2>2 DEF RightHeight, Sides
  <2>4. p \in S
    BY <1>1, <1>8
  <2>5. LeftHeight(u, k, p) = LeftHeight(t, h, p)
    BY Zenon, <1>2, <1>5, <1>8, <2>1, <2>4 DEF LeftHeight, Sides
  <2> QED
    BY <2>3, <2>5
<1>9. Thinned(t, u, S, h, k, n, p)
  <2>1. p # NULL /\ LeftOf(t, n, p) => u.node[p].balance = t.node[p].balance + 1
    BY DEF Lightened
  <2>2. p # NULL /\ ~LeftOf(t, n, p) => u.node[p].balance = t.node[p].balance + (-1)
    BY DEF Lightened
  <2>3. p # NULL => t.node[p].balance \in Int
    <3>1. p # NULL => Exact(t, h, p) /\ LeftHeight(t, h, p) \in Nat /\ RightHeight(t, h, p) \in Nat
      BY <1>1, HeightsNatural DEF Settled, Level
    <3> QED
      BY <3>1 DEF Exact
  <2>4. p # NULL /\ ~LeftOf(t, n, p) => u.node[p].balance = t.node[p].balance - 1
    BY <2>2, <2>3
  <2>5. h[n] - 1 = r
    BY <1>4
  <2> QED
    BY Zenon, <1>6, <1>7, <1>8, <2>1, <2>4, <2>5 DEF Thinned
<1> QED
  BY <1>4, <1>9, ThinnedHeights

-----------------------------------------------------------------------------
(* The four ways to unlink a node, node by node.                            *)

NodeWith(x, left, left_child, right, right_child, balance) ==
    [key |-> x.key, value |-> x.value, left |-> left, right |-> right,
     left_child |-> left_child, right_child |-> right_child, balance |-> balance]
CutLeft(x, l) == [x EXCEPT !.left = l, !.left_child = FALSE]
CutRight(x, r) == [x EXCEPT !.right = r, !.right_child = FALSE]
LiftLeft(x, l, child, by) == [x EXCEPT !.left = l, !.left_child = child, !.balance = @ + by]
TakeRight(x, r, b) == [x EXCEPT !.right = r, !.right_child = TRUE, !.balance = b]
TakeLeft(x, l) == [x EXCEPT !.left = l, !.left_child = TRUE]
Weigh(x, b) == [x EXCEPT !.balance = b]

LEMMA NodeWhole ==
    ASSUME NEW K, NEW V, NEW L, NEW x \in Node(K, V, L)
    PROVE  /\ \A l : CutLeft(x, l) = NodeWith(x, l, FALSE, x.right, x.right_child, x.balance)
           /\ \A r : CutRight(x, r) = NodeWith(x, x.left, x.left_child, r, FALSE, x.balance)
           /\ \A l : TakeLeft(x, l) = NodeWith(x, l, TRUE, x.right, x.right_child, x.balance)
           /\ \A l : PutLeft(x, l) = NodeWith(x, l, x.left_child, x.right, x.right_child, x.balance)
           /\ \A r : PutRight(x, r) = NodeWith(x, x.left, x.left_child, r, x.right_child, x.balance)
<1>1. x = [key |-> x.key, value |-> x.value, left |-> x.left, right |-> x.right,
           left_child |-> x.left_child, right_child |-> x.right_child, balance |-> x.balance]
  BY DEF Node
<1>2. \A l : CutLeft(x, l) = NodeWith(x, l, FALSE, x.right, x.right_child, x.balance)
  <2> TAKE l
  <2>1. PICK y : y = [x EXCEPT !.left = l]
    BY Zenon
  <2>2. y = NodeWith(x, l, x.left_child, x.right, x.right_child, x.balance)
    BY <1>1, <2>1 DEF NodeWith
  <2>3. CutLeft(x, l) = [y EXCEPT !.left_child = FALSE]
    BY <2>1 DEF CutLeft
  <2> QED
    BY Zenon, <2>2, <2>3 DEF NodeWith
<1>3. \A r : CutRight(x, r) = NodeWith(x, x.left, x.left_child, r, FALSE, x.balance)
  <2> TAKE r
  <2>1. PICK y : y = [x EXCEPT !.right = r]
    BY Zenon
  <2>2. y = NodeWith(x, x.left, x.left_child, r, x.right_child, x.balance)
    BY <1>1, <2>1 DEF NodeWith
  <2>3. CutRight(x, r) = [y EXCEPT !.right_child = FALSE]
    BY <2>1 DEF CutRight
  <2> QED
    BY Zenon, <2>2, <2>3 DEF NodeWith
<1>4. \A l : TakeLeft(x, l) = NodeWith(x, l, TRUE, x.right, x.right_child, x.balance)
  <2> TAKE l
  <2>1. PICK y : y = [x EXCEPT !.left = l]
    OBVIOUS
  <2>2. y = NodeWith(x, l, x.left_child, x.right, x.right_child, x.balance)
    BY <1>1, <2>1 DEF NodeWith
  <2>3. TakeLeft(x, l) = [y EXCEPT !.left_child = TRUE]
    BY <2>1 DEF TakeLeft
  <2> QED
    BY Zenon, <2>2, <2>3 DEF NodeWith
<1>5. \A l : PutLeft(x, l) = NodeWith(x, l, x.left_child, x.right, x.right_child, x.balance)
  BY <1>1 DEF PutLeft, NodeWith
<1>6. \A r : PutRight(x, r) = NodeWith(x, x.left, x.left_child, r, x.right_child, x.balance)
  BY <1>1 DEF PutRight, NodeWith
<1> QED
  BY Zenon, <1>2, <1>3, <1>4, <1>5, <1>6

LEMMA LiftWhole ==
    ASSUME NEW K, NEW V, NEW L, NEW x \in Node(K, V, L), NEW l, NEW child, NEW by
    PROVE  LiftLeft(x, l, child, by) =
              NodeWith(x, l, child, x.right, x.right_child, x.balance + by)
<1>1. x = [key |-> x.key, value |-> x.value, left |-> x.left, right |-> x.right,
           left_child |-> x.left_child, right_child |-> x.right_child, balance |-> x.balance]
  BY DEF Node
<1>2. PICK y : y = [x EXCEPT !.left = l]
  OBVIOUS
<1>3. y = NodeWith(x, l, x.left_child, x.right, x.right_child, x.balance)
  BY <1>1, <1>2 DEF NodeWith
<1>4. PICK z : z = [y EXCEPT !.left_child = child]
  BY Zenon
<1>5. z = NodeWith(x, l, child, x.right, x.right_child, x.balance)
  BY <1>3, <1>4 DEF NodeWith
<1>6. LiftLeft(x, l, child, by) = [z EXCEPT !.balance = @ + by]
  BY <1>2, <1>4 DEF LiftLeft
<1> QED
  BY <1>5, <1>6 DEF NodeWith

LEMMA TakeWhole ==
    ASSUME NEW K, NEW V, NEW L, NEW x \in Node(K, V, L), NEW r, NEW b
    PROVE  TakeRight(x, r, b) = NodeWith(x, x.left, x.left_child, r, TRUE, b)
<1>1. x = [key |-> x.key, value |-> x.value, left |-> x.left, right |-> x.right,
           left_child |-> x.left_child, right_child |-> x.right_child, balance |-> x.balance]
  BY DEF Node
<1>2. PICK y : y = [x EXCEPT !.right = r]
  OBVIOUS
<1>3. y = NodeWith(x, x.left, x.left_child, r, x.right_child, x.balance)
  BY <1>1, <1>2 DEF NodeWith
<1>4. PICK z : z = [y EXCEPT !.right_child = TRUE]
  BY Zenon
<1>5. z = NodeWith(x, x.left, x.left_child, r, TRUE, x.balance)
  BY Zenon, <1>3, <1>4 DEF NodeWith
<1>6. TakeRight(x, r, b) = [z EXCEPT !.balance = b]
  BY <1>2, <1>4 DEF TakeRight
<1> QED
  BY Zenon, <1>5, <1>6 DEF NodeWith

LEMMA WeighWhole ==
    ASSUME NEW K, NEW V, NEW L, NEW x \in Node(K, V, L), NEW b
    PROVE  Weigh(x, b) = NodeWith(x, x.left, x.left_child, x.right, x.right_child, b)
<1>1. x = [key |-> x.key, value |-> x.value, left |-> x.left, right |-> x.right,
           left_child |-> x.left_child, right_child |-> x.right_child, balance |-> x.balance]
  BY DEF Node
<1> QED
  BY <1>1 DEF Weigh, NodeWith

Reshaped(t, u, E, n, left, left_child, right, right_child, balance) ==
    /\ TreeType(u, E) /\ u.root = t.root /\ u.nnodes = t.nnodes /\ SameData(t, u, E)
    /\ Sides(u.node[n], left, left_child, right, right_child) /\ u.node[n].balance = balance
    /\ \A m \in E \ {n} : u.node[m] = t.node[m]

LEMMA NodeReshaped ==
    ASSUME NEW t, NEW E, TreeType(t, E), NEW n \in E,
           NEW left \in E \cup {NULL}, NEW left_child \in BOOLEAN,
           NEW right \in E \cup {NULL}, NEW right_child \in BOOLEAN, NEW balance \in Int,
           NEW y, y = NodeWith(t.node[n], left, left_child, right, right_child, balance),
           NEW u, u = [t EXCEPT !.node[n] = y]
    PROVE  Reshaped(t, u, E, n, left, left_child, right, right_child, balance)
<1>1. PICK K, V, L : t \in Trees(E, Node(K, V, L), L) /\ L = E \cup {NULL}
  BY DEF TreeType
<1>2. t.node[n] \in Node(K, V, L) /\ DOMAIN t.node = E
  BY <1>1 DEF Trees
<1>3. /\ y \in Node(K, V, L) /\ y.key = t.node[n].key /\ y.value = t.node[n].value
      /\ Sides(y, left, left_child, right, right_child) /\ y.balance = balance
  BY <1>1, <1>2 DEF Node, NodeWith, Sides
<1>4. u \in Trees(E, Node(K, V, L), L) /\ Changed(t, u, n, y)
  BY <1>1, <1>3, NodeChanged
<1>5. TreeType(u, E)
  BY <1>1, <1>4 DEF TreeType
<1>6. u.node[n] = y /\ u.root = t.root /\ u.nnodes = t.nnodes /\ \A m \in E \ {n} : u.node[m] = t.node[m]
  BY <1>2, <1>4 DEF Changed
<1>7. SameData(t, u, E)
  BY <1>3, <1>6 DEF SameData
<1> QED
  BY <1>3, <1>5, <1>6, <1>7 DEF Reshaped

Kin(t, u, E) == TreeType(u, E) /\ u.nnodes = t.nnodes /\ SameData(t, u, E)
SameBalances(t, u, E) == \A m \in E : u.node[m].balance = t.node[m].balance

\* v is u with the balance of p lowered on the side where n was in t.
Lowers(t, u, v, E, n, p) ==
    /\ Kin(u, v, E) /\ v.root = u.root /\ \A m \in E : SameSides(u, v, m)
    /\ \A m \in E \ {p} : v.node[m].balance = u.node[m].balance
    /\ p # NULL => v.node[p].balance = u.node[p].balance + (IF LeftOf(t, n, p) THEN 1 ELSE -1)

LEMMA LoweredNodes ==
    ASSUME NEW t, NEW E, NEW n \in E, NEW p \in E \cup {NULL}, NULL \notin E,
           p # NULL => (IsLeftNode(t, n, p) <=> LeftOf(t, n, p)),
           NEW u, TreeType(u, E), NEW v, v = Lowered(t, n, p, u)
    PROVE  Lowers(t, u, v, E, n, p)
<1>1. CASE p = NULL
  <2>1. v = u
    BY <1>1 DEF Lowered
  <2> QED
    BY <1>1, <2>1 DEF Lowers, Kin, SameData, SameSides, Sides
<1>2. CASE p # NULL
  <2>1. PICK by \in Int : by = IF LeftOf(t, n, p) THEN 1 ELSE -1
    OBVIOUS
  <2>2. v = Shift(u, p, by)
    BY <1>2, <2>1 DEF Lowered
  <2>3. Shifted(u, v, E, p, by)
    BY <1>2, <2>1, <2>2, ShiftNodes
  <2> QED
    BY <1>2, <2>1, <2>3 DEF Shifted, Lowers, Kin
<1> QED
  BY <1>1, <1>2

LEMMA LowersRightLifted ==
    ASSUME NEW t, NEW D, NEW n \in D, NEW p \in D \cup {NULL}, NULL \notin D, NEW x \in D \cup {NULL},
           NEW u, Kin(t, u, D), RightLifted(t, u, D, n, p, x), SameBalances(t, u, D),
           NEW v, Lowers(t, u, v, D, n, p)
    PROVE  Kin(t, v, D) /\ RightLifted(t, v, D, n, p, x) /\ Lightened(t, v, D, n, p)
<1>1. Kin(t, v, D)
  BY DEF Kin, Lowers, SameData
<1>2. Lightened(t, v, D, n, p)
  BY DEF Lightened, Lowers, SameBalances
<1>3. v.root = u.root /\ \A m \in D : SameSides(u, v, m)
  BY DEF Lowers
<1>4. \A m \in D \ {n, p, x} : SameSides(t, v, m)
  BY <1>3 DEF RightLifted, SameSides, Sides
<1>5. x # NULL => Sides(v.node[x], t.node[n].left, FALSE, t.node[x].right, t.node[x].right_child)
  BY <1>3 DEF RightLifted, SameSides, Sides
<1>6. ASSUME p # NULL, NEW a, NEW b, NEW c, NEW d, Sides(u.node[p], a, b, c, d)
      PROVE  Sides(v.node[p], a, b, c, d)
  BY <1>3, <1>6 DEF SameSides, Sides
<1> QED
  BY Zenon, <1>1, <1>2, <1>3, <1>4, <1>5, <1>6 DEF RightLifted

LEMMA LowersLeftLifted ==
    ASSUME NEW t, NEW D, NEW n \in D, NEW p \in D \cup {NULL}, NULL \notin D, NEW x \in D \cup {NULL},
           NEW u, Kin(t, u, D), LeftLifted(t, u, D, n, p, x), SameBalances(t, u, D),
           NEW v, Lowers(t, u, v, D, n, p)
    PROVE  Kin(t, v, D) /\ LeftLifted(t, v, D, n, p, x) /\ Lightened(t, v, D, n, p)
<1>1. Kin(t, v, D)
  BY DEF Kin, Lowers, SameData
<1>2. Lightened(t, v, D, n, p)
  BY DEF Lightened, Lowers, SameBalances
<1>3. v.root = u.root /\ \A m \in D : SameSides(u, v, m)
  BY DEF Lowers
<1>4. \A m \in D \ {n, p, x} : SameSides(t, v, m)
  BY <1>3 DEF LeftLifted, SameSides, Sides
<1>5. x # NULL => Sides(v.node[x], t.node[x].left, t.node[x].left_child, t.node[n].right, FALSE)
  BY <1>3 DEF LeftLifted, SameSides, Sides
<1>6. ASSUME p # NULL, NEW a, NEW b, NEW c, NEW d, Sides(u.node[p], a, b, c, d)
      PROVE  Sides(v.node[p], a, b, c, d)
  BY <1>3, <1>6 DEF SameSides, Sides
<1> QED
  BY Zenon, <1>1, <1>2, <1>3, <1>4, <1>5, <1>6 DEF LeftLifted

LEMMA SideKnown ==
    ASSUME NEW t, NEW D, NEW pos, NEW lo, NEW hi, NEW up, Shape(t, D, pos, lo, hi, up),
           NEW n \in D, NEW p, Below(t, D, n, p)
    PROVE  /\ p \in D \cup {NULL} /\ NULL \notin D /\ n # NULL /\ p # n
           /\ p # NULL => (IsLeftNode(t, n, p) <=> LeftOf(t, n, p))
<1>1. NULL \notin D /\ p \in D \cup {NULL}
  BY DEF Shape, Ghosts, Below
<1> QED
  BY <1>1, ParentUnique DEF IsLeftNode

LEMMA UnlinkLeafNodes ==
    ASSUME NEW t, NEW D, TreeType(t, D),
           NEW pos, NEW lo, NEW hi, NEW up, Shape(t, D, pos, lo, hi, up),
           NEW n \in D, ~t.node[n].left_child, ~t.node[n].right_child,
           NEW path, NEW p, p = ParentOf(path), Below(t, D, n, p),
           NEW y, y = UnlinkLeaf(t, n, path), NEW v, v = y.tree
    PROVE  /\ y.way = path
           /\ Kin(t, v, D) /\ RightLifted(t, v, D, n, p, NULL) /\ Lightened(t, v, D, n, p)
<1>1. /\ p \in D \cup {NULL} /\ NULL \notin D /\ n # NULL /\ p # n
      /\ p # NULL => (IsLeftNode(t, n, p) <=> LeftOf(t, n, p))
  BY SideKnown
<1>2. PICK u : u = IF p = NULL THEN [t EXCEPT !.root = NULL]
                   ELSE IF IsLeftNode(t, n, p)
                   THEN [t EXCEPT !.node[p] = CutLeft(t.node[p], t.node[n].left)]
                   ELSE [t EXCEPT !.node[p] = CutRight(t.node[p], t.node[n].right)]
  BY Zenon
<1>3. v = Lowered(t, n, p, u) /\ y.way = path
  BY <1>2 DEF UnlinkLeaf, CutLeft, CutRight
<1>4. Kin(t, u, D) /\ RightLifted(t, u, D, n, p, NULL) /\ SameBalances(t, u, D)
  <2>0. t.node[n].left \in D \cup {NULL} /\ t.node[n].right \in D \cup {NULL}
    BY Fields
  <2>4. t.node[n].right_child = FALSE
    <3>1. t.node[n].right_child \in BOOLEAN
      BY Fields
    <3> QED
      BY <3>1
  <2>1. CASE p = NULL
    <3>1. u = [t EXCEPT !.root = NULL]
      BY <1>2, <2>1
    <3>2. u.root = NULL /\ u.node = t.node /\ u.nnodes = t.nnodes /\ TreeType(u, D)
      BY <3>1 DEF TreeType, Trees
    <3>3. \A m \in D : SameSides(t, u, m)
      BY <3>2 DEF SameSides, Sides
    <3>4. RightLifted(t, u, D, n, p, NULL)
      BY <2>1, <3>2, <3>3 DEF RightLifted
    <3>5. Kin(t, u, D) /\ SameBalances(t, u, D)
      BY <3>2 DEF Kin, SameData, SameBalances
    <3> QED
      BY <3>4, <3>5
  <2>2. CASE p # NULL /\ LeftOf(t, n, p)
    <3>1. PICK x : x = t.node[p] /\ x.balance \in Int /\ x.right \in D \cup {NULL} /\ x.right_child \in BOOLEAN
      BY <1>1, <2>2, Fields
    <3>2. PICK z : z = CutLeft(x, t.node[n].left) /\ u = [t EXCEPT !.node[p] = z]
      BY <1>1, <1>2, <2>2, <3>1
    <3>3. z = NodeWith(x, t.node[n].left, FALSE, x.right, x.right_child, x.balance)
      <4>1. \E K, V, L : x \in Node(K, V, L)
        BY <1>1, <2>2, <3>1 DEF TreeType, Trees
      <4> QED
        BY Zenon, <3>2, <4>1, NodeWhole
    <3>4. Reshaped(t, u, D, p, t.node[n].left, FALSE, x.right, x.right_child, x.balance)
      <4>1. z = NodeWith(t.node[p], t.node[n].left, FALSE, x.right, x.right_child, x.balance)
        BY <3>1, <3>3
      <4>2. p \in D /\ FALSE \in BOOLEAN
        BY <1>1, <2>2
      <4> QED
        BY ZenonT(60), <2>0, <3>1, <3>2, <4>1, <4>2, NodeReshaped
    <3>5. \A m \in D \ {p} : SameSides(t, u, m)
      BY <3>4 DEF Reshaped, SameSides, Sides
    <3>6. RightLifted(t, u, D, n, p, NULL)
      <4>1. /\ u.root = t.root
            /\ Sides(u.node[p], t.node[n].left, t.node[n].right_child,
                     t.node[p].right, t.node[p].right_child)
        BY Zenon, <2>4, <3>1, <3>4 DEF Reshaped
      <4> QED
        BY <2>2, <2>4, <3>5, <4>1 DEF RightLifted
    <3> QED
      BY <3>1, <3>4, <3>6 DEF Reshaped, Kin, SameBalances
  <2>3. CASE p # NULL /\ ~LeftOf(t, n, p)
    <3>1. PICK x : x = t.node[p] /\ x.balance \in Int /\ x.left \in D \cup {NULL} /\ x.left_child \in BOOLEAN
      BY <1>1, <2>3, Fields
    <3>2. PICK z : z = CutRight(x, t.node[n].right) /\ u = [t EXCEPT !.node[p] = z]
      BY <1>1, <1>2, <2>3, <3>1
    <3>3. z = NodeWith(x, x.left, x.left_child, t.node[n].right, FALSE, x.balance)
      <4>1. \E K, V, L : x \in Node(K, V, L)
        BY <1>1, <2>3, <3>1 DEF TreeType, Trees
      <4> QED
        BY Zenon, <3>2, <4>1, NodeWhole
    <3>4. Reshaped(t, u, D, p, x.left, x.left_child, t.node[n].right, FALSE, x.balance)
      BY Zenon, <1>1, <2>0, <2>3, <3>1, <3>2, <3>3, NodeReshaped
    <3>5. \A m \in D \ {p} : SameSides(t, u, m)
      BY <3>4 DEF Reshaped, SameSides, Sides
    <3>6. RightLifted(t, u, D, n, p, NULL)
      <4>1. /\ u.root = t.root
            /\ Sides(u.node[p], t.node[p].left, t.node[p].left_child,
                     t.node[n].right, t.node[n].right_child)
        BY Zenon, <2>4, <3>1, <3>4 DEF Reshaped
      <4> QED
        BY <2>3, <2>4, <3>5, <4>1 DEF RightLifted
    <3> QED
      BY <3>1, <3>4, <3>6 DEF Reshaped, Kin, SameBalances
  <2> QED
    BY <2>1, <2>2, <2>3
<1>5. TreeType(u, D)
  BY <1>4 DEF Kin
<1>6. Lowers(t, u, v, D, n, p)
  BY <1>1, <1>3, <1>5, LoweredNodes
<1> QED
  BY <1>1, <1>3, <1>4, <1>6, LowersRightLifted

LEMMA SuccessorUnique ==
    ASSUME NEW D, NEW pos, \A m \in D : pos[m] \in Int, \A m, q \in D : pos[m] = pos[q] => m = q,
           NULL \notin D, NEW n \in D, NEW a \in D, NEW b \in D,
           Before(pos, n, a), Adjacent(D, pos, n, a), Before(pos, n, b), Adjacent(D, pos, n, b)
    PROVE  a = b
<1>1. n # NULL /\ a # NULL /\ b # NULL
  OBVIOUS
<1>2. pos[n] < pos[a] /\ pos[n] < pos[b] /\ pos[a] \in Int /\ pos[b] \in Int
  BY <1>1 DEF Before
<1>3. ~(pos[a] < pos[b]) /\ ~(pos[b] < pos[a])
  BY <1>1, <1>2 DEF Adjacent
<1>4. pos[a] = pos[b]
  BY <1>2, <1>3
<1> QED
  BY <1>4

LEMMA PredecessorUnique ==
    ASSUME NEW D, NEW pos, \A m \in D : pos[m] \in Int, \A m, q \in D : pos[m] = pos[q] => m = q,
           NULL \notin D, NEW n \in D, NEW a \in D, NEW b \in D,
           Before(pos, a, n), Adjacent(D, pos, a, n), Before(pos, b, n), Adjacent(D, pos, b, n)
    PROVE  a = b
<1>1. n # NULL /\ a # NULL /\ b # NULL
  OBVIOUS
<1>2. pos[a] < pos[n] /\ pos[b] < pos[n] /\ pos[a] \in Int /\ pos[b] \in Int
  BY <1>1 DEF Before
<1>3. ~(pos[a] < pos[b]) /\ ~(pos[b] < pos[a])
  BY <1>1, <1>2 DEF Adjacent
<1>4. pos[a] = pos[b]
  BY <1>2, <1>3
<1> QED
  BY <1>4

\* Who refers to n: the parent, and the neighbours' threads.
LEMMA NoSide ==
    ASSUME NEW t, NEW D, NEW pos, NEW lo, NEW hi, NEW up, NEW h, Sound(t, D, pos, lo, hi, up, h),
           NEW n \in D
    PROVE  /\ ~t.node[n].left_child => \A m \in D : hi[m] # n
           /\ ~t.node[n].right_child => \A m \in D : lo[m] # n
<1>1. n # NULL
  BY SoundParts
<1>2. ASSUME NEW m \in D
      PROVE  (hi[m] = n => t.node[n].left_child) /\ (lo[m] = n => t.node[n].right_child)
  <2>1. Reached(t, D, lo, hi, up, m)
    BY AllReached
  <2> QED
    BY <1>1, <2>1 DEF Reached
<1> QED
  BY <1>2

LEMMA NextThread ==
    ASSUME NEW t, NEW D, NEW pos, NEW lo, NEW hi, NEW up, NEW h, Sound(t, D, pos, lo, hi, up, h),
           NEW n \in D, NEW p, Below(t, D, n, p),
           NEW x, x = IF t.node[n].right_child THEN NextNode(t, n) ELSE NULL
    PROVE  OnlyThread(t, D, lo, n, x, p)
<1>1. /\ NULL \notin D /\ Shape(t, D, pos, lo, hi, up) /\ \A m \in D : pos[m] \in Int
      /\ \A m, q \in D : pos[m] = pos[q] => m = q
      /\ \A m \in D : LeftPlaced(t, D, pos, lo, hi, up, m)
  BY SoundParts DEF Shape, Ghosts
<1>2. CASE ~t.node[n].right_child
  BY <1>2, NoSide DEF OnlyThread
<1>3. CASE t.node[n].right_child
  <2>1. x = NextNode(t, n)
    BY <1>3
  <2>2. Successive(D, pos, n, x) /\ x \in D /\ ~t.node[x].left_child /\ t.node[x].left = n
    BY <1>3, <2>1, NextSuccessive
  <2>3. lo[x] = n /\ Before(pos, n, x) /\ Adjacent(D, pos, n, x)
    <3>1. LeftPlaced(t, D, pos, lo, hi, up, x)
      BY <1>1, <2>2
    <3> QED
      BY <2>2, <3>1 DEF LeftPlaced
  <2>4. ASSUME NEW m \in D, ~t.node[m].left_child, lo[m] = n PROVE m = x
    <3>1. Before(pos, n, m) /\ Adjacent(D, pos, n, m)
      <4>1. LeftPlaced(t, D, pos, lo, hi, up, m)
        BY <1>1
      <4> QED
        BY <2>4, <4>1 DEF LeftPlaced
    <3> QED
      BY <1>1, <2>2, <2>3, <3>1, SuccessorUnique
  <2>5. x # n
    BY <1>1, <2>2, <2>3 DEF Before
  <2>6. x # p
    <3> SUFFICES ASSUME x = p PROVE FALSE
      OBVIOUS
    <3>1. p # NULL /\ (LeftOf(t, n, p) \/ RightOf(t, n, p))
      BY <1>1, <2>2 DEF Below
    <3>2. ~LeftOf(t, n, p)
      BY <2>2 DEF LeftOf
    <3>3. lo[n] = p
      BY <1>1, <3>1, <3>2, ParentUnique
    <3>4. Before(pos, p, n)
      BY <1>1, <3>3 DEF LeftPlaced
    <3>5. pos[n] < pos[x] /\ pos[p] < pos[n] /\ pos[n] \in Int /\ pos[x] \in Int
      BY <1>1, <2>2, <2>3, <3>1, <3>4 DEF Before
    <3> QED
      BY <3>5
  <2> QED
    BY <1>1, <2>2, <2>3, <2>4, <2>5, <2>6 DEF OnlyThread
<1> QED
  BY <1>2, <1>3

LEMMA PreviousThread ==
    ASSUME NEW t, NEW D, NEW pos, NEW lo, NEW hi, NEW up, NEW h, Sound(t, D, pos, lo, hi, up, h),
           NEW n \in D, NEW p, Below(t, D, n, p),
           NEW x, x = IF t.node[n].left_child THEN PreviousNode(t, n) ELSE NULL
    PROVE  OnlyThreadBack(t, D, hi, n, x, p)
<1>1. /\ NULL \notin D /\ Shape(t, D, pos, lo, hi, up) /\ \A m \in D : pos[m] \in Int
      /\ \A m, q \in D : pos[m] = pos[q] => m = q
      /\ \A m \in D : RightPlaced(t, D, pos, lo, hi, up, m)
  BY SoundParts DEF Shape, Ghosts
<1>2. CASE ~t.node[n].left_child
  BY <1>2, NoSide DEF OnlyThreadBack
<1>3. CASE t.node[n].left_child
  <2>1. x = PreviousNode(t, n)
    BY <1>3
  <2>2. Successive(D, pos, x, n) /\ x \in D /\ ~t.node[x].right_child /\ t.node[x].right = n
    BY <1>3, <2>1, PreviousSuccessive
  <2>3. hi[x] = n /\ Before(pos, x, n) /\ Adjacent(D, pos, x, n)
    <3>1. RightPlaced(t, D, pos, lo, hi, up, x)
      BY <1>1, <2>2
    <3> QED
      BY <2>2, <3>1 DEF RightPlaced
  <2>4. ASSUME NEW m \in D, ~t.node[m].right_child, hi[m] = n PROVE m = x
    <3>1. Before(pos, m, n) /\ Adjacent(D, pos, m, n)
      <4>1. RightPlaced(t, D, pos, lo, hi, up, m)
        BY <1>1
      <4> QED
        BY <2>4, <4>1 DEF RightPlaced
    <3> QED
      BY <1>1, <2>2, <2>3, <3>1, PredecessorUnique
  <2>5. x # n
    BY <1>1, <2>2, <2>3 DEF Before
  <2>6. x # p
    <3> SUFFICES ASSUME x = p PROVE FALSE
      OBVIOUS
    <3>1. p # NULL /\ (LeftOf(t, n, p) \/ RightOf(t, n, p))
      BY <1>1, <2>2 DEF Below
    <3>2. LeftOf(t, n, p)
      BY <2>2, <3>1 DEF RightOf
    <3>3. hi[n] = p
      BY <1>1, <3>1, <3>2, ParentUnique
    <3>4. Before(pos, n, p)
      BY <1>1, <3>3 DEF RightPlaced
    <3>5. pos[x] < pos[n] /\ pos[n] < pos[p] /\ pos[n] \in Int /\ pos[x] \in Int
      BY <1>1, <2>2, <2>3, <3>1, <3>4 DEF Before
    <3> QED
      BY <3>5
  <2> QED
    BY <1>1, <2>2, <2>3, <2>4, <2>5, <2>6 DEF OnlyThreadBack
<1> QED
  BY <1>2, <1>3

LEMMA UnlinkRightNodes ==
    ASSUME NEW t, NEW D, NEW pos, NEW lo, NEW hi, NEW up, NEW h, Sound(t, D, pos, lo, hi, up, h),
           NEW n \in D, ~t.node[n].left_child, t.node[n].right_child,
           NEW path, NEW p, p = ParentOf(path), Below(t, D, n, p), NEW x, x = NextNode(t, n),
           NEW y, y = UnlinkWithRightChild(t, n, path), NEW v, v = y.tree
    PROVE  /\ y.way = path
           /\ Kin(t, v, D) /\ RightLifted(t, v, D, n, p, x) /\ Lightened(t, v, D, n, p)
<1>1. TreeType(t, D) /\ Shape(t, D, pos, lo, hi, up) /\ NULL \notin D /\ n # NULL
  BY SoundParts
<1>2. p \in D \cup {NULL} /\ p # n /\ (p # NULL => (IsLeftNode(t, n, p) <=> LeftOf(t, n, p)))
  BY <1>1, SideKnown
<1>3. OnlyThread(t, D, lo, n, x, p) /\ x \in D
  BY NextThread, NextSuccessive
<1>4. x \in D /\ x # n /\ x # p /\ ~t.node[x].left_child /\ x # NULL
  BY <1>1, <1>3 DEF OnlyThread
<1>5. /\ t.node[x].left_child = FALSE /\ t.node[n].right_child = TRUE
      /\ t.node[n].left \in D \cup {NULL} /\ t.node[x].right \in D \cup {NULL}
      /\ t.node[x].right_child \in BOOLEAN /\ t.node[x].balance \in Int
      /\ DOMAIN t.node = D
  <2>1. t.node[x].left_child \in BOOLEAN /\ t.node[n].right_child \in BOOLEAN
    BY <1>1, <1>4, Fields
  <2> QED
    BY <1>1, <1>4, <2>1, Fields
<1>6. t.node[n].right \in D
  BY <1>1, Children
<1>7. PICK l, r, g : l = t.node[n].left /\ r = t.node[n].right /\ g = IsLeftNode(t, n, p)
  BY Zenon
<1>8. PICK z : z = PutLeft(t.node[x], l)
  OBVIOUS
<1>9. PICK s : s = [t EXCEPT !.node[x] = z]
  BY Zenon
<1>10. PICK u : u = SetChild(s, r, p, g)
  OBVIOUS
<1>11. v = Lowered(t, n, p, u) /\ y.way = path
  BY <1>7, <1>8, <1>9, <1>10 DEF UnlinkWithRightChild, PutLeft
<1>12. Reshaped(t, s, D, x, l, FALSE, t.node[x].right, t.node[x].right_child, t.node[x].balance)
  <2>1. PICK a : a = t.node[x]
    OBVIOUS
  <2>2. \E K, V, L : a \in Node(K, V, L)
    BY <1>1, <1>4, <2>1 DEF TreeType, Trees
  <2>3. PutLeft(a, l) = NodeWith(a, l, a.left_child, a.right, a.right_child, a.balance)
    BY Zenon, <2>2, NodeWhole
  <2>4. z = NodeWith(t.node[x], l, FALSE, a.right, a.right_child, a.balance)
    BY Zenon, <1>5, <1>8, <2>1, <2>3
  <2>5. /\ FALSE \in BOOLEAN /\ l \in D \cup {NULL} /\ a.right \in D \cup {NULL}
        /\ a.right_child \in BOOLEAN /\ a.balance \in Int
    BY <1>5, <1>7, <2>1
  <2>6. Reshaped(t, s, D, x, l, FALSE, a.right, a.right_child, a.balance)
    <3>1. TreeType(t, D) /\ x \in D
      BY <1>1, <1>4
    <3> QED
      BY Zenon, <1>9, <2>4, <2>5, <3>1, NodeReshaped
  <2> QED
    BY Zenon, <2>1, <2>6
<1>13. TreeType(u, D) /\ u.nnodes = s.nnodes /\ ChildIs(s, u, D, r, p, g)
  <2>1. TreeType(s, D) /\ r \in D
    BY <1>6, <1>7, <1>12 DEF Reshaped
  <2> QED
    BY <1>2, <1>10, <2>1, ChildSet
<1>14. \A m \in D \ {p} : u.node[m] = s.node[m]
  BY <1>13 DEF ChildIs
<1>15. \A m \in D \ {x} : s.node[m] = t.node[m]
  BY <1>12 DEF Reshaped
<1>16. /\ u.node[x] = s.node[x] /\ Sides(s.node[x], l, FALSE, t.node[x].right, t.node[x].right_child)
       /\ s.node[x].balance = t.node[x].balance /\ s.root = t.root /\ s.nnodes = t.nnodes
       /\ SameData(t, s, D)
  BY Zenon, <1>4, <1>12, <1>14 DEF Reshaped
<1>17. /\ p = NULL => u.root = r
       /\ p # NULL =>
            /\ u.root = t.root /\ u.node[p].balance = t.node[p].balance
            /\ u.node[p].key = t.node[p].key /\ u.node[p].value = t.node[p].value
            /\ g => Sides(u.node[p], r, t.node[p].left_child, t.node[p].right, t.node[p].right_child)
            /\ ~g => Sides(u.node[p], t.node[p].left, t.node[p].left_child,
                           r, t.node[p].right_child)
  <2>1. p # NULL => s.node[p] = t.node[p]
    BY <1>2, <1>4, <1>15
  <2> QED
    BY <1>13, <1>16, <2>1 DEF ChildIs
<1>18. Kin(t, u, D) /\ SameBalances(t, u, D)
  <2>1. ASSUME NEW m \in D
        PROVE  /\ u.node[m].key = t.node[m].key /\ u.node[m].value = t.node[m].value
               /\ u.node[m].balance = t.node[m].balance
    <3>1. CASE m = p
      BY <1>1, <1>17, <3>1
    <3>2. CASE m = x
      BY <1>4, <1>16, <3>2 DEF SameData
    <3>3. CASE m # p /\ m # x
      BY <1>14, <1>15, <3>3
    <3> QED
      BY <3>1, <3>2, <3>3
  <2> QED
    BY <1>13, <1>16, <2>1 DEF Kin, SameData, SameBalances
<1>19. RightLifted(t, u, D, n, p, x)
  <2>1. p = NULL => u.root = t.node[n].right
    BY <1>7, <1>17
  <2>2. p # NULL /\ LeftOf(t, n, p) =>
           Sides(u.node[p], t.node[n].right, t.node[n].right_child, t.node[p].right, t.node[p].right_child)
    <3> SUFFICES ASSUME p # NULL, LeftOf(t, n, p)
                 PROVE  Sides(u.node[p], t.node[n].right, t.node[n].right_child,
                              t.node[p].right, t.node[p].right_child)
      BY Zenon
    <3>1. t.node[p].left_child = TRUE
      <4>1. t.node[p].left_child \in BOOLEAN
        BY <1>1, <1>2, Fields
      <4> QED
        BY <4>1 DEF LeftOf
    <3> QED
      BY Zenon, <1>2, <1>5, <1>7, <1>17, <3>1
  <2>3. p # NULL /\ ~LeftOf(t, n, p) =>
           Sides(u.node[p], t.node[p].left, t.node[p].left_child, t.node[n].right, t.node[n].right_child)
    <3> SUFFICES ASSUME p # NULL, ~LeftOf(t, n, p)
                 PROVE  Sides(u.node[p], t.node[p].left, t.node[p].left_child,
                              t.node[n].right, t.node[n].right_child)
      BY Zenon
    <3>1. t.node[p].right_child = TRUE
      <4>1. t.node[p].right_child \in BOOLEAN
        BY <1>1, <1>2, Fields
      <4>2. RightOf(t, n, p)
        BY DEF Below
      <4> QED
        BY <4>1, <4>2 DEF RightOf
    <3> QED
      BY Zenon, <1>2, <1>5, <1>7, <1>17, <3>1
  <2>4. Sides(u.node[x], t.node[n].left, FALSE, t.node[x].right, t.node[x].right_child)
    BY Zenon, <1>7, <1>16
  <2>5. \A m \in D \ {n, p, x} : SameSides(t, u, m)
    BY <1>14, <1>15 DEF SameSides, Sides
  <2>6. p # NULL => u.root = t.root
    BY <1>17
  <2> QED
    BY Zenon, <1>5, <2>1, <2>2, <2>3, <2>4, <2>5, <2>6 DEF RightLifted
<1>20. Lowers(t, u, v, D, n, p)
  BY <1>1, <1>2, <1>11, <1>13, LoweredNodes
<1> QED
  BY <1>1, <1>2, <1>4, <1>11, <1>18, <1>19, <1>20, LowersRightLifted

LEMMA UnlinkLeftNodes ==
    ASSUME NEW t, NEW D, NEW pos, NEW lo, NEW hi, NEW up, NEW h, Sound(t, D, pos, lo, hi, up, h),
           NEW n \in D, ~t.node[n].right_child, t.node[n].left_child,
           NEW path, NEW p, p = ParentOf(path), Below(t, D, n, p), NEW x, x = PreviousNode(t, n),
           NEW y, y = UnlinkWithLeftChild(t, n, path), NEW v, v = y.tree
    PROVE  /\ y.way = path
           /\ Kin(t, v, D) /\ LeftLifted(t, v, D, n, p, x) /\ Lightened(t, v, D, n, p)
<1>1. TreeType(t, D) /\ Shape(t, D, pos, lo, hi, up) /\ NULL \notin D /\ n # NULL
  BY SoundParts
<1>2. p \in D \cup {NULL} /\ p # n /\ (p # NULL => (IsLeftNode(t, n, p) <=> LeftOf(t, n, p)))
  BY <1>1, SideKnown
<1>3. OnlyThreadBack(t, D, hi, n, x, p) /\ x \in D
  BY PreviousThread, PreviousSuccessive
<1>4. x \in D /\ x # n /\ x # p /\ ~t.node[x].right_child /\ x # NULL
  BY <1>1, <1>3 DEF OnlyThreadBack
<1>5. /\ t.node[x].right_child = FALSE /\ t.node[n].left_child = TRUE
      /\ t.node[n].right \in D \cup {NULL} /\ t.node[x].left \in D \cup {NULL}
      /\ t.node[x].left_child \in BOOLEAN /\ t.node[x].balance \in Int
      /\ DOMAIN t.node = D
  <2>1. t.node[x].right_child \in BOOLEAN /\ t.node[n].left_child \in BOOLEAN
    BY <1>1, <1>4, Fields
  <2> QED
    BY <1>1, <1>4, <2>1, Fields
<1>6. t.node[n].left \in D
  BY <1>1, Children
<1>7. PICK q, c, g : q = t.node[n].right /\ c = t.node[n].left /\ g = IsLeftNode(t, n, p)
  BY Zenon
<1>8. PICK z : z = PutRight(t.node[x], q)
  OBVIOUS
<1>9. PICK s : s = [t EXCEPT !.node[x] = z]
  BY Zenon
<1>10. PICK u : u = SetChild(s, c, p, g)
  OBVIOUS
<1>11. v = Lowered(t, n, p, u) /\ y.way = path
  BY <1>7, <1>8, <1>9, <1>10 DEF UnlinkWithLeftChild, PutRight
<1>12. Reshaped(t, s, D, x, t.node[x].left, t.node[x].left_child, q, FALSE, t.node[x].balance)
  <2>1. PICK a : a = t.node[x]
    OBVIOUS
  <2>2. \E K, V, L : a \in Node(K, V, L)
    BY <1>1, <1>4, <2>1 DEF TreeType, Trees
  <2>3. PutRight(a, q) = NodeWith(a, a.left, a.left_child, q, a.right_child, a.balance)
    BY Zenon, <2>2, NodeWhole
  <2>4. z = NodeWith(t.node[x], a.left, a.left_child, q, FALSE, a.balance)
    BY Zenon, <1>5, <1>8, <2>1, <2>3
  <2>5. /\ FALSE \in BOOLEAN /\ q \in D \cup {NULL} /\ a.left \in D \cup {NULL}
        /\ a.left_child \in BOOLEAN /\ a.balance \in Int
    BY <1>5, <1>7, <2>1
  <2>6. Reshaped(t, s, D, x, a.left, a.left_child, q, FALSE, a.balance)
    <3>1. TreeType(t, D) /\ x \in D
      BY <1>1, <1>4
    <3> QED
      BY Zenon, <1>9, <2>4, <2>5, <3>1, NodeReshaped
  <2> QED
    BY Zenon, <2>1, <2>6
<1>13. TreeType(u, D) /\ u.nnodes = s.nnodes /\ ChildIs(s, u, D, c, p, g)
  <2>1. TreeType(s, D) /\ c \in D
    BY <1>6, <1>7, <1>12 DEF Reshaped
  <2> QED
    BY <1>2, <1>10, <2>1, ChildSet
<1>14. \A m \in D \ {p} : u.node[m] = s.node[m]
  BY <1>13 DEF ChildIs
<1>15. \A m \in D \ {x} : s.node[m] = t.node[m]
  BY <1>12 DEF Reshaped
<1>16. /\ u.node[x] = s.node[x] /\ Sides(s.node[x], t.node[x].left, t.node[x].left_child, q, FALSE)
       /\ s.node[x].balance = t.node[x].balance /\ s.root = t.root /\ s.nnodes = t.nnodes
       /\ SameData(t, s, D)
  BY Zenon, <1>4, <1>12, <1>14 DEF Reshaped
<1>17. /\ p = NULL => u.root = c
       /\ p # NULL =>
            /\ u.root = t.root /\ u.node[p].balance = t.node[p].balance
            /\ u.node[p].key = t.node[p].key /\ u.node[p].value = t.node[p].value
            /\ g => Sides(u.node[p], c, t.node[p].left_child, t.node[p].right, t.node[p].right_child)
            /\ ~g => Sides(u.node[p], t.node[p].left, t.node[p].left_child,
                           c, t.node[p].right_child)
  <2>1. p # NULL => s.node[p] = t.node[p]
    BY <1>2, <1>4, <1>15
  <2> QED
    BY <1>13, <1>16, <2>1 DEF ChildIs
<1>18. Kin(t, u, D) /\ SameBalances(t, u, D)
  <2>1. ASSUME NEW m \in D
        PROVE  /\ u.node[m].key = t.node[m].key /\ u.node[m].value = t.node[m].value
               /\ u.node[m].balance = t.node[m].balance
    <3>1. CASE m = p
      BY <1>1, <1>17, <3>1
    <3>2. CASE m = x
      BY <1>4, <1>16, <3>2 DEF SameData
    <3>3. CASE m # p /\ m # x
      BY <1>14, <1>15, <3>3
    <3> QED
      BY <3>1, <3>2, <3>3
  <2> QED
    BY <1>13, <1>16, <2>1 DEF Kin, SameData, SameBalances
<1>19. LeftLifted(t, u, D, n, p, x)
  <2>1. p = NULL => u.root = t.node[n].left
    BY <1>7, <1>17
  <2>2. p # NULL /\ LeftOf(t, n, p) =>
           Sides(u.node[p], t.node[n].left, t.node[n].left_child, t.node[p].right, t.node[p].right_child)
    <3> SUFFICES ASSUME p # NULL, LeftOf(t, n, p)
                 PROVE  Sides(u.node[p], t.node[n].left, t.node[n].left_child,
                              t.node[p].right, t.node[p].right_child)
      BY Zenon
    <3>1. t.node[p].left_child = TRUE
      <4>1. t.node[p].left_child \in BOOLEAN
        BY <1>1, <1>2, Fields
      <4> QED
        BY <4>1 DEF LeftOf
    <3> QED
      BY Zenon, <1>2, <1>5, <1>7, <1>17, <3>1
  <2>3. p # NULL /\ ~LeftOf(t, n, p) =>
           Sides(u.node[p], t.node[p].left, t.node[p].left_child, t.node[n].left, t.node[n].left_child)
    <3> SUFFICES ASSUME p # NULL, ~LeftOf(t, n, p)
                 PROVE  Sides(u.node[p], t.node[p].left, t.node[p].left_child,
                              t.node[n].left, t.node[n].left_child)
      BY Zenon
    <3>1. t.node[p].right_child = TRUE
      <4>1. t.node[p].right_child \in BOOLEAN
        BY <1>1, <1>2, Fields
      <4>2. RightOf(t, n, p)
        BY DEF Below
      <4> QED
        BY <4>1, <4>2 DEF RightOf
    <3> QED
      BY Zenon, <1>2, <1>5, <1>7, <1>17, <3>1
  <2>4. Sides(u.node[x], t.node[x].left, t.node[x].left_child, t.node[n].right, FALSE)
    BY Zenon, <1>7, <1>16
  <2>5. \A m \in D \ {n, p, x} : SameSides(t, u, m)
    BY <1>14, <1>15 DEF SameSides, Sides
  <2>6. p # NULL => u.root = t.root
    BY <1>17
  <2> QED
    BY Zenon, <1>5, <2>1, <2>2, <2>3, <2>4, <2>5, <2>6 DEF LeftLifted
<1>20. Lowers(t, u, v, D, n, p)
  BY <1>1, <1>2, <1>11, <1>13, LoweredNodes
<1> QED
  BY <1>1, <1>2, <1>4, <1>11, <1>18, <1>19, <1>20, LowersLeftLifted

-----------------------------------------------------------------------------
(* A node is unlinked, and the balance below way[Len(way)] still to be       *)
(* restored.                                                                *)

\* path leads from the root to the parent of n.
Leads(t, D, path, n) ==
    /\ n \in D /\ OnceEach(path, D) /\ \A i \in 1 .. Len(path) : path[i] # n
    /\ Chain(t, D, path, Len(path)) /\ Below(t, D, n, ParentOf(path))

Unlinked(t, u, D, S, pos, way) ==
    /\ Kin(t, u, D)
    /\ \E lo, hi, up : Shape(u, S, pos, lo, hi, up)
    /\ OnceEach(way, S) /\ Chain(u, S, way, Len(way))
    /\ IF Len(way) = 0 THEN \E h : Settled(u, S, h)
                       ELSE \E h : Unsettled(u, S, h, way[Len(way)], 1)

LEMMA ParentLast ==
    ASSUME NEW D, NEW path \in Seq(D)
    PROVE  /\ Len(path) \in Nat /\ \A i \in 1 .. Len(path) : path[i] \in D
           /\ Len(path) = 0 => ParentOf(path) = NULL
           /\ Len(path) # 0 => ParentOf(path) = path[Len(path)] /\ Len(path) \in 1 .. Len(path)
<1>1. Len(path) \in Nat /\ \A i \in 1 .. Len(path) : path[i] \in D
  OBVIOUS
<1>2. Len(path) = 0 => ParentOf(path) = NULL
  BY DEF ParentOf
<1>3. Len(path) # 0 => ParentOf(path) = path[Len(path)]
  <2> SUFFICES ASSUME Len(path) # 0 PROVE ParentOf(path) = path[Len(path)]
    OBVIOUS
  <2>1. path # <<>>
    OBVIOUS
  <2> QED
    BY <2>1 DEF ParentOf, Last
<1>4. Len(path) # 0 => Len(path) \in 1 .. Len(path)
  BY <1>1
<1> QED
  BY <1>1, <1>2, <1>3, <1>4

LEMMA ChainStays ==
    ASSUME NEW t, NEW D, NULL \notin D, NEW n, NEW path, Leads(t, D, path, n),
           NEW p, p = ParentOf(path), NEW S, S = D \ {n},
           NEW u, p # NULL => u.root = t.root,
           \A m \in S \ {p} : \A q \in S : Below(t, D, q, m) => Below(u, S, q, m)
    PROVE  OnceEach(path, S) /\ Chain(u, S, path, Len(path))
<1>1. path \in Seq(D) /\ (\A i \in 1 .. Len(path) : path[i] # n) /\ Chain(t, D, path, Len(path))
  BY DEF Leads, OnceEach
<1>2. /\ Len(path) \in Nat /\ \A i \in 1 .. Len(path) : path[i] \in D
      /\ Len(path) # 0 => p = path[Len(path)] /\ Len(path) \in 1 .. Len(path)
  BY <1>1, ParentLast
<1>3. \A i \in 1 .. Len(path) : path[i] \in S
  BY <1>1, <1>2
<1>4. path \in Seq(S)
  BY <1>1, <1>3
<1>5. OnceEach(path, S)
  BY <1>4 DEF Leads, OnceEach
<1>6. Len(path) > 0 => path[1] = u.root
  <2> SUFFICES ASSUME Len(path) > 0 PROVE path[1] = u.root
    OBVIOUS
  <2>1. p \in D
    BY <1>2
  <2>2. path[1] = t.root
    BY <1>1 DEF Chain
  <2> QED
    BY <2>1, <2>2
<1>7. ASSUME NEW j \in 1 .. (Len(path) - 1) PROVE Below(u, S, path[j + 1], path[j])
  <2>1. j \in 1 .. Len(path) /\ j + 1 \in 1 .. Len(path) /\ Len(path) # 0 /\ j # Len(path)
    BY <1>2
  <2>2. Below(t, D, path[j + 1], path[j])
    BY <1>1 DEF Chain
  <2>3. path[j] # p
    BY <1>2, <2>1 DEF Leads, OnceEach
  <2>4. path[j] \in S \ {p} /\ path[j + 1] \in S
    BY <1>3, <2>1, <2>3
  <2> QED
    BY Zenon, <2>2, <2>4
<1> QED
  BY Zenon, <1>5, <1>6, <1>7 DEF Chain

LEMMA RightLiftUnlinks ==
    ASSUME NEW t, NEW D, NEW pos, NEW lo, NEW hi, NEW up, NEW h, Sound(t, D, pos, lo, hi, up, h),
           NEW n, ~t.node[n].left_child, NEW path, Leads(t, D, path, n), NEW p, p = ParentOf(path),
           NEW x, x = IF t.node[n].right_child THEN NextNode(t, n) ELSE NULL,
           NEW u, Kin(t, u, D), RightLifted(t, u, D, n, p, x), Lightened(t, u, D, n, p),
           NEW S, S = D \ {n}, NEW pos2, pos2 = Kept(S, pos)
    PROVE  Unlinked(t, u, D, S, pos2, path)
<1>1. n \in D /\ Below(t, D, n, p) /\ OnceEach(path, D)
  BY DEF Leads
<1>2. Shape(t, D, pos, lo, hi, up) /\ Settled(t, D, h) /\ NULL \notin D
  BY SoundParts
<1>3. OnlyThread(t, D, lo, n, x, p)
  BY <1>1, NextThread
<1>4. \A m \in D : hi[m] # n
  BY <1>1, NoSide
<1>5. PICK lo2, hi2, up2, k : /\ lo2 = Past(S, lo, n, lo[n]) /\ hi2 = Kept(S, hi)
                              /\ up2 = Past(S, up, n, p) /\ k = Kept(S, h)
  OBVIOUS
<1>6. Shape(u, S, pos2, lo2, hi2, up2)
  BY <1>1, <1>2, <1>3, <1>4, <1>5, RightLiftShape
<1>7. (p = NULL => Settled(u, S, k)) /\ (p # NULL => Unsettled(u, S, k, p, 1))
  BY <1>1, <1>2, <1>3, <1>5, RightLiftHeights
<1>8. OnceEach(path, S) /\ Chain(u, S, path, Len(path))
  <2>1. p # NULL => u.root = t.root
    BY DEF RightLifted
  <2>2. ASSUME NEW m \in S \ {p}, NEW q \in S, Below(t, D, q, m) PROVE Below(u, S, q, m)
    <3>1. m # NULL /\ m \in S /\ (LeftOf(t, q, m) \/ RightOf(t, q, m))
      BY <1>2, <2>2 DEF Below
    <3>2. CASE m = x
      <4>1. ~t.node[m].left_child /\ Sides(u.node[m], t.node[n].left, FALSE, t.node[m].right, t.node[m].right_child)
        BY Zenon, <1>3, <3>1, <3>2 DEF RightLifted, OnlyThread
      <4> QED
        BY <3>1, <4>1 DEF Below, LeftOf, RightOf, Sides
    <3>3. CASE m # x
      <4>1. SameSides(t, u, m)
        BY <3>3 DEF RightLifted
      <4> QED
        BY <3>1, <4>1 DEF Below, LeftOf, RightOf, SameSides, Sides
    <3> QED
      BY <3>2, <3>3
  <2> QED
    BY Zenon, <1>2, <2>1, <2>2, ChainStays
<1>9. path \in Seq(D) /\ (Len(path) = 0 => p = NULL) /\ (Len(path) # 0 => p = path[Len(path)] /\ p \in D)
  <2>1. path \in Seq(D)
    BY <1>1 DEF OnceEach
  <2> QED
    BY <2>1, ParentLast
<1>10. IF Len(path) = 0 THEN \E g : Settled(u, S, g)
                        ELSE \E g : Unsettled(u, S, g, path[Len(path)], 1)
  BY Zenon, <1>2, <1>7, <1>9
<1> QED
  BY Zenon, <1>6, <1>8, <1>10 DEF Unlinked

LEMMA LeftLiftUnlinks ==
    ASSUME NEW t, NEW D, NEW pos, NEW lo, NEW hi, NEW up, NEW h, Sound(t, D, pos, lo, hi, up, h),
           NEW n, ~t.node[n].right_child, NEW path, Leads(t, D, path, n), NEW p, p = ParentOf(path),
           NEW x, x = IF t.node[n].left_child THEN PreviousNode(t, n) ELSE NULL,
           NEW u, Kin(t, u, D), LeftLifted(t, u, D, n, p, x), Lightened(t, u, D, n, p),
           NEW S, S = D \ {n}, NEW pos2, pos2 = Kept(S, pos)
    PROVE  Unlinked(t, u, D, S, pos2, path)
<1>1. n \in D /\ Below(t, D, n, p) /\ OnceEach(path, D)
  BY DEF Leads
<1>2. Shape(t, D, pos, lo, hi, up) /\ Settled(t, D, h) /\ NULL \notin D
  BY SoundParts
<1>3. OnlyThreadBack(t, D, hi, n, x, p)
  BY <1>1, PreviousThread
<1>4. \A m \in D : lo[m] # n
  BY <1>1, NoSide
<1>5. PICK k : k = Kept(S, h)
  OBVIOUS
<1>6. \E lo2, hi2, up2 : Shape(u, S, pos2, lo2, hi2, up2)
  BY <1>1, <1>2, <1>3, <1>4, LeftLiftShape
<1>7. (p = NULL => Settled(u, S, k)) /\ (p # NULL => Unsettled(u, S, k, p, 1))
  BY <1>1, <1>2, <1>3, <1>5, LeftLiftHeights
<1>8. OnceEach(path, S) /\ Chain(u, S, path, Len(path))
  <2>1. p # NULL => u.root = t.root
    BY DEF LeftLifted
  <2>2. ASSUME NEW m \in S \ {p}, NEW q \in S, Below(t, D, q, m) PROVE Below(u, S, q, m)
    <3>1. m # NULL /\ m \in S /\ (LeftOf(t, q, m) \/ RightOf(t, q, m))
      BY <1>2, <2>2 DEF Below
    <3>2. CASE m = x
      <4>1. ~t.node[m].right_child /\ Sides(u.node[m], t.node[m].left, t.node[m].left_child, t.node[n].right, FALSE)
        BY Zenon, <1>3, <3>1, <3>2 DEF LeftLifted, OnlyThreadBack
      <4> QED
        BY <3>1, <4>1 DEF Below, LeftOf, RightOf, Sides
    <3>3. CASE m # x
      <4>1. SameSides(t, u, m)
        BY <3>3 DEF LeftLifted
      <4> QED
        BY <3>1, <4>1 DEF Below, LeftOf, RightOf, SameSides, Sides
    <3> QED
      BY <3>2, <3>3
  <2> QED
    BY Zenon, <1>2, <2>1, <2>2, ChainStays
<1>9. path \in Seq(D) /\ (Len(path) = 0 => p = NULL) /\ (Len(path) # 0 => p = path[Len(path)] /\ p \in D)
  <2>1. path \in Seq(D)
    BY <1>1 DEF OnceEach
  <2> QED
    BY <2>1, ParentLast
<1>10. IF Len(path) = 0 THEN \E g : Settled(u, S, g)
                        ELSE \E g : Unsettled(u, S, g, path[Len(path)], 1)
  BY Zenon, <1>2, <1>7, <1>9
<1> QED
  BY Zenon, <1>6, <1>8, <1>10 DEF Unlinked

-----------------------------------------------------------------------------
(* A node under another name: r maps the nodes S of t to the nodes R of u,   *)
(* and q maps them back.                                                    *)

Renames(r, q, S, R) ==
    /\ NULL \notin S /\ NULL \notin R
    /\ r \in [S \cup {NULL} -> R \cup {NULL}] /\ q \in [R \cup {NULL} -> S \cup {NULL}]
    /\ r[NULL] = NULL /\ q[NULL] = NULL
    /\ \A m \in S \cup {NULL} : q[r[m]] = m
    /\ \A m \in R \cup {NULL} : r[q[m]] = m
Renamed(t, u, R, r, q) ==
    /\ u.root = r[t.root]
    /\ \A m \in R :
         /\ Sides(u.node[m], r[t.node[q[m]].left], t.node[q[m]].left_child,
                             r[t.node[q[m]].right], t.node[q[m]].right_child)
         /\ u.node[m].balance = t.node[q[m]].balance
Reordered(S, R, r, pos, pos2) ==
    /\ pos2 \in [R -> Int]
    /\ \A a, b \in S : pos[a] < pos[b] <=> pos2[r[a]] < pos2[r[b]]

LEMMA RenamesBack ==
    ASSUME NEW r, NEW q, NEW S, NEW R, Renames(r, q, S, R)
    PROVE  /\ \A m \in S : r[m] \in R /\ q[r[m]] = m
           /\ \A m \in R : q[m] \in S /\ r[q[m]] = m
           /\ \A m \in S \cup {NULL} : r[m] \in R \cup {NULL} /\ (r[m] = NULL => m = NULL)
           /\ r[NULL] = NULL
<1>1. \A m \in S \cup {NULL} : r[m] \in R \cup {NULL} /\ (r[m] = NULL => m = NULL)
  BY DEF Renames
<1>2. ASSUME NEW m \in R PROVE q[m] \in S
  <2>1. q[m] \in S \cup {NULL} /\ r[q[m]] = m /\ m # NULL
    BY DEF Renames
  <2>2. q[m] # NULL
    BY <2>1 DEF Renames
  <2> QED
    BY <2>1, <2>2
<1> QED
  BY <1>1, <1>2 DEF Renames

LEMMA RenamedOrder ==
    ASSUME NEW r, NEW q, NEW S, NEW R, Renames(r, q, S, R),
           NEW pos, NEW pos2, Reordered(S, R, r, pos, pos2),
           NEW a \in S \cup {NULL}, NEW b \in S \cup {NULL}
    PROVE  /\ Before(pos, a, b) => Before(pos2, r[a], r[b])
           /\ Adjacent(S, pos, a, b) => Adjacent(R, pos2, r[a], r[b])
<1>0. /\ \A m \in S \cup {NULL} : r[m] \in R \cup {NULL} /\ (r[m] = NULL => m = NULL)
      /\ \A m \in R : q[m] \in S /\ r[q[m]] = m
  BY RenamesBack
<1>1. Before(pos, a, b) => Before(pos2, r[a], r[b])
  <2> SUFFICES ASSUME Before(pos, a, b), r[a] # NULL, r[b] # NULL PROVE pos2[r[a]] < pos2[r[b]]
    BY DEF Before
  <2>1. a # NULL /\ b # NULL
    BY RenamesBack
  <2>2. a \in S /\ b \in S /\ pos[a] < pos[b]
    BY <2>1 DEF Before
  <2> QED
    BY <2>2 DEF Reordered
<1>2. Adjacent(S, pos, a, b) => Adjacent(R, pos2, r[a], r[b])
  <2> SUFFICES ASSUME Adjacent(S, pos, a, b), NEW m \in R,
                      r[a] # NULL => pos2[r[a]] < pos2[m], r[b] # NULL => pos2[m] < pos2[r[b]]
               PROVE  FALSE
    BY DEF Adjacent
  <2>1. q[m] \in S /\ r[q[m]] = m
    BY <1>0
  <2>2. a # NULL => pos[a] < pos[q[m]]
    <3> SUFFICES ASSUME a # NULL PROVE pos[a] < pos[q[m]]
      OBVIOUS
    <3>1. a \in S /\ r[a] # NULL
      BY <1>0
    <3>2. pos2[r[a]] < pos2[r[q[m]]]
      BY <2>1, <3>1
    <3> QED
      BY <2>1, <3>1, <3>2 DEF Reordered
  <2>3. b # NULL => pos[q[m]] < pos[b]
    <3> SUFFICES ASSUME b # NULL PROVE pos[q[m]] < pos[b]
      OBVIOUS
    <3>1. b \in S /\ r[b] # NULL
      BY <1>0
    <3>2. pos2[r[q[m]]] < pos2[r[b]]
      BY <2>1, <3>1
    <3> QED
      BY <2>1, <3>1, <3>2 DEF Reordered
  <2> QED
    BY <2>1, <2>2, <2>3 DEF Adjacent
<1> QED
  BY <1>1, <1>2

Carried(R, r, q, f) == [m \in R |-> r[f[q[m]]]]

LEMMA RenamedShape ==
    ASSUME NEW r, NEW q, NEW S, NEW R, Renames(r, q, S, R),
           NEW t, NEW pos, NEW lo, NEW hi, NEW up, Shape(t, S, pos, lo, hi, up),
           NEW u, Renamed(t, u, R, r, q), NEW pos2, Reordered(S, R, r, pos, pos2),
           NEW lo2, lo2 = Carried(R, r, q, lo), NEW hi2, hi2 = Carried(R, r, q, hi),
           NEW up2, up2 = Carried(R, r, q, up)
    PROVE  Shape(u, R, pos2, lo2, hi2, up2)
<1>1. /\ \A m \in S : r[m] \in R /\ q[r[m]] = m
      /\ \A m \in R : q[m] \in S /\ r[q[m]] = m
      /\ \A m \in S \cup {NULL} : r[m] \in R \cup {NULL} /\ (r[m] = NULL => m = NULL)
      /\ r[NULL] = NULL
  BY RenamesBack
<1>2. /\ NULL \notin S /\ NULL \notin R /\ \A m \in S : pos[m] \in Int
      /\ \A m, n \in S : pos[m] = pos[n] => m = n
      /\ \A m \in S : lo[m] \in S \cup {NULL} /\ hi[m] \in S \cup {NULL} /\ up[m] \in S \cup {NULL}
      /\ \A m \in S : LeftPlaced(t, S, pos, lo, hi, up, m) /\ RightPlaced(t, S, pos, lo, hi, up, m)
  BY DEF Shape, Ghosts, Placed, Renames
<1>3. \A m \in R : lo2[m] = r[lo[q[m]]] /\ hi2[m] = r[hi[q[m]]] /\ up2[m] = r[up[q[m]]]
  BY DEF Carried
<1>4. \A m \in S : lo2[r[m]] = r[lo[m]] /\ hi2[r[m]] = r[hi[m]] /\ up2[r[m]] = r[up[m]]
  BY <1>1, <1>3
<1>5. Ghosts(R, pos2, lo2, hi2, up2)
  <2>1. pos2 \in [R -> Int]
    BY DEF Reordered
  <2>2. ASSUME NEW a \in R, NEW b \in R, pos2[a] = pos2[b] PROVE a = b
    <3>1. q[a] \in S /\ q[b] \in S /\ r[q[a]] = a /\ r[q[b]] = b
      BY <1>1
    <3>2. pos2[a] \in Int /\ pos2[b] \in Int
      BY <2>1
    <3>3. ~(pos2[a] < pos2[b]) /\ ~(pos2[b] < pos2[a])
      BY <2>2, <3>2
    <3>4. ~(pos[q[a]] < pos[q[b]]) /\ ~(pos[q[b]] < pos[q[a]])
      BY <3>1, <3>3 DEF Reordered
    <3>5. pos[q[a]] \in Int /\ pos[q[b]] \in Int
      BY <1>2, <3>1
    <3>6. pos[q[a]] = pos[q[b]]
      BY <3>4, <3>5
    <3>7. q[a] = q[b]
      BY <1>2, <3>1, <3>6
    <3> QED
      BY <3>1, <3>7
  <2>3. \A m \in R : lo2[m] \in R \cup {NULL} /\ hi2[m] \in R \cup {NULL} /\ up2[m] \in R \cup {NULL}
    BY <1>1, <1>2, <1>3
  <2>4. lo2 \in [R -> R \cup {NULL}] /\ hi2 \in [R -> R \cup {NULL}] /\ up2 \in [R -> R \cup {NULL}]
    BY <2>3 DEF Carried
  <2> QED
    BY <1>2, <2>1, <2>2, <2>4 DEF Ghosts
<1>6. Rooted(u, R, lo2, hi2, up2)
  <2>1. u.root = r[t.root]
    BY DEF Renamed
  <2>2. CASE S = {}
    <3>1. t.root = NULL
      BY <2>2 DEF Shape, Rooted
    <3>2. R = {}
      BY <1>1, <2>2
    <3> QED
      BY <1>1, <2>1, <3>1, <3>2 DEF Rooted
  <2>3. CASE S # {}
    <3>1. t.root \in S /\ lo[t.root] = NULL /\ hi[t.root] = NULL /\ up[t.root] = NULL
      BY <2>3 DEF Shape, Rooted
    <3>2. u.root \in R /\ lo2[u.root] = NULL /\ hi2[u.root] = NULL /\ up2[u.root] = NULL
      BY <1>1, <1>4, <2>1, <3>1
    <3> QED
      BY <3>2 DEF Rooted
  <2> QED
    BY <2>2, <2>3
<1>7. ASSUME NEW m \in R PROVE LeftPlaced(u, R, pos2, lo2, hi2, up2, m)
  <2>1. PICK w \in S : w = q[m] /\ r[w] = m
    BY <1>1
  <2>2. u.node[m].left = r[t.node[w].left] /\ u.node[m].left_child = t.node[w].left_child
    BY <2>1 DEF Renamed, Sides
  <2>3. LeftPlaced(t, S, pos, lo, hi, up, w) /\ lo[w] \in S \cup {NULL} /\ lo2[m] = r[lo[w]]
    BY <1>2, <1>3, <2>1
  <2>4. Before(pos2, lo2[m], m)
    <3>1. Before(pos, lo[w], w)
      BY <2>3 DEF LeftPlaced
    <3>2. Before(pos2, r[lo[w]], r[w])
      BY <2>3, <3>1, RenamedOrder
    <3> QED
      BY <2>1, <2>3, <3>2
  <2>5. CASE t.node[w].left_child
    <3>1. PICK l \in S : l = t.node[w].left
      BY <2>3, <2>5 DEF LeftPlaced
    <3>2. up[l] = w /\ lo[l] = lo[w] /\ hi[l] = w
      BY <2>3, <2>5, <3>1 DEF LeftPlaced
    <3>3. r[l] \in R /\ up2[r[l]] = m /\ lo2[r[l]] = lo2[m] /\ hi2[r[l]] = m
      BY <1>1, <1>4, <2>1, <2>3, <3>2
    <3> QED
      BY <2>2, <2>4, <2>5, <3>1, <3>3 DEF LeftPlaced
  <2>6. CASE ~t.node[w].left_child
    <3>1. t.node[w].left = lo[w] /\ Adjacent(S, pos, lo[w], w)
      BY <2>3, <2>6 DEF LeftPlaced
    <3>2. Adjacent(R, pos2, r[lo[w]], r[w])
      BY <2>3, <3>1, RenamedOrder
    <3>3. Adjacent(R, pos2, lo2[m], m) /\ u.node[m].left = lo2[m]
      BY <2>1, <2>2, <2>3, <3>1, <3>2
    <3> QED
      BY <2>2, <2>4, <2>6, <3>3 DEF LeftPlaced
  <2> QED
    BY <2>5, <2>6
<1>8. ASSUME NEW m \in R PROVE RightPlaced(u, R, pos2, lo2, hi2, up2, m)
  <2>1. PICK w \in S : w = q[m] /\ r[w] = m
    BY <1>1
  <2>2. u.node[m].right = r[t.node[w].right] /\ u.node[m].right_child = t.node[w].right_child
    BY <2>1 DEF Renamed, Sides
  <2>3. RightPlaced(t, S, pos, lo, hi, up, w) /\ hi[w] \in S \cup {NULL} /\ hi2[m] = r[hi[w]]
    BY <1>2, <1>3, <2>1
  <2>4. Before(pos2, m, hi2[m])
    <3>1. Before(pos, w, hi[w])
      BY <2>3 DEF RightPlaced
    <3>2. Before(pos2, r[w], r[hi[w]])
      BY <2>3, <3>1, RenamedOrder
    <3> QED
      BY <2>1, <2>3, <3>2
  <2>5. CASE t.node[w].right_child
    <3>1. PICK l \in S : l = t.node[w].right
      BY <2>3, <2>5 DEF RightPlaced
    <3>2. up[l] = w /\ lo[l] = w /\ hi[l] = hi[w]
      BY <2>3, <2>5, <3>1 DEF RightPlaced
    <3>3. r[l] \in R /\ up2[r[l]] = m /\ lo2[r[l]] = m /\ hi2[r[l]] = hi2[m]
      BY <1>1, <1>4, <2>1, <2>3, <3>2
    <3> QED
      BY <2>2, <2>4, <2>5, <3>1, <3>3 DEF RightPlaced
  <2>6. CASE ~t.node[w].right_child
    <3>1. t.node[w].right = hi[w] /\ Adjacent(S, pos, w, hi[w])
      BY <2>3, <2>6 DEF RightPlaced
    <3>2. Adjacent(R, pos2, r[w], r[hi[w]])
      BY <2>3, <3>1, RenamedOrder
    <3>3. Adjacent(R, pos2, m, hi2[m]) /\ u.node[m].right = hi2[m]
      BY <2>1, <2>2, <2>3, <3>1, <3>2
    <3> QED
      BY <2>2, <2>4, <2>6, <3>3 DEF RightPlaced
  <2> QED
    BY <2>5, <2>6
<1> QED
  BY <1>5, <1>6, <1>7, <1>8 DEF Shape, Placed

Carried1(R, q, h) == [m \in R |-> h[q[m]]]
LEMMA RenamedHeights ==
    ASSUME NEW r, NEW q, NEW S, NEW R, Renames(r, q, S, R),
           NEW t, NEW pos, NEW lo, NEW hi, NEW up, Shape(t, S, pos, lo, hi, up),
           NEW u, Renamed(t, u, R, r, q), NEW h, NEW k, k = Carried1(R, q, h)
    PROVE  /\ Settled(t, S, h) => Settled(u, R, k)
           /\ \A x, e : Unsettled(t, S, h, x, e) => Unsettled(u, R, k, r[x], e)
<1>1. /\ \A m \in S : r[m] \in R /\ q[r[m]] = m
      /\ \A m \in R : q[m] \in S /\ r[q[m]] = m
  BY RenamesBack
<1>2. \A m \in R : k[m] = h[q[m]]
  BY DEF Carried1
<1>3. h \in [S -> Nat] => k \in [R -> Nat]
  BY <1>1 DEF Carried1
<1>4. ASSUME NEW m \in R
      PROVE  /\ u.node[m].balance = t.node[q[m]].balance
             /\ LeftHeight(u, k, m) = LeftHeight(t, h, q[m])
             /\ RightHeight(u, k, m) = RightHeight(t, h, q[m])
  <2>1. PICK w \in S : w = q[m]
    BY <1>1
  <2>2. /\ u.node[m].left = r[t.node[w].left] /\ u.node[m].left_child = t.node[w].left_child
        /\ u.node[m].right = r[t.node[w].right] /\ u.node[m].right_child = t.node[w].right_child
        /\ u.node[m].balance = t.node[w].balance
    BY <2>1 DEF Renamed, Sides
  <2>3. /\ t.node[w].left_child => t.node[w].left \in S
        /\ t.node[w].right_child => t.node[w].right \in S
    BY DEF Shape, Placed, LeftPlaced, RightPlaced
  <2>4. LeftHeight(u, k, m) = LeftHeight(t, h, w)
    BY <1>1, <1>2, <2>2, <2>3 DEF LeftHeight
  <2>5. RightHeight(u, k, m) = RightHeight(t, h, w)
    BY <1>1, <1>2, <2>2, <2>3 DEF RightHeight
  <2> QED
    BY <2>1, <2>2, <2>4, <2>5
<1>5. ASSUME NEW m \in R, Level(t, h, q[m]) PROVE Level(u, k, m)
  BY <1>2, <1>4, <1>5 DEF Level, Exact, Tall
<1>6. Settled(t, S, h) => Settled(u, R, k)
  BY <1>1, <1>3, <1>5 DEF Settled
<1>7. ASSUME NEW x, NEW e, Unsettled(t, S, h, x, e) PROVE Unsettled(u, R, k, r[x], e)
  <2>1. h \in [S -> Nat] /\ x \in S /\ e \in {0, 1} /\ \A m \in S \ {x} : Level(t, h, m)
    BY <1>7 DEF Unsettled
  <2>2. PICK y \in R : y = r[x] /\ q[y] = x
    BY <1>1, <2>1
  <2>3. \A m \in R \ {y} : Level(u, k, m)
    BY <1>1, <1>5, <2>1, <2>2
  <2>4. /\ u.node[y].balance = t.node[x].balance /\ k[y] = h[x]
        /\ LeftHeight(u, k, y) = LeftHeight(t, h, x)
        /\ RightHeight(u, k, y) = RightHeight(t, h, x)
    BY <1>2, <1>4, <2>2
  <2>5. /\ Exact(t, h, x) /\ t.node[x].balance \in -2 .. 2
        /\ h[x] = 1 + Taller(LeftHeight(t, h, x), RightHeight(t, h, x))
                    + e - (IF t.node[x].balance = 0 THEN 0 ELSE 1)
    BY <1>7 DEF Unsettled
  <2>6. Exact(u, k, y)
    BY <2>4, <2>5 DEF Exact
  <2>7. Unsettled(u, R, k, y, e)
    BY <1>3, <2>1, <2>3, <2>4, <2>5, <2>6 DEF Unsettled
  <2> QED
    BY <2>2, <2>7
<1> QED
  BY <1>6, <1>7

RenamedWay(r, way) == [i \in 1 .. Len(way) |-> r[way[i]]]
LEMMA RenamedChain ==
    ASSUME NEW r, NEW q, NEW S, NEW R, Renames(r, q, S, R),
           NEW t, NEW u, Renamed(t, u, R, r, q),
           NEW way, OnceEach(way, S), Chain(t, S, way, Len(way)),
           NEW way2, way2 = RenamedWay(r, way)
    PROVE  /\ Len(way2) = Len(way) /\ \A i \in 1 .. Len(way) : way2[i] = r[way[i]]
           /\ OnceEach(way2, R) /\ Chain(u, R, way2, Len(way2))
<1>1. /\ \A m \in S : r[m] \in R /\ q[r[m]] = m
      /\ \A m \in R : q[m] \in S /\ r[q[m]] = m
  BY RenamesBack
<1>2. /\ way \in Seq(S) /\ Len(way) \in Nat /\ \A i \in 1 .. Len(way) : way[i] \in S
      /\ \A i, j \in 1 .. Len(way) : way[i] = way[j] => i = j
  BY DEF OnceEach
<1>3. \A i \in 1 .. Len(way) : way2[i] = r[way[i]]
  BY DEF RenamedWay
<1>4. way2 \in Seq(R) /\ Len(way2) = Len(way)
  <2>1. \A i \in 1 .. Len(way) : r[way[i]] \in R
    BY <1>1, <1>2
  <2>2. way2 \in [1 .. Len(way) -> R]
    BY <2>1 DEF RenamedWay
  <2> QED
    BY <1>2, <2>2
<1>5. OnceEach(way2, R)
  <2>1. \A i, j \in 1 .. Len(way) : way2[i] = way2[j] => i = j
    BY <1>1, <1>2, <1>3
  <2> QED
    BY <1>4, <2>1 DEF OnceEach
<1>6. ASSUME NEW m \in S, NEW y \in S, Below(t, S, y, m) PROVE Below(u, R, r[y], r[m])
  <2>1. PICK z \in R : z = r[m] /\ q[z] = m
    BY <1>1
  <2>2. /\ u.node[z].left = r[t.node[m].left] /\ u.node[z].left_child = t.node[m].left_child
        /\ u.node[z].right = r[t.node[m].right] /\ u.node[z].right_child = t.node[m].right_child
    BY <2>1 DEF Renamed, Sides
  <2>3. m # NULL /\ z # NULL
    BY DEF Renames
  <2>4. LeftOf(t, y, m) \/ RightOf(t, y, m)
    BY <1>6, <2>3 DEF Below
  <2>5. LeftOf(u, r[y], z) \/ RightOf(u, r[y], z)
    BY <2>2, <2>4 DEF LeftOf, RightOf
  <2> QED
    BY <2>1, <2>3, <2>5 DEF Below
<1>7. Len(way) > 0 => way2[1] = u.root
  <2>1. u.root = r[t.root]
    BY DEF Renamed
  <2>2. Len(way) > 0 => way[1] = t.root
    BY DEF Chain
  <2> QED
    BY <1>2, <1>3, <2>1, <2>2
<1>8. ASSUME NEW j \in 1 .. Len(way) - 1 PROVE Below(u, R, way2[j + 1], way2[j])
  <2>1. j \in 1 .. Len(way) /\ j + 1 \in 1 .. Len(way)
    BY <1>2
  <2>2. Below(t, S, way[j + 1], way[j])
    BY DEF Chain
  <2>3. way[j] \in S /\ way[j + 1] \in S
    BY <1>2, <2>1
  <2> QED
    BY <1>3, <1>6, <2>1, <2>2, <2>3
<1> QED
  BY <1>3, <1>4, <1>5, <1>7, <1>8 DEF Chain

LEMMA RenamedUnlinked ==
    ASSUME NEW r, NEW q, NEW S, NEW R, Renames(r, q, S, R),
           NEW t, NEW v, NEW D, NEW pos, NEW way, Unlinked(t, v, D, S, pos, way),
           NEW u, Kin(t, u, D), Renamed(v, u, R, r, q),
           NEW pos2, Reordered(S, R, r, pos, pos2), NEW way2, way2 = RenamedWay(r, way)
    PROVE  Unlinked(t, u, D, R, pos2, way2)
<1>1. PICK lo, hi, up : Shape(v, S, pos, lo, hi, up)
  BY DEF Unlinked
<1>2. OnceEach(way, S) /\ Chain(v, S, way, Len(way))
  BY DEF Unlinked
<1>3. /\ Len(way2) = Len(way) /\ \A i \in 1 .. Len(way) : way2[i] = r[way[i]]
      /\ OnceEach(way2, R) /\ Chain(u, R, way2, Len(way2))
  BY <1>2, RenamedChain
<1>4. \E lo2, hi2, up2 : Shape(u, R, pos2, lo2, hi2, up2)
  BY <1>1, RenamedShape
<1>5. CASE Len(way) = 0
  <2>1. PICK h : Settled(v, S, h)
    BY <1>5 DEF Unlinked
  <2>2. Settled(u, R, Carried1(R, q, h))
    BY <1>1, <2>1, RenamedHeights
  <2> QED
    BY <1>3, <1>4, <1>5, <2>2 DEF Unlinked
<1>6. CASE Len(way) # 0
  <2>1. PICK h : Unsettled(v, S, h, way[Len(way)], 1)
    BY <1>6 DEF Unlinked
  <2>2. Unsettled(u, R, Carried1(R, q, h), r[way[Len(way)]], 1)
    BY <1>1, <2>1, RenamedHeights
  <2>3. Len(way) \in 1 .. Len(way)
    BY <1>2, <1>6 DEF OnceEach
  <2>4. way2[Len(way2)] = r[way[Len(way)]]
    BY <1>3, <2>3
  <2> QED
    BY <1>3, <1>4, <1>6, <2>2, <2>4 DEF Unlinked
<1> QED
  BY <1>5, <1>6

-----------------------------------------------------------------------------
(* The node with two children: its successor moves into its place.          *)

NodeSet(t, n, y) == [t EXCEPT !.node[n] = y]
LEMMA NodeReshapes ==
    ASSUME NEW t, NEW E, TreeType(t, E), NEW n \in E, NEW x \in E \cup {NULL},
           NEW kid \in BOOLEAN, NEW w \in Int, NEW y, NEW u, u = NodeSet(t, n, y)
    PROVE  /\ y = LiftLeft(t.node[n], x, kid, w) =>
                 Reshaped(t, u, E, n, x, kid, t.node[n].right, t.node[n].right_child,
                          t.node[n].balance + w)
           /\ y = TakeRight(t.node[n], x, w) =>
                 Reshaped(t, u, E, n, t.node[n].left, t.node[n].left_child, x, TRUE, w)
           /\ y = TakeLeft(t.node[n], x) =>
                 Reshaped(t, u, E, n, x, TRUE, t.node[n].right, t.node[n].right_child,
                          t.node[n].balance)
           /\ y = PutRight(t.node[n], x) =>
                 Reshaped(t, u, E, n, t.node[n].left, t.node[n].left_child, x,
                          t.node[n].right_child, t.node[n].balance)
           /\ y = Weigh(t.node[n], w) =>
                 Reshaped(t, u, E, n, t.node[n].left, t.node[n].left_child, t.node[n].right,
                          t.node[n].right_child, w)
<1>1. PICK a : a = t.node[n]
  OBVIOUS
<1>2. \E K, V, L : a \in Node(K, V, L)
  BY <1>1 DEF TreeType, Trees
<1>3. /\ LiftLeft(a, x, kid, w) = NodeWith(a, x, kid, a.right, a.right_child, a.balance + w)
      /\ TakeRight(a, x, w) = NodeWith(a, a.left, a.left_child, x, TRUE, w)
      /\ TakeLeft(a, x) = NodeWith(a, x, TRUE, a.right, a.right_child, a.balance)
      /\ PutRight(a, x) = NodeWith(a, a.left, a.left_child, x, a.right_child, a.balance)
      /\ Weigh(a, w) = NodeWith(a, a.left, a.left_child, a.right, a.right_child, w)
  <2>1. LiftLeft(a, x, kid, w) = NodeWith(a, x, kid, a.right, a.right_child, a.balance + w)
    BY <1>2, LiftWhole
  <2>2. TakeRight(a, x, w) = NodeWith(a, a.left, a.left_child, x, TRUE, w)
    BY Zenon, <1>2, TakeWhole
  <2>3. TakeLeft(a, x) = NodeWith(a, x, TRUE, a.right, a.right_child, a.balance)
    BY Zenon, <1>2, NodeWhole
  <2>4. PutRight(a, x) = NodeWith(a, a.left, a.left_child, x, a.right_child, a.balance)
    BY Zenon, <1>2, NodeWhole
  <2>5. Weigh(a, w) = NodeWith(a, a.left, a.left_child, a.right, a.right_child, w)
    BY <1>2, WeighWhole
  <2> QED
    BY Zenon, <2>1, <2>2, <2>3, <2>4, <2>5
<1>4. /\ a.left \in E \cup {NULL} /\ a.right \in E \cup {NULL} /\ TRUE \in BOOLEAN
      /\ a.left_child \in BOOLEAN /\ a.right_child \in BOOLEAN /\ a.balance \in Int
  BY <1>1, Fields
<1>5. a.balance + w \in Int
  BY <1>4
<1>6. ASSUME NEW left \in E \cup {NULL}, NEW left_child \in BOOLEAN,
             NEW right \in E \cup {NULL}, NEW right_child \in BOOLEAN, NEW balance \in Int,
             y = NodeWith(a, left, left_child, right, right_child, balance)
      PROVE  Reshaped(t, u, E, n, left, left_child, right, right_child, balance)
  <2>1. y = NodeWith(t.node[n], left, left_child, right, right_child, balance)
    BY <1>1, <1>6
  <2> QED
    BY Zenon, <2>1, NodeReshaped DEF NodeSet
<1>7. y = LiftLeft(a, x, kid, w) =>
         Reshaped(t, u, E, n, x, kid, a.right, a.right_child, a.balance + w)
  BY Zenon, <1>3, <1>4, <1>5, <1>6
<1>8. y = TakeRight(a, x, w) => Reshaped(t, u, E, n, a.left, a.left_child, x, TRUE, w)
  BY Zenon, <1>3, <1>4, <1>6
<1>9. y = TakeLeft(a, x) => Reshaped(t, u, E, n, x, TRUE, a.right, a.right_child, a.balance)
  BY Zenon, <1>3, <1>4, <1>6
<1>10. y = PutRight(a, x) =>
          Reshaped(t, u, E, n, a.left, a.left_child, x, a.right_child, a.balance)
  BY Zenon, <1>3, <1>4, <1>6
<1>11. y = Weigh(a, w) =>
          Reshaped(t, u, E, n, a.left, a.left_child, a.right, a.right_child, w)
  BY Zenon, <1>3, <1>4, <1>6
<1> QED
  BY Zenon, <1>1, <1>7, <1>8, <1>9, <1>10, <1>11

\* next has left its place below nextp, which is n when next is its child.
Took(t, b, D, n, next, nextp) ==
    /\ Kin(t, b, D) /\ b.root = t.root
    /\ \A m \in D \ {next, nextp} : b.node[m] = t.node[m]
    /\ nextp = n =>
         /\ b.node[n] = t.node[n] /\ SameSides(t, b, next)
         /\ b.node[next].balance = t.node[n].balance - 1
    /\ nextp # n =>
         /\ Sides(b.node[next], t.node[next].left, t.node[next].left_child, t.node[n].right, TRUE)
         /\ b.node[next].balance = t.node[n].balance
         /\ Sides(b.node[nextp],
                  IF t.node[next].right_child THEN t.node[next].right ELSE t.node[nextp].left,
                  t.node[next].right_child, t.node[nextp].right, t.node[nextp].right_child)
         /\ b.node[nextp].balance = t.node[nextp].balance + 1

LEMMA TookOne ==
    ASSUME NEW t, NEW D, TreeType(t, D), NEW n \in D, NEW next \in D, next # n,
           NEW u, u = [t EXCEPT !.node[next].balance = t.node[n].balance - 1]
    PROVE  Took(t, u, D, n, next, n)
<1>1. t.node[n].balance \in Int /\ t.node[n].balance - 1 \in Int /\ DOMAIN t.node = D
  BY Fields
<1>2. PICK y : y = Weigh(t.node[next], t.node[n].balance - 1)
  OBVIOUS
<1>3. u = NodeSet(t, next, y)
  BY <1>2 DEF Weigh, NodeSet
<1>4. Reshaped(t, u, D, next, t.node[next].left, t.node[next].left_child, t.node[next].right,
               t.node[next].right_child, t.node[n].balance - 1)
  <2>1. FALSE \in BOOLEAN /\ NULL \in D \cup {NULL}
    OBVIOUS
  <2> QED
    BY Zenon, <1>1, <1>2, <1>3, <2>1, NodeReshapes
<1> QED
  BY <1>4 DEF Took, Reshaped, Kin, SameSides

Onto(t, next, nextp) ==
    IF t.node[next].right_child THEN t.node[next].right ELSE t.node[nextp].left

LEMMA TookMany ==
    ASSUME NEW t, NEW D, TreeType(t, D), NEW n \in D, NEW next \in D, next # n,
           NEW nextp \in D, nextp # n, nextp # next,
           NEW a, a = NodeSet(t, nextp, LiftLeft(t.node[nextp], Onto(t, next, nextp),
                                                 t.node[next].right_child, 1)),
           NEW u, u = NodeSet(a, next, TakeRight(t.node[next], t.node[n].right, t.node[n].balance))
    PROVE  Took(t, u, D, n, next, nextp)
<1>1. /\ t.node[n].balance \in Int /\ t.node[n].right \in D \cup {NULL} /\ DOMAIN t.node = D
      /\ t.node[next].right \in D \cup {NULL} /\ t.node[next].right_child \in BOOLEAN
      /\ t.node[nextp].left \in D \cup {NULL}
  BY Fields
<1>2. PICK x \in D \cup {NULL} : x = Onto(t, next, nextp)
  BY <1>1 DEF Onto
<1>3. PICK child \in BOOLEAN : child = t.node[next].right_child
  BY <1>1
<1>4. PICK y, z : /\ y = LiftLeft(t.node[nextp], x, child, 1)
                  /\ z = TakeRight(t.node[next], t.node[n].right, t.node[n].balance)
  OBVIOUS
<1>5. a = NodeSet(t, nextp, y) /\ u = NodeSet(a, next, z)
  BY <1>2, <1>3, <1>4
<1>6. Reshaped(t, a, D, nextp, x, child, t.node[nextp].right, t.node[nextp].right_child,
               t.node[nextp].balance + 1)
  <2>1. 1 \in Int /\ x \in D \cup {NULL} /\ child \in BOOLEAN
    BY SMTT(40), <1>2, <1>3
  <2> QED
    BY Zenon, <1>4, <1>5, <2>1, NodeReshapes
<1>7. TreeType(a, D) /\ a.node[next] = t.node[next]
  BY <1>6 DEF Reshaped
<1>8. z = TakeRight(a.node[next], t.node[n].right, t.node[n].balance)
  BY SMTT(40), <1>4, <1>7
<1>9. Reshaped(a, u, D, next, a.node[next].left, a.node[next].left_child, t.node[n].right, TRUE,
               t.node[n].balance)
  BY ZenonT(60), <1>1, <1>5, <1>7, <1>8, NodeReshapes
<1>10. /\ Sides(u.node[next], t.node[next].left, t.node[next].left_child, t.node[n].right, TRUE)
       /\ u.node[next].balance = t.node[n].balance
  BY Zenon, <1>7, <1>9 DEF Reshaped
<1>11. u.node[nextp] = a.node[nextp]
  BY ZenonT(60), <1>9 DEF Reshaped
<1>12. /\ Sides(u.node[nextp], x, child, t.node[nextp].right, t.node[nextp].right_child)
       /\ u.node[nextp].balance = t.node[nextp].balance + 1
  <2>1. /\ Sides(a.node[nextp], x, child, t.node[nextp].right, t.node[nextp].right_child)
        /\ a.node[nextp].balance = t.node[nextp].balance + 1
    BY Zenon, <1>6 DEF Reshaped
  <2> QED
    BY Zenon, <1>11, <2>1
<1>13. \A m \in D \ {next, nextp} : u.node[m] = t.node[m]
  BY ZenonT(60), <1>6, <1>9 DEF Reshaped
<1>14. Kin(t, u, D) /\ u.root = t.root
  BY ZenonT(60), <1>6, <1>9 DEF Reshaped, Kin, SameData
<1> QED
  BY Zenon, <1>2, <1>3, <1>10, <1>12, <1>13, <1>14 DEF Took, Onto

\* u is t with next in the place of n, prev and the parent p leading to it.
MovedIn(t, u, D, n, next, prev, nextp, p) ==
    /\ p = NULL => u.root = next
    /\ p # NULL =>
         /\ u.root = t.root
         /\ IF LeftOf(t, n, p)
            THEN Sides(u.node[p], next, t.node[p].left_child, t.node[p].right, t.node[p].right_child)
            ELSE Sides(u.node[p], t.node[p].left, t.node[p].left_child, next, t.node[p].right_child)
    /\ Sides(u.node[prev], t.node[prev].left, t.node[prev].left_child, next, t.node[prev].right_child)
    /\ nextp = n =>
         /\ Sides(u.node[next], t.node[n].left, TRUE, t.node[next].right, t.node[next].right_child)
         /\ u.node[next].balance = t.node[n].balance - 1
    /\ nextp # n =>
         /\ Sides(u.node[next], t.node[n].left, TRUE, t.node[n].right, TRUE)
         /\ u.node[next].balance = t.node[n].balance
         /\ Sides(u.node[nextp], Onto(t, next, nextp), t.node[next].right_child,
                  t.node[nextp].right, t.node[nextp].right_child)
         /\ u.node[nextp].balance = t.node[nextp].balance + 1
    /\ \A m \in D \ {n, next, prev, nextp, p} : SameSides(t, u, m)
    /\ \A m \in D \ {n, next, nextp} : u.node[m].balance = t.node[m].balance

LEMMA MovesIn ==
    ASSUME NEW t, NEW D, TreeType(t, D), NULL \notin D, NEW n \in D, NEW next \in D, next # n,
           NEW prev \in D, prev # n, prev # next, NEW nextp \in D, nextp # next, nextp # prev,
           NEW p \in D \cup {NULL}, p # n, p # next, p # prev, p # nextp,
           p # NULL => (IsLeftNode(t, n, p) <=> LeftOf(t, n, p)),
           NEW b, Took(t, b, D, n, next, nextp),
           NEW c, c = NodeSet(b, prev, PutRight(b.node[prev], next)),
           NEW d, d = NodeSet(c, next, TakeLeft(c.node[next], t.node[n].left)),
           NEW g, g = IsLeftNode(t, n, p), NEW u, u = SetChild(d, next, p, g)
    PROVE  Kin(t, u, D) /\ MovedIn(t, u, D, n, next, prev, nextp, p)
<1>1. t.node[n].left \in D \cup {NULL} /\ TreeType(b, D)
  BY Fields DEF Took, Kin
<1>2. FALSE \in BOOLEAN /\ 1 \in Int /\ next \in D \cup {NULL}
  OBVIOUS
<1>3. Reshaped(b, c, D, prev, b.node[prev].left, b.node[prev].left_child, next,
               b.node[prev].right_child, b.node[prev].balance)
  <2>1. PICK y : y = PutRight(b.node[prev], next)
    OBVIOUS
  <2>2. c = NodeSet(b, prev, y)
    BY <2>1
  <2> QED
    BY Zenon, <1>1, <1>2, <2>1, <2>2, NodeReshapes
<1>4. TreeType(c, D)
  BY SMTT(40), <1>3 DEF Reshaped
<1>5. Reshaped(c, d, D, next, t.node[n].left, TRUE, c.node[next].right,
               c.node[next].right_child, c.node[next].balance)
  <2>1. PICK y : y = TakeLeft(c.node[next], t.node[n].left)
    OBVIOUS
  <2>2. d = NodeSet(c, next, y)
    BY <2>1
  <2> QED
    BY Zenon, <1>1, <1>2, <1>4, <2>1, <2>2, NodeReshapes
<1>6. TreeType(u, D) /\ u.nnodes = d.nnodes /\ ChildIs(d, u, D, next, p, g)
  <2>1. TreeType(d, D)
    BY ZenonT(60), <1>5 DEF Reshaped
  <2> QED
    BY SMTT(40), <2>1, ChildSet
<1>7. /\ \A m \in D \ {p} : u.node[m] = d.node[m]
      /\ \A m \in D \ {next} : d.node[m] = c.node[m]
      /\ \A m \in D \ {prev} : c.node[m] = b.node[m]
      /\ \A m \in D \ {next, nextp} : b.node[m] = t.node[m]
      /\ nextp = n => b.node[n] = t.node[n]
  BY ZenonT(60), <1>3, <1>5, <1>6 DEF Reshaped, ChildIs, Took
<1>8. /\ u.node[next] = d.node[next] /\ c.node[next] = b.node[next]
      /\ u.node[prev] = c.node[prev] /\ b.node[prev] = t.node[prev]
      /\ u.node[nextp] = b.node[nextp]
      /\ p # NULL => d.node[p] = t.node[p]
  BY ZenonT(60), <1>7
<1>9. \A m \in D \ {n, next, prev, nextp, p} : u.node[m] = t.node[m]
  <2> TAKE m \in D \ {n, next, prev, nextp, p}
  <2>1. m \in D /\ m # n /\ m # next /\ m # prev /\ m # nextp /\ m # p
    BY Zenon
  <2>2. u.node[m] = d.node[m] /\ d.node[m] = c.node[m]
    BY Zenon, <1>7, <2>1
  <2>3. c.node[m] = b.node[m] /\ b.node[m] = t.node[m]
    BY Zenon, <1>7, <2>1
  <2> QED
    BY Zenon, <2>2, <2>3
<1>10. /\ p = NULL => u.root = next
       /\ p # NULL => u.root = t.root
  BY ZenonT(60), <1>3, <1>5, <1>6 DEF Reshaped, ChildIs, Took
<1>11. p # NULL =>
         /\ IF LeftOf(t, n, p)
            THEN Sides(u.node[p], next, t.node[p].left_child, t.node[p].right, t.node[p].right_child)
            ELSE Sides(u.node[p], t.node[p].left, t.node[p].left_child, next, t.node[p].right_child)
         /\ u.node[p].balance = t.node[p].balance
         /\ u.node[p].key = t.node[p].key /\ u.node[p].value = t.node[p].value
  BY Zenon, <1>6, <1>8 DEF ChildIs
<1>12. /\ Sides(u.node[prev], t.node[prev].left, t.node[prev].left_child, next, t.node[prev].right_child)
       /\ u.node[prev].balance = t.node[prev].balance
  BY ZenonT(60), <1>3, <1>8 DEF Reshaped
<1>13. /\ Sides(u.node[next], t.node[n].left, TRUE, b.node[next].right, b.node[next].right_child)
       /\ u.node[next].balance = b.node[next].balance
  BY ZenonT(60), <1>5, <1>8 DEF Reshaped
<1>14. nextp = n =>
         /\ Sides(u.node[next], t.node[n].left, TRUE, t.node[next].right, t.node[next].right_child)
         /\ u.node[next].balance = t.node[n].balance - 1
  BY ZenonT(60), <1>13 DEF Took, SameSides, Sides
<1>15. nextp # n =>
         /\ Sides(u.node[next], t.node[n].left, TRUE, t.node[n].right, TRUE)
         /\ u.node[next].balance = t.node[n].balance
  BY Zenon, <1>13 DEF Took, Sides
<1>16. nextp # n =>
         /\ Sides(u.node[nextp], Onto(t, next, nextp), t.node[next].right_child,
                  t.node[nextp].right, t.node[nextp].right_child)
         /\ u.node[nextp].balance = t.node[nextp].balance + 1
  BY ZenonT(60), <1>8 DEF Took, Onto
<1>17. \A m \in D \ {n, next, prev, nextp, p} : SameSides(t, u, m)
  BY ZenonT(60), <1>9 DEF SameSides, Sides
<1>18. \A m \in D \ {n, next, nextp} : u.node[m].balance = t.node[m].balance
  BY ZenonT(60), <1>9, <1>11, <1>12
<1>19. Kin(t, u, D)
  <2>1. SameData(t, b, D) /\ SameData(b, c, D) /\ SameData(c, d, D)
    BY ZenonT(60), <1>3, <1>5 DEF Reshaped, Took, Kin
  <2>2. SameData(d, u, D)
    BY ZenonT(60), <1>6 DEF ChildIs, SameData
  <2>3. SameData(t, u, D)
    <3> SUFFICES ASSUME NEW m \in D
                 PROVE  u.node[m].key = t.node[m].key /\ u.node[m].value = t.node[m].value
      BY Zenon DEF SameData
    <3>1. b.node[m].key = t.node[m].key /\ b.node[m].value = t.node[m].value
      BY ZenonT(60), <2>1 DEF SameData
    <3>2. c.node[m].key = b.node[m].key /\ c.node[m].value = b.node[m].value
      BY ZenonT(60), <2>1 DEF SameData
    <3>3. d.node[m].key = c.node[m].key /\ d.node[m].value = c.node[m].value
      BY ZenonT(60), <2>1 DEF SameData
    <3>4. u.node[m].key = d.node[m].key /\ u.node[m].value = d.node[m].value
      BY ZenonT(60), <2>2 DEF SameData
    <3> QED
      BY Zenon, <3>1, <3>2, <3>3, <3>4
  <2>4. u.nnodes = t.nnodes
    BY Zenon, <1>3, <1>5, <1>6 DEF Reshaped, Took, Kin
  <2> QED
    BY <1>6, <2>3, <2>4 DEF Kin
<1> QED
  BY Zenon, <1>10, <1>11, <1>12, <1>14, <1>15, <1>16, <1>17, <1>18, <1>19 DEF MovedIn

Renaming(S, n, next) == [m \in S \cup {NULL} |-> IF m = n THEN next ELSE m]
LEMMA RenamingRenames ==
    ASSUME NEW D, NULL \notin D, NEW n \in D, NEW next \in D, next # n,
           NEW S, S = D \ {next}, NEW R, R = D \ {n},
           NEW r, r = Renaming(S, n, next), NEW q, q = Renaming(R, next, n)
    PROVE  /\ Renames(r, q, S, R)
           /\ r[n] = next /\ q[next] = n
           /\ \A m \in S \cup {NULL} : m # n => r[m] = m
           /\ \A m \in R : m # next => q[m] = m
<1>1. /\ r[n] = next /\ q[next] = n
      /\ \A m \in S \cup {NULL} : m # n => r[m] = m
      /\ \A m \in R \cup {NULL} : m # next => q[m] = m
  BY DEF Renaming
<1>2. r \in [S \cup {NULL} -> R \cup {NULL}] /\ q \in [R \cup {NULL} -> S \cup {NULL}]
  BY DEF Renaming
<1>3. \A m \in S \cup {NULL} : q[r[m]] = m
  BY <1>1
<1>4. \A m \in R \cup {NULL} : r[q[m]] = m
  BY <1>1
<1>5. r[NULL] = NULL /\ q[NULL] = NULL
  BY <1>1
<1> QED
  BY Zenon, <1>1, <1>2, <1>3, <1>4, <1>5 DEF Renames

\* The nodes around n, which has two children, and who leads to it.
Around(t, D, n, next, prev, nextp, p, x) ==
    /\ next \in D /\ next # n /\ prev \in D /\ prev # n /\ prev # next
    /\ nextp \in D /\ nextp # next /\ nextp # prev
    /\ p \in D \cup {NULL} /\ p # n /\ p # next /\ p # prev /\ p # nextp
    /\ x # NULL => /\ x \in D /\ x \notin {n, next, prev, nextp, p}
                   /\ t.node[x].left = next /\ t.node[x].left_child = FALSE
    /\ t.node[next].left = n /\ t.node[next].left_child = FALSE
    /\ t.node[prev].right = n /\ t.node[n].left # n /\ t.node[n].right # n
    /\ \A m \in D : t.node[m].left = n => m = next \/ (m = p /\ LeftOf(t, n, p))
    /\ \A m \in D : t.node[m].right = n => m = prev \/ (m = p /\ RightOf(t, n, p))
    /\ p = NULL => t.root = n
    /\ p # NULL => /\ t.root # n
                   /\ LeftOf(t, n, p) => t.node[p].left = n /\ t.node[p].right # n
                   /\ ~LeftOf(t, n, p) => t.node[p].right = n /\ t.node[p].left # n

LEMMA KnowsAround ==
    ASSUME NEW t, NEW D, NEW pos, NEW lo, NEW hi, NEW up, NEW h, Sound(t, D, pos, lo, hi, up, h),
           NEW n \in D, t.node[n].left_child, t.node[n].right_child,
           NEW p, Below(t, D, n, p),
           NEW next, next = NextNode(t, n), NEW prev, prev = PreviousNode(t, n),
           NEW nextp, nextp # NULL, Below(t, D, next, nextp), nextp # n => LeftOf(t, next, nextp),
           NEW x, x = IF t.node[next].right_child THEN NextNode(t, next) ELSE NULL
    PROVE  Around(t, D, n, next, prev, nextp, p, x)
<1>1. TreeType(t, D) /\ Shape(t, D, pos, lo, hi, up) /\ NULL \notin D /\ n # NULL
  BY SoundParts
<1>2. next \in D /\ ~t.node[next].left_child /\ t.node[next].left = n /\ Successive(D, pos, n, next)
  BY NextSuccessive
<1>3. prev \in D /\ ~t.node[prev].right_child /\ t.node[prev].right = n /\ Successive(D, pos, prev, n)
  BY PreviousSuccessive
<1>4. \A m \in D : pos[m] \in Int
  BY SoundParts
<1>5. pos[prev] < pos[n] /\ pos[n] < pos[next]
  BY <1>1, <1>2, <1>3 DEF Successive, Before
<1>6. next # n /\ prev # n /\ prev # next
  BY <1>2, <1>3, <1>4, <1>5
<1>7. p \in D \cup {NULL} /\ p # n /\ up[n] = p
  BY <1>1, SideKnown, ParentUnique
<1>8. nextp \in D /\ nextp # next
  BY <1>1, <1>2, SideKnown
<1>9. nextp # n => pos[next] < pos[nextp]
  <2> SUFFICES ASSUME nextp # n PROVE pos[next] < pos[nextp]
    OBVIOUS
  <2>1. hi[next] = nextp
    BY <1>1, <1>2, ParentUnique
  <2>2. Before(pos, next, hi[next])
    BY <1>2, SoundParts DEF RightPlaced
  <2> QED
    BY <1>1, <1>2, <1>8, <2>1, <2>2 DEF Before
<1>10. nextp # prev
  BY <1>2, <1>3, <1>4, <1>5, <1>6, <1>8, <1>9
<1>11. p # NULL /\ LeftOf(t, n, p) => pos[n] < pos[p]
  <2> SUFFICES ASSUME p # NULL, LeftOf(t, n, p) PROVE pos[n] < pos[p]
    OBVIOUS
  <2>1. hi[n] = p
    BY <1>1, ParentUnique
  <2>2. Before(pos, n, hi[n])
    BY SoundParts DEF RightPlaced
  <2> QED
    BY <1>1, <2>1, <2>2 DEF Before
<1>12. p # NULL /\ ~LeftOf(t, n, p) => RightOf(t, n, p) /\ pos[p] < pos[n]
  <2> SUFFICES ASSUME p # NULL, ~LeftOf(t, n, p) PROVE RightOf(t, n, p) /\ pos[p] < pos[n]
    OBVIOUS
  <2>1. lo[n] = p /\ RightOf(t, n, p)
    BY <1>1, ParentUnique
  <2>2. Before(pos, lo[n], n)
    BY SoundParts DEF LeftPlaced
  <2> QED
    BY <1>1, <2>1, <2>2 DEF Before
<1>13. p # next /\ p # prev /\ p # nextp
  <2>1. CASE p = NULL
    BY <1>1, <1>2, <1>3, <2>1
  <2>2. CASE p # NULL /\ LeftOf(t, n, p)
    <3>1. t.node[p].left_child /\ t.node[p].left = n
      BY <2>2 DEF LeftOf
    <3>2. p # next /\ p # prev
      BY <1>2, <1>3, <1>4, <1>5, <1>11, <2>2, <3>1
    <3>3. ASSUME p = nextp PROVE FALSE
      <4>1. nextp # n
        BY <1>7, <3>3
      <4>2. t.node[nextp].left = next
        BY <4>1 DEF LeftOf
      <4> QED
        BY <1>6, <3>1, <3>3, <4>2
    <3> QED
      BY <3>2, <3>3
  <2>3. CASE p # NULL /\ ~LeftOf(t, n, p)
    <3>1. t.node[p].right_child /\ pos[p] < pos[n] /\ p \in D
      BY <1>7, <1>12, <2>3 DEF RightOf
    <3>2. p # next /\ p # prev
      BY <1>2, <1>3, <1>4, <1>5, <3>1
    <3>3. p # nextp
      BY <1>2, <1>4, <1>5, <1>7, <1>8, <1>9, <3>1
    <3> QED
      BY <3>2, <3>3
  <2> QED
    BY <2>1, <2>2, <2>3
<1>14. \A m \in D : t.node[m].left_child \in BOOLEAN /\ t.node[m].right_child \in BOOLEAN
  BY <1>1, Fields
<1>15. x # NULL => /\ x \in D /\ x \notin {n, next, prev, nextp, p}
                   /\ t.node[x].left = next /\ t.node[x].left_child = FALSE
  <2> SUFFICES ASSUME x # NULL
               PROVE  /\ x \in D /\ x \notin {n, next, prev, nextp, p}
                      /\ t.node[x].left = next /\ t.node[x].left_child = FALSE
    BY Zenon
  <2>1. OnlyThread(t, D, lo, next, x, nextp)
    BY <1>2, NextThread
  <2>2. x \in D \ {next, nextp} /\ lo[x] = next /\ ~t.node[x].left_child
    BY <2>1 DEF OnlyThread
  <2>3. LeftPlaced(t, D, pos, lo, hi, up, x)
    BY <2>2, SoundParts
  <2>4. Before(pos, next, x) /\ t.node[x].left = next
    BY <2>2, <2>3 DEF LeftPlaced
  <2>5. pos[next] < pos[x]
    BY <1>1, <1>2, <2>2, <2>4 DEF Before
  <2>6. x # n /\ x # prev
    BY <1>2, <1>3, <1>4, <1>5, <2>2, <2>5
  <2>7. x # p
    <3>1. CASE LeftOf(t, n, p)
      BY <2>2, <3>1 DEF LeftOf
    <3>2. CASE ~LeftOf(t, n, p) /\ p # NULL
      BY <1>2, <1>4, <1>5, <1>12, <2>2, <2>5, <3>2
    <3> QED
      BY <3>1, <3>2
  <2> QED
    BY <1>14, <2>2, <2>4, <2>6, <2>7
<1>16. t.node[next].left_child = FALSE
  BY <1>2, <1>14
<1>17. t.node[n].left # n /\ t.node[n].right # n
  BY <1>1, Children
<1>18. ASSUME NEW m \in D, t.node[m].left = n PROVE m = next \/ (m = p /\ LeftOf(t, n, p))
  <2>1. CASE t.node[m].left_child
    <3>1. LeftOf(t, n, m) /\ Below(t, D, n, m)
      BY <1>1, <1>18, <2>1 DEF LeftOf, Below
    <3>2. up[n] = m
      BY <1>1, <3>1, ParentUnique
    <3> QED
      BY <1>7, <3>1, <3>2
  <2>2. CASE ~t.node[m].left_child
    <3>1. LeftPlaced(t, D, pos, lo, hi, up, m)
      BY SoundParts
    <3>2. lo[m] = n
      BY <1>18, <2>2, <3>1 DEF LeftPlaced
    <3>3. OnlyThread(t, D, lo, n, next, p)
      BY NextThread
    <3> QED
      BY <2>2, <3>2, <3>3 DEF OnlyThread
  <2> QED
    BY <2>1, <2>2
<1>19. ASSUME NEW m \in D, t.node[m].right = n PROVE m = prev \/ (m = p /\ RightOf(t, n, p))
  <2>1. CASE t.node[m].right_child
    <3>1. RightOf(t, n, m) /\ Below(t, D, n, m)
      BY <1>1, <1>19, <2>1 DEF RightOf, Below
    <3>2. up[n] = m
      BY <1>1, <3>1, ParentUnique
    <3> QED
      BY <1>7, <3>1, <3>2
  <2>2. CASE ~t.node[m].right_child
    <3>1. RightPlaced(t, D, pos, lo, hi, up, m)
      BY SoundParts
    <3>2. hi[m] = n
      BY <1>19, <2>2, <3>1 DEF RightPlaced
    <3>3. OnlyThreadBack(t, D, hi, n, prev, p)
      BY PreviousThread
    <3> QED
      BY <2>2, <3>2, <3>3 DEF OnlyThreadBack
  <2> QED
    BY <2>1, <2>2
<1>20. p # NULL =>
         /\ t.root # n
         /\ LeftOf(t, n, p) => t.node[p].left = n /\ t.node[p].right # n
         /\ ~LeftOf(t, n, p) => t.node[p].right = n /\ t.node[p].left # n
  <2> SUFFICES ASSUME p # NULL
               PROVE  /\ t.root # n
                      /\ LeftOf(t, n, p) => t.node[p].left = n /\ t.node[p].right # n
                      /\ ~LeftOf(t, n, p) => t.node[p].right = n /\ t.node[p].left # n
    OBVIOUS
  <2>1. t.root # n
    <3>1. up[t.root] = NULL
      BY <1>1 DEF Shape, Rooted
    <3> QED
      BY <1>7, <3>1
  <2>2. LeftOf(t, n, p) => t.node[p].left = n /\ t.node[p].right # n
    <3> SUFFICES ASSUME LeftOf(t, n, p) PROVE t.node[p].left = n /\ t.node[p].right # n
      OBVIOUS
    <3>1. ~RightOf(t, n, p)
      BY <1>1, ParentUnique
    <3> QED
      BY <1>7, <1>13, <1>19, <3>1 DEF LeftOf
  <2>3. ~LeftOf(t, n, p) => t.node[p].right = n /\ t.node[p].left # n
    BY <1>7, <1>12, <1>13, <1>18 DEF RightOf
  <2> QED
    BY <2>1, <2>2, <2>3
<1>21. p = NULL => t.root = n
  BY DEF Below
<1> QED
  BY <1>2, <1>3, <1>6, <1>7, <1>8, <1>10, <1>13, <1>15, <1>16, <1>17, <1>18, <1>19, <1>20, <1>21
     DEF Around

Joined(u, v, r, m, w) ==
    /\ Sides(u.node[m], r[v.node[w].left], v.node[w].left_child,
                        r[v.node[w].right], v.node[w].right_child)
    /\ u.node[m].balance = v.node[w].balance
LEMMA JoinedBy ==
    ASSUME NEW u, NEW v, NEW r, NEW m, NEW w, NEW left, NEW left_child, NEW right, NEW right_child,
           Sides(v.node[w], left, left_child, right, right_child),
           NEW l2, NEW r2, r[left] = l2, r[right] = r2,
           Sides(u.node[m], l2, left_child, r2, right_child),
           u.node[m].balance = v.node[w].balance
    PROVE  Joined(u, v, r, m, w)
  BY DEF Joined, Sides

HasBoth(t, n) == t.node[n].left_child = TRUE /\ t.node[n].right_child = TRUE
OnLeft(t, n, next, nextp) == LeftOf(t, next, nextp) <=> nextp # n
\* u, where next moved into the place of n, is v, where next was unlinked, with
\* n under the name of next.
LEMMA InnerRenames ==
    ASSUME NEW t, NEW D, TreeType(t, D), NULL \notin D, NEW n \in D,
           HasBoth(t, n),
           NEW next, NEW prev, NEW nextp, NEW p, NEW x, Around(t, D, n, next, prev, nextp, p, x),
           OnLeft(t, n, next, nextp),
           NEW S, S = D \ {next}, NEW R, R = D \ {n},
           NEW v, RightLifted(t, v, D, next, nextp, x), Lightened(t, v, D, next, nextp),
           NEW pos, NEW lo, NEW hi, NEW up, Shape(v, S, pos, lo, hi, up),
           NEW u, MovedIn(t, u, D, n, next, prev, nextp, p),
           NEW r, r = Renaming(S, n, next), NEW q, q = Renaming(R, next, n)
    PROVE  Renames(r, q, S, R) /\ Renamed(v, u, R, r, q)
<1>1. /\ next \in D /\ next # n /\ prev \in D /\ prev # n /\ prev # next
      /\ nextp \in D /\ nextp # next /\ nextp # prev
      /\ p \in D \cup {NULL} /\ p # n /\ p # next /\ p # prev /\ p # nextp
      /\ t.node[next].left = n /\ t.node[next].left_child = FALSE
      /\ t.node[prev].right = n /\ t.node[n].left # n /\ t.node[n].right # n
  BY DEF Around
<1>2. x # NULL => /\ x \in D /\ x \notin {n, next, prev, nextp, p}
                  /\ t.node[x].left = next /\ t.node[x].left_child = FALSE
  BY DEF Around
<1>3. /\ Renames(r, q, S, R) /\ r[n] = next /\ q[next] = n
      /\ \A m \in S \cup {NULL} : m # n => r[m] = m
      /\ \A m \in R : m # next => q[m] = m
  BY <1>1, RenamingRenames
<1>4. ASSUME NEW m \in S
      PROVE  v.node[m].left \in S \cup {NULL} /\ v.node[m].right \in S \cup {NULL}
  <2>1. LeftPlaced(v, S, pos, lo, hi, up, m) /\ RightPlaced(v, S, pos, lo, hi, up, m)
    BY DEF Shape, Placed
  <2>2. lo[m] \in S \cup {NULL} /\ hi[m] \in S \cup {NULL}
    BY DEF Shape, Ghosts
  <2>3. v.node[m].left \in S \cup {NULL}
    BY <2>1, <2>2 DEF LeftPlaced
  <2>4. v.node[m].right \in S \cup {NULL}
    BY <2>1, <2>2 DEF RightPlaced
  <2> QED
    BY <2>3, <2>4
<1>5. /\ \A m \in S : v.node[m].left # n => r[v.node[m].left] = v.node[m].left
      /\ \A m \in S : v.node[m].right # n => r[v.node[m].right] = v.node[m].right
  BY Zenon, <1>3, <1>4
<1>6. nextp # NULL /\ v.root = t.root
  BY <1>1 DEF RightLifted
<1>7. /\ nextp = n => Sides(v.node[n], t.node[n].left, TRUE,
                            t.node[next].right, t.node[next].right_child)
      /\ nextp # n => Sides(v.node[nextp], IF t.node[next].right_child THEN t.node[next].right ELSE n,
                            t.node[next].right_child, t.node[nextp].right, t.node[nextp].right_child)
  BY Zenon, <1>1, <1>6 DEF RightLifted, HasBoth, OnLeft
<1>8. /\ nextp = n => v.node[n].balance = t.node[n].balance - 1
      /\ nextp # n => v.node[nextp].balance = t.node[nextp].balance + 1
      /\ \A m \in D \ {next, nextp} : v.node[m].balance = t.node[m].balance
  <2>1. v.node[nextp].balance = t.node[nextp].balance + (IF LeftOf(t, next, nextp) THEN 1 ELSE -1)
    BY <1>6 DEF Lightened
  <2>2. t.node[nextp].balance \in Int
    BY <1>1, Fields
  <2> QED
    BY <2>1, <2>2 DEF Lightened, OnLeft
<1>9. /\ \A m \in D \ {next, nextp, x} : SameSides(t, v, m)
      /\ x # NULL => Sides(v.node[x], n, FALSE, t.node[x].right, t.node[x].right_child)
  BY Zenon, <1>1 DEF RightLifted
<1>10. /\ \A m \in D : t.node[m].left = n => m = next \/ (m = p /\ LeftOf(t, n, p))
       /\ \A m \in D : t.node[m].right = n => m = prev \/ (m = p /\ RightOf(t, n, p))
  BY DEF Around
<1>11. u.root = r[v.root]
  <2>1. CASE p = NULL
    <3>1. t.root = n /\ u.root = next
      BY <2>1 DEF Around, MovedIn
    <3> QED
      BY <1>3, <1>6, <3>1
  <2>2. CASE p # NULL
    <3>1. t.root # n /\ u.root = t.root
      BY <2>2 DEF Around, MovedIn
    <3>2. v.root \in S \cup {NULL}
      BY DEF Shape, Rooted
    <3> QED
      BY <1>3, <1>6, <3>1, <3>2
  <2> QED
    BY <2>1, <2>2
<1>12. ASSUME NEW m \in R
       PROVE  \E w \in S : w = q[m] /\ Joined(u, v, r, m, w)
  <2>1. CASE m = next /\ nextp = n
    <3>1. Sides(u.node[m], t.node[n].left, TRUE, t.node[next].right, t.node[next].right_child)
      BY Zenon, <2>1 DEF MovedIn
    <3>2. u.node[m].balance = t.node[n].balance - 1
      BY <2>1 DEF MovedIn
    <3>3. n \in S /\ q[m] = n
      BY <1>1, <1>3, <2>1
    <3>4. Sides(v.node[n], t.node[n].left, TRUE, t.node[next].right, t.node[next].right_child)
      BY Zenon, <1>7, <2>1
    <3>5. r[t.node[n].left] = t.node[n].left
      <4>1. v.node[n].left = t.node[n].left
        BY <3>4 DEF Sides
      <4> QED
        BY Zenon, <1>1, <1>5, <3>3, <4>1
    <3>6. r[t.node[next].right] = t.node[next].right
      <4>1. v.node[n].right = t.node[next].right
        BY <3>4 DEF Sides
      <4>2. t.node[next].right # n
        BY <1>1, <1>10
      <4> QED
        BY Zenon, <1>5, <3>3, <4>1, <4>2
    <3>7. u.node[m].balance = v.node[n].balance
      BY <1>8, <2>1, <3>2
    <3>8. Joined(u, v, r, m, n)
      BY Zenon, <3>1, <3>4, <3>5, <3>6, <3>7, JoinedBy
    <3> QED
      BY <3>3, <3>8
  <2>2. CASE m = next /\ nextp # n
    <3>1. /\ Sides(u.node[m], t.node[n].left, TRUE, t.node[n].right, TRUE)
          /\ u.node[m].balance = t.node[n].balance
      BY Zenon, <2>2 DEF MovedIn
    <3>2. n \in S /\ q[m] = n /\ n # x
      BY <1>1, <1>2, <1>3, <2>2
    <3>3. SameSides(t, v, n) /\ v.node[n].balance = t.node[n].balance
      BY <1>1, <1>8, <1>9, <2>2, <3>2
    <3>4. Sides(v.node[n], t.node[n].left, TRUE, t.node[n].right, TRUE)
      BY Zenon, <3>3 DEF SameSides, HasBoth
    <3>5. r[t.node[n].left] = t.node[n].left /\ r[t.node[n].right] = t.node[n].right
      <4>1. v.node[n].left = t.node[n].left /\ v.node[n].right = t.node[n].right
        BY <3>4 DEF Sides
      <4> QED
        BY Zenon, <1>1, <1>5, <3>2, <4>1
    <3>6. u.node[m].balance = v.node[n].balance
      BY <3>1, <3>3
    <3>7. Joined(u, v, r, m, n)
      BY Zenon, <3>1, <3>4, <3>5, <3>6, JoinedBy
    <3> QED
      BY <3>2, <3>7
  <2>3. CASE m # next /\ m = nextp
    <3>1. nextp # n /\ m \in S /\ q[m] = m
      BY <1>3, <2>3
    <3>2. Sides(u.node[m], Onto(t, next, nextp), t.node[next].right_child,
                t.node[nextp].right, t.node[nextp].right_child)
      BY <2>3, <3>1 DEF MovedIn
    <3>3. u.node[m].balance = t.node[nextp].balance + 1
      BY <2>3, <3>1 DEF MovedIn
    <3>4. PICK l : l = IF t.node[next].right_child THEN t.node[next].right ELSE n
      OBVIOUS
    <3>5. Sides(v.node[m], l, t.node[next].right_child, t.node[nextp].right, t.node[nextp].right_child)
      BY <1>7, <2>3, <3>1, <3>4
    <3>6. r[t.node[nextp].right] = t.node[nextp].right
      <4>1. v.node[m].right = t.node[nextp].right
        BY <3>5 DEF Sides
      <4>2. t.node[nextp].right # n
        BY <1>1, <1>10
      <4> QED
        BY Zenon, <1>5, <3>1, <4>1, <4>2
    <3>7. r[l] = Onto(t, next, nextp)
      <4>1. CASE t.node[next].right_child
        <5>1. v.node[m].left = t.node[next].right /\ l = t.node[next].right
          BY <3>4, <3>5, <4>1 DEF Sides
        <5>2. t.node[next].right # n
          BY <1>1, <1>10
        <5>3. r[l] = l
          BY Zenon, <1>5, <3>1, <5>1, <5>2
        <5> QED
          BY <4>1, <5>1, <5>3 DEF Onto
      <4>2. CASE ~t.node[next].right_child
        <5>1. l = n /\ Onto(t, next, nextp) = t.node[nextp].left
          BY <3>4, <4>2 DEF Onto
        <5>2. t.node[nextp].left = next
          BY <3>1 DEF LeftOf, OnLeft
        <5> QED
          BY <1>3, <5>1, <5>2
      <4> QED
        BY <4>1, <4>2
    <3>8. u.node[m].balance = v.node[m].balance
      BY <1>8, <2>3, <3>1, <3>3
    <3>9. Joined(u, v, r, m, m)
      BY Zenon, <3>2, <3>5, <3>6, <3>7, <3>8, JoinedBy
    <3> QED
      BY <3>1, <3>9
  <2>4. CASE m \notin {next, nextp} /\ m = x
    <3>1. m # NULL /\ m \in S /\ q[m] = m
      BY <1>3, <2>4
    <3>2. SameSides(t, u, m) /\ u.node[m].balance = t.node[m].balance
      <4>1. m \in D \ {n, next, prev, nextp, p}
        BY <1>2, <2>4, <3>1
      <4> QED
        BY <4>1 DEF MovedIn
    <3>3. /\ Sides(v.node[m], n, FALSE, t.node[m].right, t.node[m].right_child)
          /\ v.node[m].balance = t.node[m].balance
      BY Zenon, <1>8, <1>9, <2>4, <3>1
    <3>4. t.node[m].left = next /\ t.node[m].left_child = FALSE /\ m # prev /\ m # p
      BY <1>2, <2>4, <3>1
    <3>5. r[t.node[m].right] = t.node[m].right
      <4>1. v.node[m].right = t.node[m].right
        BY <3>3 DEF Sides
      <4>2. t.node[m].right # n
        BY <1>10, <3>1, <3>4
      <4> QED
        BY Zenon, <1>5, <3>1, <4>1, <4>2
    <3>6. Sides(u.node[m], next, FALSE, t.node[m].right, t.node[m].right_child)
      BY Zenon, <3>2, <3>4 DEF SameSides
    <3>7. Joined(u, v, r, m, m)
      <4>1. r[n] = next
        BY <1>3
      <4>2. u.node[m].balance = v.node[m].balance
        BY <3>2, <3>3
      <4>3. Sides(v.node[m], n, FALSE, t.node[m].right, t.node[m].right_child)
        BY Zenon, <3>3
      <4> QED
        BY Zenon, <3>5, <3>6, <4>1, <4>2, <4>3, JoinedBy
    <3> QED
      BY <3>1, <3>7
  <2>5. CASE m \notin {next, nextp, x}
    <3>1. m \in S /\ q[m] = m /\ m \in D
      BY <1>3, <2>5
    <3>2. SameSides(t, v, m) /\ v.node[m].balance = t.node[m].balance
      BY <1>8, <1>9, <2>5, <3>1
    <3>3. u.node[m].balance = v.node[m].balance
      BY <2>5, <3>1, <3>2 DEF MovedIn
    <3>8. Sides(v.node[m], t.node[m].left, t.node[m].left_child, t.node[m].right, t.node[m].right_child)
      BY <3>2 DEF SameSides
    <3>9. /\ t.node[m].left # n => r[t.node[m].left] = t.node[m].left
          /\ t.node[m].right # n => r[t.node[m].right] = t.node[m].right
      <4>1. v.node[m].left = t.node[m].left /\ v.node[m].right = t.node[m].right
        BY <3>8 DEF Sides
      <4> QED
        BY Zenon, <1>5, <3>1, <4>1
    <3>4. CASE m = prev
      <4>1. Sides(u.node[m], t.node[m].left, t.node[m].left_child, next, t.node[m].right_child)
        BY <3>4 DEF MovedIn
      <4>2. t.node[m].right = n /\ t.node[m].left # n
        BY <1>1, <1>10, <3>4
      <4>3. r[t.node[m].right] = next /\ r[t.node[m].left] = t.node[m].left
        BY <1>3, <3>9, <4>2
      <4>4. Joined(u, v, r, m, m)
        BY Zenon, <3>3, <3>8, <4>1, <4>3, JoinedBy
      <4> QED
        BY <3>1, <4>4
    <3>5. CASE m = p /\ LeftOf(t, n, p)
      <4>1. m # NULL
        BY <3>1
      <4>2. Sides(u.node[m], next, t.node[m].left_child, t.node[m].right, t.node[m].right_child)
        BY <3>5, <4>1 DEF MovedIn
      <4>3. t.node[m].left = n /\ t.node[m].right # n
        BY <3>5, <4>1 DEF Around
      <4>4. r[t.node[m].left] = next /\ r[t.node[m].right] = t.node[m].right
        BY <1>3, <3>9, <4>3
      <4>5. Joined(u, v, r, m, m)
        BY Zenon, <3>3, <3>8, <4>2, <4>4, JoinedBy
      <4> QED
        BY <3>1, <4>5
    <3>6. CASE m = p /\ ~LeftOf(t, n, p)
      <4>1. m # NULL
        BY <3>1
      <4>2. Sides(u.node[m], t.node[m].left, t.node[m].left_child, next, t.node[m].right_child)
        BY <3>6, <4>1 DEF MovedIn
      <4>3. t.node[m].right = n /\ t.node[m].left # n
        BY <3>6, <4>1 DEF Around
      <4>4. r[t.node[m].right] = next /\ r[t.node[m].left] = t.node[m].left
        BY <1>3, <3>9, <4>3
      <4>5. Joined(u, v, r, m, m)
        BY <3>3, <3>8, <4>2, <4>4, JoinedBy
      <4> QED
        BY <3>1, <4>5
    <3>7. CASE m \notin {prev, p}
      <4>1. SameSides(t, u, m)
        BY <2>5, <3>1, <3>7 DEF MovedIn
      <4>2. t.node[m].right # n /\ t.node[m].left # n
        BY <1>10, <2>5, <3>1, <3>7
      <4>3. r[t.node[m].right] = t.node[m].right /\ r[t.node[m].left] = t.node[m].left
        BY <3>9, <4>2
      <4>4. Joined(u, v, r, m, m)
        BY Zenon, <3>3, <3>8, <4>1, <4>3, JoinedBy DEF SameSides
      <4> QED
        BY <3>1, <4>4
    <3> QED
      BY <3>4, <3>5, <3>6, <3>7
  <2> QED
    BY <2>1, <2>2, <2>3, <2>4, <2>5
<1>13. ASSUME NEW m \in R
       PROVE  /\ Sides(u.node[m], r[v.node[q[m]].left], v.node[q[m]].left_child,
                                  r[v.node[q[m]].right], v.node[q[m]].right_child)
              /\ u.node[m].balance = v.node[q[m]].balance
  <2>1. PICK w \in S : w = q[m] /\ Joined(u, v, r, m, w)
    BY <1>12
  <2> QED
    BY <2>1 DEF Joined
<1> QED
  BY Zenon, <1>3, <1>11, <1>13 DEF Renamed

-----------------------------------------------------------------------------
(* Ways down, one after the other.                                           *)

LEMMA FallsOnce ==
    ASSUME NEW D, NEW h \in [D -> Nat], NEW w \in Seq(D),
           \A j \in 1 .. Len(w) - 1 : h[w[j + 1]] < h[w[j]]
    PROVE  OnceEach(w, D)
<1>1. Len(w) \in Nat /\ \A j \in 1 .. Len(w) : w[j] \in D /\ h[w[j]] \in Nat
  OBVIOUS
<1> DEFINE S == {d \in Nat : \A i \in 1 .. Len(w) : i + d + 1 <= Len(w) => h[w[i + d + 1]] < h[w[i]]}
<1>2. 0 \in S
  BY <1>1
<1>3. ASSUME NEW d \in Nat, d \in S PROVE d + 1 \in S
  <2> SUFFICES ASSUME NEW i \in 1 .. Len(w), i + (d + 1) + 1 <= Len(w)
               PROVE  h[w[i + (d + 1) + 1]] < h[w[i]]
    OBVIOUS
  <2>1. PICK j : j = i + d + 1
    OBVIOUS
  <2>2. j \in 1 .. Len(w) - 1 /\ i + (d + 1) + 1 = j + 1 /\ h[w[j]] < h[w[i]]
    <3>1. j \in 1 .. Len(w) - 1 /\ i + (d + 1) + 1 = j + 1 /\ i + d + 1 <= Len(w)
      BY <1>1, <2>1
    <3> QED
      BY <1>3, <2>1, <3>1
  <2>3. h[w[j + 1]] < h[w[j]] /\ j + 1 \in 1 .. Len(w) /\ j \in 1 .. Len(w)
    BY <1>1, <2>2
  <2> QED
    BY SMTT(40), <1>1, <2>2, <2>3
<1>4. \A d \in Nat : d \in S
  <2> HIDE DEF S
  <2> QED
    BY Zenon, <1>2, <1>3, Induction
<1>5. ASSUME NEW i \in 1 .. Len(w), NEW j \in 1 .. Len(w), i < j
      PROVE  h[w[j]] < h[w[i]]
  <2>1. j - i - 1 \in Nat /\ i + (j - i - 1) + 1 = j
    BY <1>1, <1>5
  <2>2. j - i - 1 \in S
    BY Zenon, <1>4, <2>1
  <2> QED
    BY <1>1, <2>1, <2>2
<1>6. ASSUME NEW i \in 1 .. Len(w), NEW j \in 1 .. Len(w), w[i] = w[j] PROVE i = j
  <2>1. i < j \/ j < i \/ i = j
    BY <1>1
  <2>2. ~(i < j) /\ ~(j < i)
    BY <1>1, <1>5, <1>6
  <2> QED
    BY <2>1, <2>2
<1> QED
  BY <1>6 DEF OnceEach

LEMMA BelowLower ==
    ASSUME NEW t, NEW D, NEW pos, NEW lo, NEW hi, NEW up, NEW h, Sound(t, D, pos, lo, hi, up, h),
           NEW n, NEW p \in D, Below(t, D, n, p)
    PROVE  n \in D /\ h[n] < h[p]
<1>1. p # NULL
  BY SoundParts
<1>2. LeftOf(t, n, p) \/ RightOf(t, n, p)
  BY <1>1 DEF Below
<1>3. CASE LeftOf(t, n, p)
  BY <1>3, ChildrenLower DEF LeftOf
<1>4. CASE RightOf(t, n, p)
  BY <1>4, ChildrenLower DEF RightOf
<1> QED
  BY <1>2, <1>3, <1>4

\* A way without its last node; a node in the middle of a way; and the two
\* readings of a node's side.
Shortened(path, w) == Len(path) = Len(w) - 1 /\ \A i \in 1 .. Len(w) - 1 : path[i] = w[i]
Through(path, n, tail) == path \o <<n>> \o tail
SideAgrees(t, n, p) == p # NULL => (IsLeftNode(t, n, p) <=> LeftOf(t, n, p))

\* A way down from the root meets no node twice, and its last node hangs below
\* the rest of it.
LEMMA ChainLeads ==
    ASSUME NEW t, NEW D, NEW pos, NEW lo, NEW hi, NEW up, NEW h, Sound(t, D, pos, lo, hi, up, h),
           NEW w \in Seq(D), Len(w) # 0, Chain(t, D, w, Len(w)),
           NEW n, n = w[Len(w)], NEW path, path = Front(w)
    PROVE  OnceEach(w, D) /\ Leads(t, D, path, n) /\ Shortened(path, w)
<1>1. Len(w) \in Nat /\ Len(w) \in 1 .. Len(w) /\ \A j \in 1 .. Len(w) : w[j] \in D
  OBVIOUS
<1>2. h \in [D -> Nat] /\ NULL \notin D
  BY SoundParts DEF Settled
<1>3. ASSUME NEW j \in 1 .. Len(w) - 1 PROVE Below(t, D, w[j + 1], w[j]) /\ h[w[j + 1]] < h[w[j]]
  <2>1. Below(t, D, w[j + 1], w[j]) /\ w[j] \in D
    BY <1>1 DEF Chain
  <2> QED
    BY <2>1, BelowLower
<1>4. OnceEach(w, D)
  BY Zenon, <1>2, <1>3, FallsOnce
<1>5. /\ path \in Seq(D) /\ Len(path) = Len(w) - 1
      /\ \A i \in 1 .. Len(w) - 1 : path[i] = w[i]
  <2>1. PICK k \in Nat : k = Len(w) - 1
    BY <1>1
  <2>2. path = [i \in 1 .. k |-> w[i]]
    BY <2>1 DEF Front
  <2>3. \A i \in 1 .. k : w[i] \in D
    BY <1>1, <2>1
  <2>4. path \in [1 .. k -> D]
    BY <2>2, <2>3
  <2>5. path \in Seq(D) /\ Len(path) = k
    BY <2>4
  <2> QED
    BY <2>1, <2>2, <2>5
<1>6. OnceEach(path, D)
  <2>1. ASSUME NEW i \in 1 .. Len(path), NEW j \in 1 .. Len(path), path[i] = path[j] PROVE i = j
    <3>1. i \in 1 .. Len(w) /\ j \in 1 .. Len(w) /\ path[i] = w[i] /\ path[j] = w[j]
      BY <1>1, <1>5
    <3> QED
      BY Zenon, <1>4, <2>1, <3>1 DEF OnceEach
  <2> QED
    BY <1>5, <2>1 DEF OnceEach
<1>7. ASSUME NEW i \in 1 .. Len(path) PROVE path[i] # n
  <2>1. i \in 1 .. Len(w) /\ path[i] = w[i] /\ i # Len(w)
    BY <1>1, <1>5
  <2> QED
    BY <1>1, <1>4, <2>1 DEF OnceEach
<1>8. Chain(t, D, path, Len(path))
  <2>1. Len(path) > 0 => path[1] = t.root
    <3>1. Len(path) > 0 => path[1] = w[1] /\ Len(w) > 0
      BY <1>1, <1>5
    <3> QED
      BY <3>1 DEF Chain
  <2>2. ASSUME NEW j \in 1 .. Len(path) - 1 PROVE Below(t, D, path[j + 1], path[j])
    <3>1. j \in 1 .. Len(w) - 1 /\ path[j] = w[j] /\ path[j + 1] = w[j + 1]
      BY <1>1, <1>5
    <3> QED
      BY <1>3, <3>1
  <2> QED
    BY <2>1, <2>2 DEF Chain
<1>9. Below(t, D, n, ParentOf(path))
  <2>1. CASE Len(path) = 0
    <3>1. ParentOf(path) = NULL /\ Len(w) = 1
      <4>1. path \in Seq(D) /\ Len(w) = 1
        BY <1>1, <1>5, <2>1
      <4> QED
        BY Zenon, <2>1, <4>1, ParentLast
    <3>2. w[1] = t.root
      BY <3>1 DEF Chain
    <3> QED
      BY <3>1, <3>2 DEF Below
  <2>2. CASE Len(path) # 0
    <3>1. PICK j : j = Len(path)
      BY Zenon
    <3>2. ParentOf(path) = path[j] /\ j \in 1 .. Len(w) - 1 /\ j + 1 = Len(w)
      BY <1>1, <1>5, <2>2, <3>1, ParentLast
    <3> QED
      BY <1>3, <1>5, <3>2
  <2> QED
    BY <2>1, <2>2
<1> QED
  BY <1>1, <1>4, <1>5, <1>6, <1>7, <1>8, <1>9 DEF Leads, Shortened

Stretched(w, D, path, n, tail) ==
    /\ w \in Seq(D) /\ Len(w) = Len(path) + 1 + Len(tail)
    /\ \A i \in 1 .. Len(path) : w[i] = path[i]
    /\ w[Len(path) + 1] = n
    /\ \A j \in 1 .. Len(tail) : w[Len(path) + 1 + j] = tail[j]

LEMMA Stretches ==
    ASSUME NEW D, NEW path \in Seq(D), NEW n \in D, NEW tail \in Seq(D),
           NEW w, w = Through(path, n, tail)
    PROVE  Stretched(w, D, path, n, tail)
<1>1. Len(path) \in Nat /\ Len(tail) \in Nat
  OBVIOUS
<1>2. PICK a : a = path \o <<n>>
  BY Zenon
<1>3. <<n>> \in Seq(D) /\ Len(<<n>>) = 1 /\ <<n>>[1] = n
  OBVIOUS
<1>4. /\ a \in Seq(D) /\ Len(a) = Len(path) + 1 /\ \A i \in 1 .. Len(path) : a[i] = path[i]
      /\ a[Len(path) + 1] = n
  BY <1>1, <1>2, <1>3
<1>5. w = a \o tail
  BY <1>2 DEF Through
<1>6. /\ w \in Seq(D) /\ Len(w) = Len(a) + Len(tail)
      /\ \A i \in 1 .. Len(a) : w[i] = a[i]
      /\ \A j \in 1 .. Len(tail) : w[Len(a) + j] = tail[j]
  <2>1. a \in Seq(D) /\ tail \in Seq(D)
    BY <1>4
  <2>2. w \in Seq(D) /\ Len(w) = Len(a) + Len(tail)
    BY <1>5, <2>1
  <2>3. \A i \in 1 .. Len(a) : w[i] = a[i]
    BY <1>5, <2>1
  <2>4. \A j \in 1 .. Len(tail) : w[Len(a) + j] = tail[j]
    BY <1>5, <2>1
  <2> QED
    BY <2>2, <2>3, <2>4
<1>7. ASSUME NEW i \in 1 .. Len(path) PROVE w[i] = path[i]
  <2>1. i \in 1 .. Len(a)
    BY <1>1, <1>4
  <2> QED
    BY <1>4, <1>6, <2>1
<1>8. w[Len(path) + 1] = n
  <2>1. Len(path) + 1 \in 1 .. Len(a)
    BY <1>1, <1>4
  <2> QED
    BY <1>4, <1>6, <2>1
<1> QED
  BY <1>1, <1>4, <1>6, <1>7, <1>8 DEF Stretched

\* From the root to n, to its right child, and down to its successor.
LEMMA InnerWay ==
    ASSUME NEW t, NEW D, NEW pos, NEW lo, NEW hi, NEW up, NEW h, Sound(t, D, pos, lo, hi, up, h),
           NEW path, NEW n, Leads(t, D, path, n), t.node[n].right_child,
           NEW spine, spine = LeftSpine(t, t.node[n].right),
           NEW w, w = Through(path, n, spine)
    PROVE  /\ LeftRun(t, D, lo, h, spine, t.node[n].right)
           /\ Stretched(w, D, path, n, spine) /\ Chain(t, D, w, Len(w))
<1>1. n \in D /\ path \in Seq(D) /\ Chain(t, D, path, Len(path)) /\ NULL \notin D
  BY SoundParts DEF Leads, OnceEach
<1>2. PICK r : r = t.node[n].right
  OBVIOUS
<1>3. r \in D
  BY <1>1, <1>2, ChildrenLower
<1>4. LeftRun(t, D, lo, h, spine, r)
  BY <1>2, <1>3, LeftSpineRuns
<1>5. /\ spine \in Seq(D) /\ Len(spine) \in Nat \ {0} /\ spine[1] = r
      /\ \A j \in 1 .. Len(spine) - 1 : LeftOf(t, spine[j + 1], spine[j])
      /\ \A j \in 1 .. Len(spine) : spine[j] \in D
  <2>1. spine \in Seq(D) /\ Len(spine) \in Nat \ {0} /\ spine[1] = r
    BY <1>4 DEF LeftRun, OnceEach
  <2>2. \A j \in 1 .. Len(spine) - 1 : LeftOf(t, spine[j + 1], spine[j])
    BY <1>4 DEF LeftRun
  <2> QED
    BY <2>1, <2>2
<1>6. Stretched(w, D, path, n, spine)
  BY <1>1, <1>5, Stretches
<1>7. PICK l, k \in Nat : l = Len(path) /\ k = Len(spine) /\ l \in Nat
  BY SMTT(40), <1>1
<1>8. /\ w \in Seq(D) /\ Len(w) = l + 1 + k /\ \A i \in 1 .. l : w[i] = path[i]
      /\ w[l + 1] = n /\ \A j \in 1 .. k : w[l + 1 + j] = spine[j]
  BY <1>6, <1>7 DEF Stretched
<1>9. l # 0 => Below(t, D, n, path[l])
  <2>1. l # 0 => ParentOf(path) = path[l]
    BY <1>1, <1>7, ParentLast
  <2> QED
    BY <2>1 DEF Leads
<1>10. w[1] = t.root
  <2>1. CASE l = 0
    <3>1. ParentOf(path) = NULL
      BY Zenon, <1>1, <1>7, <2>1, ParentLast
    <3>2. t.root = n
      BY <3>1 DEF Leads, Below
    <3> QED
      BY <1>8, <2>1, <3>2
  <2>2. CASE l # 0
    <3>1. 1 \in 1 .. l
      BY <1>7, <2>2
    <3>2. path[1] = t.root
      BY <1>1, <1>7, <2>2 DEF Chain
    <3> QED
      BY Zenon, <1>8, <3>1, <3>2
  <2> QED
    BY <2>1, <2>2
<1>11. ASSUME NEW j \in 1 .. Len(w) - 1 PROVE Below(t, D, w[j + 1], w[j])
  <2>0. j \in Nat /\ j <= l + k
    BY <1>7, <1>8
  <2>1. CASE j < l
    <3>1. j \in 1 .. l /\ j + 1 \in 1 .. l /\ j \in 1 .. Len(path) - 1
      BY <1>7, <2>0, <2>1
    <3>2. w[j] = path[j] /\ w[j + 1] = path[j + 1]
      BY Zenon, <1>8, <3>1
    <3> QED
      BY Zenon, <1>1, <3>1, <3>2 DEF Chain
  <2>2. CASE j = l
    <3>1. j \in 1 .. l /\ l # 0
      BY <1>7, <2>0, <2>2
    <3>2. w[j] = path[l] /\ w[j + 1] = n
      BY Zenon, <1>8, <2>2, <3>1
    <3> QED
      BY <1>9, <3>1, <3>2
  <2>3. CASE j = l + 1
    <3>1. 1 \in 1 .. k /\ j + 1 = l + 1 + 1
      BY <1>5, <1>7, <2>3
    <3>2. w[j] = n /\ w[j + 1] = r
      BY <1>5, <1>8, <2>3, <3>1
    <3>3. RightOf(t, r, n)
      BY <1>2 DEF RightOf
    <3> QED
      BY <1>1, <3>2, <3>3 DEF Below
  <2>4. CASE j > l + 1
    <3>1. PICK i \in Int : i = j - l - 1
      <4>1. j - l - 1 \in Int
        BY <1>7, <2>0
      <4> QED
        BY <4>1
    <3>2. i \in 1 .. k /\ i + 1 \in 1 .. k /\ i \in 1 .. Len(spine) - 1 /\ j = l + 1 + i /\ j + 1 = l + 1 + (i + 1)
      BY <1>7, <2>0, <2>4, <3>1
    <3>3. w[j] = spine[i] /\ w[j + 1] = spine[i + 1]
      BY <1>8, <3>2
    <3>4. LeftOf(t, spine[i + 1], spine[i]) /\ spine[i] \in D
      BY <1>5, <1>7, <3>2
    <3> QED
      BY <1>1, <3>3, <3>4 DEF Below
  <2> QED
    BY <1>7, <2>0, <2>1, <2>2, <2>3, <2>4
<1> QED
  BY <1>2, <1>4, <1>6, <1>10, <1>11 DEF Chain

\* The successor next of n, found at the end of the left spine below n's right
\* child, and the node nextp it hangs below.
Spine(t, n, spine, next, nextp) ==
    /\ spine = LeftSpine(t, t.node[n].right) /\ next = Last(spine)
    /\ nextp = IF Len(spine) = 1 THEN n ELSE spine[Len(spine) - 1]

AtOnce(n, spine, nextp) == (nextp = n) <=> (Len(spine) = 1)

LEMMA TakenNodes ==
    ASSUME NEW t, NEW D, TreeType(t, D), NEW n \in D, NEW next \in D, next # n,
           NEW nextp \in D, nextp # next,
           NEW b, b = IF nextp = n
                      THEN [t EXCEPT !.node[next].balance = t.node[n].balance - 1]
                      ELSE [t EXCEPT
                    !.node[nextp] = [t.node[nextp] EXCEPT
                        !.left       = IF t.node[next].right_child THEN t.node[next].right ELSE @,
                        !.left_child = t.node[next].right_child,
                        !.balance    = @ + 1],
                    !.node[next] = [t.node[next] EXCEPT
                        !.right       = t.node[n].right,
                        !.right_child = TRUE,
                        !.balance     = t.node[n].balance]]
    PROVE  Took(t, b, D, n, next, nextp)
<1>1. CASE nextp = n
  BY <1>1, TookOne
<1>2. CASE nextp # n
  <2>1. PICK a : a = NodeSet(t, nextp, LiftLeft(t.node[nextp], Onto(t, next, nextp),
                                               t.node[next].right_child, 1))
    OBVIOUS
  <2>2. b = NodeSet(a, next, TakeRight(t.node[next], t.node[n].right, t.node[n].balance))
    BY <1>2, <2>1 DEF NodeSet, LiftLeft, Onto, TakeRight
  <2> QED
    BY <1>2, <2>1, <2>2, TookMany
<1> QED
  BY <1>1, <1>2

LEMMA UnlinkInnerNodes ==
    ASSUME NEW t, NEW D, TreeType(t, D), NULL \notin D, NEW n \in D, t.node[n].left_child,
           NEW path, NEW p, p = ParentOf(path),
           NEW spine, NEW next, NEW nextp, Spine(t, n, spine, next, nextp),
           AtOnce(n, spine, nextp),
           NEW prev, prev = PreviousNode(t, n), NEW x, Around(t, D, n, next, prev, nextp, p, x),
           SideAgrees(t, n, p), NEW y, y = UnlinkInner(t, n, path), NEW u, u = y.tree
    PROVE  /\ y.way = Through(path, next, Front(spine))
           /\ Kin(t, u, D) /\ MovedIn(t, u, D, n, next, prev, nextp, p)
<1>1. /\ next \in D /\ next # n /\ prev \in D /\ prev # n /\ prev # next
      /\ nextp \in D /\ nextp # next /\ nextp # prev
      /\ p \in D \cup {NULL} /\ p # n /\ p # next /\ p # prev /\ p # nextp
  BY DEF Around
<1>2. prev = Rightmost(t, t.node[n].left)
  BY DEF PreviousNode
<1>3. PICK b : b = IF nextp = n
                      THEN [t EXCEPT !.node[next].balance = t.node[n].balance - 1]
                      ELSE [t EXCEPT
                    !.node[nextp] = [t.node[nextp] EXCEPT
                        !.left       = IF t.node[next].right_child THEN t.node[next].right ELSE @,
                        !.left_child = t.node[next].right_child,
                        !.balance    = @ + 1],
                    !.node[next] = [t.node[next] EXCEPT
                        !.right       = t.node[n].right,
                        !.right_child = TRUE,
                        !.balance     = t.node[n].balance]]
  BY Zenon
<1>4. PICK c : c = NodeSet(b, prev, PutRight(b.node[prev], next))
  OBVIOUS
<1>5. PICK d : d = NodeSet(c, next, TakeLeft(c.node[next], t.node[n].left))
  OBVIOUS
<1>6. PICK g : g = IsLeftNode(t, n, p)
  OBVIOUS
<1>7. u = SetChild(d, next, p, g) /\ y.way = Through(path, next, Front(spine))
  <2>1. /\ spine = LeftSpine(t, t.node[n].right) /\ next = Last(spine)
        /\ Len(spine) # 1 => nextp = spine[Len(spine) - 1]
    BY SMTT(40) DEF Spine
  <2>2. CASE nextp = n
    BY ZenonT(60), <1>2, <1>3, <1>4, <1>5, <1>6, <2>1, <2>2
       DEF AtOnce, UnlinkInner, PrevThread, NodeSet, PutRight, TakeLeft, Through
  <2>3. CASE nextp # n
    BY ZenonT(60), <1>2, <1>3, <1>4, <1>5, <1>6, <2>1, <2>3
       DEF AtOnce, UnlinkInner, PrevThread, NodeSet, PutRight, TakeLeft, Through
  <2> QED
    BY <2>2, <2>3
<1>8. Took(t, b, D, n, next, nextp)
  BY Zenon, <1>1, <1>3, TakenNodes
<1>9. Kin(t, u, D) /\ MovedIn(t, u, D, n, next, prev, nextp, p)
  BY <1>1, <1>4, <1>5, <1>6, <1>7, <1>8, MovesIn DEF SideAgrees
<1> QED
  BY <1>7, <1>9

\* A successor can take the place of its predecessor in the order.
LEMMA SuccessorReorders ==
    ASSUME NEW D, NEW pos, \A m \in D : pos[m] \in Int, \A m, w \in D : pos[m] = pos[w] => m = w,
           NULL \notin D, NEW n \in D, NEW next \in D, next # n, Successive(D, pos, n, next),
           NEW S, S = D \ {next}, NEW R, R = D \ {n},
           NEW r, r[n] = next, \A m \in S : m # n => r[m] = m,
           NEW pos1, pos1 = Kept(S, pos), NEW pos2, pos2 = Kept(R, pos)
    PROVE  Reordered(S, R, r, pos1, pos2)
<1>1. pos2 \in [R -> Int]
  BY DEF Kept
<1>2. n # NULL /\ next # NULL /\ pos[n] < pos[next] /\ \A m \in D : ~(pos[n] < pos[m] /\ pos[m] < pos[next])
  BY DEF Successive, Before, Adjacent
<1>3. ASSUME NEW b \in D, b # n, b # next PROVE pos[n] < pos[b] <=> pos[next] < pos[b]
  <2>1. ~(pos[n] < pos[b] /\ pos[b] < pos[next]) /\ pos[b] # pos[next]
    BY <1>2, <1>3
  <2>2. pos[n] \in Int /\ pos[b] \in Int /\ pos[next] \in Int
    OBVIOUS
  <2> QED
    BY <1>2, <2>1, <2>2
<1>4. ASSUME NEW b \in D, b # n, b # next PROVE pos[b] < pos[n] <=> pos[b] < pos[next]
  <2>1. ~(pos[n] < pos[b] /\ pos[b] < pos[next]) /\ pos[b] # pos[n]
    BY <1>2, <1>4
  <2>2. pos[n] \in Int /\ pos[b] \in Int /\ pos[next] \in Int
    OBVIOUS
  <2> QED
    BY <1>2, <2>1, <2>2
<1>5. /\ \A m \in S : pos1[m] = pos[m] /\ m \in D /\ m # next
      /\ \A m \in R : pos2[m] = pos[m]
  BY DEF Kept
<1>6. ASSUME NEW a \in S, NEW b \in S PROVE pos1[a] < pos1[b] <=> pos2[r[a]] < pos2[r[b]]
  <2>1. pos1[a] = pos[a] /\ pos1[b] = pos[b] /\ a \in D /\ b \in D /\ a # next /\ b # next
    BY Zenon, <1>5
  <2>2. next \in R /\ pos2[next] = pos[next]
    BY Zenon, <1>5
  <2>3. CASE a = n /\ b = n
    BY <2>1, <2>3, <2>2
  <2>4. CASE a = n /\ b # n
    <3>1. r[a] = next /\ r[b] = b /\ pos2[b] = pos[b]
      BY <1>5, <2>4
    <3> QED
      BY <1>3, <2>1, <2>2, <2>4, <3>1
  <2>5. CASE a # n /\ b = n
    <3>1. r[b] = next /\ r[a] = a /\ pos2[a] = pos[a]
      BY <1>5, <2>5
    <3> QED
      BY <1>4, <2>1, <2>2, <2>5, <3>1
  <2>6. CASE a # n /\ b # n
    <3>1. r[b] = b /\ r[a] = a /\ pos2[a] = pos[a] /\ pos2[b] = pos[b]
      BY Zenon, <1>5, <2>6
    <3> QED
      BY <2>1, <3>1
  <2> QED
    BY <2>3, <2>4, <2>5, <2>6
<1> QED
  BY Zenon, <1>1, <1>6 DEF Reordered

OnlyRenames(r, D, n, next) == r[n] = next /\ \A m \in D : m # n /\ m # next => r[m] = m

\* The way UnlinkInner gives is the way to next's old parent, with next for n.
LEMMA InnerWayRenamed ==
    ASSUME NEW D, NEW path \in Seq(D), NEW n \in D, NEW spine \in Seq(D), Len(spine) # 0,
           NEW w, Stretched(w, D, path, n, spine), OnceEach(w, D),
           NEW next \in D, next = w[Len(w)], NEW path1, Shortened(path1, w),
           NEW r, OnlyRenames(r, D, n, next)
    PROVE  Through(path, next, Front(spine)) = RenamedWay(r, path1)
<1>1. PICK l \in Nat, k \in Nat : l = Len(path) /\ k + 1 = Len(spine)
  <2>1. PICK m \in Nat : m = Len(spine) /\ m - 1 \in Nat
    OBVIOUS
  <2>2. Len(path) \in Nat /\ (m - 1) + 1 = Len(spine)
    BY <2>1
  <2> QED
    BY <2>1, <2>2
<1>2. PICK tail : tail = Front(spine)
  OBVIOUS
<1>3. tail \in Seq(D) /\ Len(tail) = k /\ \A j \in 1 .. k : tail[j] = spine[j]
  <2>1. tail = [j \in 1 .. k |-> spine[j]]
    <3>1. Len(spine) - 1 = k
      BY <1>1
    <3> QED
      BY <1>2, <3>1 DEF Front
  <2>2. \A j \in 1 .. k : spine[j] \in D
    BY <1>1
  <2>3. tail \in [1 .. k -> D]
    BY <2>1, <2>2
  <2>4. tail \in Seq(D)
    BY <2>3
  <2>5. DOMAIN tail = 1 .. k /\ \A j \in 1 .. k : tail[j] = spine[j]
    BY <2>1
  <2> QED
    BY <1>1, <2>4, <2>5
<1>4. PICK a : a = Through(path, next, tail)
  OBVIOUS
<1>5. /\ a \in Seq(D) /\ Len(a) = l + 1 + k
      /\ \A i \in 1 .. l : a[i] = path[i]
      /\ a[l + 1] = next
      /\ \A j \in 1 .. k : a[l + 1 + j] = tail[j]
  <2>1. Stretched(a, D, path, next, tail)
    BY <1>3, <1>4, Stretches
  <2> QED
    BY <1>1, <1>3, <2>1 DEF Stretched
<1>6. /\ w \in Seq(D) /\ Len(w) = l + 1 + (k + 1)
      /\ \A i \in 1 .. l : w[i] = path[i]
      /\ w[l + 1] = n
      /\ \A j \in 1 .. k + 1 : w[l + 1 + j] = spine[j]
  BY Zenon, <1>1 DEF Stretched
<1>7. Len(path1) = l + 1 + k /\ \A i \in 1 .. l + 1 + k : path1[i] = w[i]
  BY <1>6 DEF Shortened
<1>8. ASSUME NEW i \in 1 .. l + 1 + k PROVE a[i] = r[path1[i]]
  <2>1. i \in 1 .. Len(w) /\ i # Len(w) /\ Len(w) \in 1 .. Len(w) /\ l + 1 \in 1 .. Len(w)
    BY <1>6
  <2>2. w[i] # next /\ w[i] \in D
    BY <1>6, <2>1 DEF OnceEach
  <2>3. i # l + 1 => w[i] # n
    BY <1>6, <2>1 DEF OnceEach
  <2>4. path1[i] = w[i]
    BY <1>7
  <2>5. CASE i = l + 1
    BY <1>5, <1>6, <2>4, <2>5 DEF OnlyRenames
  <2>6. CASE i < l + 1
    <3>1. i \in 1 .. l
      BY <2>6
    <3>2. a[i] = w[i]
      BY <1>5, <1>6, <3>1
    <3> QED
      BY <2>2, <2>3, <2>4, <2>6, <3>2 DEF OnlyRenames
  <2>7. CASE i > l + 1
    <3>1. PICK j \in 1 .. k : i = l + 1 + j
      <4>1. i - (l + 1) \in 1 .. k /\ i = l + 1 + (i - (l + 1))
        BY <2>7
      <4> QED
        BY <4>1
    <3>2. a[i] = tail[j] /\ tail[j] = spine[j] /\ w[i] = spine[j]
      BY <1>3, <1>5, <1>6, <3>1
    <3> QED
      BY <2>2, <2>3, <2>4, <2>7, <3>2 DEF OnlyRenames
  <2> QED
    BY <2>5, <2>6, <2>7
<1>9. a = [i \in 1 .. l + 1 + k |-> a[i]]
  BY <1>5
<1>10. RenamedWay(r, path1) = [i \in 1 .. l + 1 + k |-> r[path1[i]]]
  BY <1>7 DEF RenamedWay
<1>11. a = RenamedWay(r, path1)
  BY <1>8, <1>9, <1>10
<1> QED
  BY <1>2, <1>4, <1>11

\* What InnerSuccessor below shows of next, and of the way w to it, which
\* begins with path and n; path1 is w without next.
Succeeds(t, D, n, path, spine, w, path1, next, nextp) ==
    /\ next = NextNode(t, n) /\ next \in D /\ next = w[Len(w)]
    /\ spine \in Seq(D) /\ Len(spine) # 0
    /\ Stretched(w, D, path, n, spine) /\ OnceEach(w, D)
    /\ Shortened(path1, w)
    /\ Leads(t, D, path1, next) /\ nextp = ParentOf(path1) /\ nextp \in D
    /\ AtOnce(n, spine, nextp)
    /\ ~t.node[next].left_child
    /\ OnLeft(t, n, next, nextp)

LEMMA InnerSuccessor ==
    ASSUME NEW t, NEW D, NEW pos, NEW lo, NEW hi, NEW up, NEW h, Sound(t, D, pos, lo, hi, up, h),
           NEW path, NEW n, Leads(t, D, path, n), t.node[n].right_child,
           NEW spine, NEW next, NEW nextp, Spine(t, n, spine, next, nextp),
           NEW w, w = Through(path, n, spine), NEW path1, path1 = Front(w)
    PROVE  Succeeds(t, D, n, path, spine, w, path1, next, nextp)
<1>1. /\ LeftRun(t, D, lo, h, spine, t.node[n].right)
      /\ Stretched(w, D, path, n, spine) /\ Chain(t, D, w, Len(w))
  BY InnerWay DEF Spine
<1>2. /\ spine \in Seq(D) /\ Len(spine) \in Nat \ {0} /\ spine[1] = t.node[n].right
      /\ \A j \in 1 .. Len(spine) - 1 : LeftOf(t, spine[j + 1], spine[j])
      /\ ~t.node[spine[Len(spine)]].left_child
  BY <1>1 DEF LeftRun, OnceEach
<1>3. n \in D /\ path \in Seq(D) /\ NULL \notin D
  BY SoundParts DEF Leads, OnceEach
<1>4. PICK l \in Nat, k \in Nat : l = Len(path) /\ k = Len(spine) /\ k # 0
  <2>1. Len(path) \in Nat
    BY <1>3
  <2> QED
    BY <1>2, <2>1
<1>5. /\ w \in Seq(D) /\ Len(w) = l + 1 + k
      /\ w[l + 1] = n
      /\ \A j \in 1 .. k : w[l + 1 + j] = spine[j]
  BY <1>1, <1>4 DEF Stretched
<1>6. spine # <<>>
  BY <1>2
<1>7. next = spine[k] /\ next = w[Len(w)] /\ next \in D
  <2>1. next = spine[k]
    BY <1>4, <1>6 DEF Spine, Last
  <2>2. k \in 1 .. k /\ Len(w) = l + 1 + k
    BY <1>4, <1>5
  <2>3. spine[k] \in D
    BY <1>2, <1>4, <2>2
  <2> QED
    BY <1>5, <2>1, <2>2, <2>3
<1>8. next = NextNode(t, n)
  BY DEF NextNode, Leftmost, Spine
<1>9. /\ OnceEach(w, D) /\ Leads(t, D, path1, next)
      /\ Shortened(path1, w)
  <2>1. Len(w) # 0 /\ w \in Seq(D)
    BY <1>5
  <2>2. Chain(t, D, w, Len(w)) /\ next = w[Len(w)]
    BY <1>1, <1>7
  <2> QED
    BY <2>1, <2>2, ChainLeads
<1>10. ParentOf(path1) = w[l + k]
  <2>1. Len(path1) = l + k /\ Len(path1) # 0 /\ l + k \in 1 .. Len(w) - 1
    BY <1>4, <1>5, <1>9 DEF Shortened
  <2>2. path1 \in Seq(D)
    BY <1>9 DEF Leads, OnceEach
  <2>3. ParentOf(path1) = path1[l + k]
    BY <2>1, <2>2, ParentLast
  <2> QED
    BY <1>9, <2>1, <2>3 DEF Shortened
<1>11. CASE k = 1
  <2>1. nextp = n /\ next = t.node[n].right
    BY Zenon, <1>2, <1>4, <1>7, <1>11 DEF Spine
  <2>2. w[l + k] = n
    BY <1>5, <1>11
  <2>3. ~LeftOf(t, next, n)
    <3>1. Shape(t, D, pos, lo, hi, up)
      BY SoundParts
    <3>2. t.node[n].left_child => t.node[n].left # t.node[n].right
      BY <1>3, <3>1, Children
    <3> QED
      BY <2>1, <3>2 DEF LeftOf
  <2>4. OnLeft(t, n, next, nextp)
    BY <2>1, <2>3 DEF OnLeft
  <2> QED
    BY <1>1, <1>2, <1>3, <1>4, <1>7, <1>8, <1>9, <1>10, <1>11, <2>1, <2>2, <2>4 DEF Succeeds, AtOnce
<1>12. CASE k # 1
  <2>1. PICK j \in 1 .. k - 1 : j = k - 1 /\ j + 1 = k
    <3>1. k - 1 \in 1 .. k - 1 /\ (k - 1) + 1 = k
      BY <1>4, <1>12
    <3> QED
      BY <3>1
  <2>2. j \in 1 .. k /\ l + 1 + j = l + k /\ l + k \in 1 .. Len(w) /\ l + 1 \in 1 .. Len(w) /\ l + k # l + 1
    BY <1>4, <1>5, <1>12, <2>1
  <2>3. nextp = spine[j]
    BY <1>4, <1>12, <2>1 DEF Spine
  <2>4. nextp = w[l + k]
    BY Zenon, <1>5, <2>2, <2>3
  <2>5. nextp # n
    <3>1. w[l + k] = w[l + 1] => l + k = l + 1
      BY <1>9, <2>2 DEF OnceEach
    <3>2. w[l + 1] = n
      BY <1>5
    <3> QED
      BY Zenon, <2>2, <2>4, <3>1, <3>2
  <2>6. nextp \in D
    BY <1>2, <1>4, <2>2, <2>3
  <2>7. LeftOf(t, next, nextp)
    BY Zenon, <1>2, <1>4, <1>7, <2>1, <2>3
  <2>8. OnLeft(t, n, next, nextp)
    BY <2>5, <2>7 DEF OnLeft
  <2> QED
    BY <1>1, <1>2, <1>3, <1>4, <1>7, <1>8, <1>9, <1>10, <1>12, <2>4, <2>5, <2>6, <2>8 DEF Succeeds, AtOnce
<1> QED
  BY <1>11, <1>12

LEMMA UnlinkInnerUnlinks ==
    ASSUME NEW t, NEW D, NEW pos, NEW lo, NEW hi, NEW up, NEW h, Sound(t, D, pos, lo, hi, up, h),
           NEW n, HasBoth(t, n), NEW path, Leads(t, D, path, n),
           NEW y, y = UnlinkInner(t, n, path), NEW u, u = y.tree, NEW way, way = y.way,
           NEW R, R = D \ {n}, NEW pos2, pos2 = Kept(R, pos)
    PROVE  Unlinked(t, u, D, R, pos2, way)
<1>1. n \in D /\ path \in Seq(D) /\ t.node[n].left_child /\ t.node[n].right_child
  BY DEF Leads, OnceEach, HasBoth
<1>2. TreeType(t, D) /\ Shape(t, D, pos, lo, hi, up) /\ NULL \notin D
  BY SoundParts
<1>3. PICK p : p = ParentOf(path) /\ Below(t, D, n, p)
  BY DEF Leads
<1>4. PICK spine, next, nextp : Spine(t, n, spine, next, nextp)
  BY DEF Spine
<1>5. PICK w, path1 : w = Through(path, n, spine) /\ path1 = Front(w)
  OBVIOUS
<1>23. Succeeds(t, D, n, path, spine, w, path1, next, nextp)
  BY <1>1, <1>4, <1>5, InnerSuccessor
<1>6. /\ next = NextNode(t, n) /\ next \in D
      /\ Leads(t, D, path1, next) /\ nextp = ParentOf(path1) /\ nextp \in D
      /\ ~t.node[next].left_child
      /\ OnLeft(t, n, next, nextp)
  BY <1>23 DEF Succeeds
<1>24. AtOnce(n, spine, nextp)
  BY <1>23 DEF Succeeds
<1>7. Below(t, D, next, nextp) /\ nextp # NULL
  BY <1>2, <1>6 DEF Leads
<1>8. PICK prev : prev = PreviousNode(t, n)
  OBVIOUS
<1>9. PICK x : x = IF t.node[next].right_child THEN NextNode(t, next) ELSE NULL
  OBVIOUS
<1>10. Around(t, D, n, next, prev, nextp, p, x)
  <2>1. nextp # n => LeftOf(t, next, nextp)
    BY <1>6 DEF OnLeft
  <2> QED
    BY <1>1, <1>3, <1>6, <1>7, <1>8, <1>9, <2>1, KnowsAround
<1>11. PICK S, R1, pos1 : S = D \ {next} /\ pos1 = Kept(S, pos) /\ R1 = R
  BY Zenon
<1>12. \E v : /\ Kin(t, v, D) /\ RightLifted(t, v, D, next, nextp, x)
              /\ Lightened(t, v, D, next, nextp)
  <2>1. CASE t.node[next].right_child
    <3>1. PICK z, v : z = UnlinkWithRightChild(t, next, path1) /\ v = z.tree
      OBVIOUS
    <3>2. x = NextNode(t, next)
      BY <1>9, <2>1
    <3>3. Kin(t, v, D) /\ RightLifted(t, v, D, next, nextp, x) /\ Lightened(t, v, D, next, nextp)
      BY <1>6, <1>7, <2>1, <3>1, <3>2, UnlinkRightNodes
    <3> QED
      BY <3>3
  <2>2. CASE ~t.node[next].right_child
    <3>1. PICK z, v : z = UnlinkLeaf(t, next, path1) /\ v = z.tree
      OBVIOUS
    <3>2. x = NULL
      BY <1>9, <2>2
    <3>3. Kin(t, v, D) /\ RightLifted(t, v, D, next, nextp, x) /\ Lightened(t, v, D, next, nextp)
      BY <1>2, <1>6, <1>7, <2>2, <3>1, <3>2, UnlinkLeafNodes
    <3> QED
      BY <3>3
  <2> QED
    BY <2>1, <2>2
<1>13. PICK v : /\ Kin(t, v, D) /\ RightLifted(t, v, D, next, nextp, x)
                /\ Lightened(t, v, D, next, nextp)
  BY <1>12
<1>14. Unlinked(t, v, D, S, pos1, path1)
  BY <1>6, <1>9, <1>11, <1>13, RightLiftUnlinks
<1>15. PICK lo1, hi1, up1 : Shape(v, S, pos1, lo1, hi1, up1)
  BY <1>14 DEF Unlinked
<1>16. /\ way = Through(path, next, Front(spine))
       /\ Kin(t, u, D) /\ MovedIn(t, u, D, n, next, prev, nextp, p)
  <2>1. SideAgrees(t, n, p)
    BY <1>1, <1>2, <1>3, SideKnown DEF SideAgrees
  <2> QED
    BY <1>1, <1>2, <1>3, <1>4, <1>8, <1>10, <1>24, <2>1, UnlinkInnerNodes
<1>17. next # n
  BY <1>10 DEF Around
<1>18. PICK r, q : r = Renaming(S, n, next) /\ q = Renaming(R, next, n)
  OBVIOUS
<1>19. Renames(r, q, S, R) /\ Renamed(v, u, R, r, q)
  <2>1. RightLifted(t, v, D, next, nextp, x) /\ Lightened(t, v, D, next, nextp)
    BY <1>13
  <2>2. MovedIn(t, u, D, n, next, prev, nextp, p) /\ OnLeft(t, n, next, nextp) /\ n \in D
    BY <1>1, <1>6, <1>16
  <2>3. TreeType(t, D) /\ NULL \notin D /\ S = D \ {next}
    BY <1>2, <1>11
  <2> QED
    BY <1>10, <1>15, <1>18, <2>1, <2>2, <2>3, InnerRenames
<1>20. r[n] = next /\ \A m \in S \cup {NULL} : m # n => r[m] = m
  BY <1>1, <1>2, <1>6, <1>11, <1>17, <1>18, RenamingRenames
<1>21. Reordered(S, R, r, pos1, pos2)
  <2>1. Successive(D, pos, n, next)
    BY <1>1, <1>6, NextSuccessive
  <2>2. (\A m \in D : pos[m] \in Int) /\ (\A m, z \in D : pos[m] = pos[z] => m = z)
    BY <1>2 DEF Shape, Ghosts
  <2>3. \A m \in S : m # n => r[m] = m
    BY <1>20
  <2> QED
    <3>1. n \in D /\ next \in D /\ S = D \ {next} /\ pos1 = Kept(S, pos) /\ NULL \notin D /\ r[n] = next
      BY <1>1, <1>2, <1>6, <1>11, <1>20
    <3> QED
      BY <1>17, <2>1, <2>2, <2>3, <3>1, SuccessorReorders
<1>22. way = RenamedWay(r, path1)
  <2>1. OnlyRenames(r, D, n, next)
    BY <1>11, <1>20 DEF OnlyRenames
  <2>2. path \in Seq(D) /\ n \in D /\ next \in D /\ next = w[Len(w)]
    BY <1>1, <1>23 DEF Succeeds
  <2>3. /\ spine \in Seq(D) /\ Len(spine) # 0 /\ Stretched(w, D, path, n, spine) /\ OnceEach(w, D)
        /\ Shortened(path1, w)
    BY <1>23 DEF Succeeds
  <2>4. Through(path, next, Front(spine)) = RenamedWay(r, path1)
    BY <2>1, <2>2, <2>3, InnerWayRenamed
  <2> QED
    BY <1>16, <2>4
<1> QED
  BY <1>14, <1>16, <1>19, <1>21, <1>22, RenamedUnlinked

-----------------------------------------------------------------------------
(* tree_remove_node_internal.                                               *)

LEMMA UnlinkNodeUnlinks ==
    ASSUME NEW t, NEW D, NEW pos, NEW lo, NEW hi, NEW up, NEW h, Sound(t, D, pos, lo, hi, up, h),
           NEW n, NEW path, Leads(t, D, path, n),
           NEW y, y = UnlinkNode(t, n, path), NEW u, u = y.tree, NEW way, way = y.way,
           NEW S, S = D \ {n}, NEW pos2, pos2 = Kept(S, pos)
    PROVE  Unlinked(t, u, D, S, pos2, way)
<1>1. n \in D /\ TreeType(t, D) /\ Shape(t, D, pos, lo, hi, up)
  BY SoundParts DEF Leads
<1>2. PICK p : p = ParentOf(path) /\ Below(t, D, n, p)
  BY DEF Leads
<1>3. CASE ~t.node[n].left_child /\ ~t.node[n].right_child
  <2>1. y = UnlinkLeaf(t, n, path)
    BY <1>3 DEF UnlinkNode
  <2>2. PICK x : x = NULL
    OBVIOUS
  <2>3. way = path /\ Kin(t, u, D) /\ RightLifted(t, u, D, n, p, x) /\ Lightened(t, u, D, n, p)
    BY <1>1, <1>2, <1>3, <2>1, <2>2, UnlinkLeafNodes
  <2>4. x = IF t.node[n].right_child THEN NextNode(t, n) ELSE NULL
    BY <1>3, <2>2
  <2> QED
    BY <1>2, <1>3, <2>3, <2>4, RightLiftUnlinks
<1>4. CASE ~t.node[n].left_child /\ t.node[n].right_child
  <2>1. y = UnlinkWithRightChild(t, n, path)
    BY <1>4 DEF UnlinkNode
  <2>2. PICK x : x = NextNode(t, n)
    OBVIOUS
  <2>3. way = path /\ Kin(t, u, D) /\ RightLifted(t, u, D, n, p, x) /\ Lightened(t, u, D, n, p)
    BY <1>1, <1>2, <1>4, <2>1, <2>2, UnlinkRightNodes
  <2>4. x = IF t.node[n].right_child THEN NextNode(t, n) ELSE NULL
    BY <1>4, <2>2
  <2> QED
    BY <1>2, <1>4, <2>3, <2>4, RightLiftUnlinks
<1>5. CASE t.node[n].left_child /\ ~t.node[n].right_child
  <2>1. y = UnlinkWithLeftChild(t, n, path)
    BY <1>5 DEF UnlinkNode
  <2>2. PICK x : x = PreviousNode(t, n)
    OBVIOUS
  <2>3. way = path /\ Kin(t, u, D) /\ LeftLifted(t, u, D, n, p, x) /\ Lightened(t, u, D, n, p)
    BY <1>1, <1>2, <1>5, <2>1, <2>2, UnlinkLeftNodes
  <2>4. x = IF t.node[n].left_child THEN PreviousNode(t, n) ELSE NULL
    BY <1>5, <2>2
  <2> QED
    BY <1>2, <1>5, <2>3, <2>4, LeftLiftUnlinks
<1>6. CASE t.node[n].left_child /\ t.node[n].right_child
  <2>1. y = UnlinkInner(t, n, path)
    BY <1>6 DEF UnlinkNode
  <2>2. HasBoth(t, n)
    BY <1>1, <1>6, Fields DEF HasBoth
  <2> QED
    BY <2>1, <2>2, UnlinkInnerUnlinks
<1> QED
  BY <1>3, <1>4, <1>5, <1>6

\* In a tree of the nodes S no pointer leaves S.
LEMMA ShapeClosed ==
    ASSUME NEW t, NEW S, NEW pos, NEW lo, NEW hi, NEW up, Shape(t, S, pos, lo, hi, up)
    PROVE  /\ t.root \in S \cup {NULL}
           /\ \A m \in S : t.node[m].left \in S \cup {NULL} /\ t.node[m].right \in S \cup {NULL}
<1>1. t.root \in S \cup {NULL}
  BY DEF Shape, Rooted
<1>2. ASSUME NEW m \in S PROVE t.node[m].left \in S \cup {NULL} /\ t.node[m].right \in S \cup {NULL}
  <2>1. lo[m] \in S \cup {NULL} /\ hi[m] \in S \cup {NULL}
    BY DEF Shape, Ghosts
  <2>2. LeftPlaced(t, S, pos, lo, hi, up, m) /\ RightPlaced(t, S, pos, lo, hi, up, m)
    BY DEF Shape, Placed
  <2>3. t.node[m].left \in S \cup {NULL}
    BY <2>1, <2>2 DEF LeftPlaced
  <2>4. t.node[m].right \in S \cup {NULL}
    BY <2>1, <2>2 DEF RightPlaced
  <2> QED
    BY <2>3, <2>4
<1> QED
  BY <1>1, <1>2

\* Memory given back.
Only(t, u, S) ==
    /\ TreeType(u, S) /\ u.root = t.root /\ u.nnodes = t.nnodes - 1
    /\ \A m \in S : u.node[m] = t.node[m]

LEMMA FreedNodes ==
    ASSUME NEW t, NEW D, TreeType(t, D), NEW n \in D, NEW S, S = D \ {n},
           NEW pos, NEW lo, NEW hi, NEW up, Shape(t, S, pos, lo, hi, up),
           NEW u, u = Freed(t, n)
    PROVE  Only(t, u, S)
<1>1. PICK K, V : t \in Trees(D, Node(K, V, D \cup {NULL}), D \cup {NULL})
  BY DEF TreeType
<1>2. /\ DOMAIN t = {"root", "node", "nnodes"} /\ t.nnodes \in Int /\ DOMAIN t.node = D
      /\ \A m \in D : t.node[m] \in Node(K, V, D \cup {NULL})
  BY Zenon, <1>1 DEF Trees
<1>3. PICK f : f = [m \in S |-> t.node[m]]
  BY Zenon
<1>4. u = [t EXCEPT !.node = f, !.nnodes = t.nnodes - 1]
  BY <1>2, <1>3 DEF Freed, Restrict
<1>5. /\ DOMAIN u = {"root", "node", "nnodes"} /\ u.node = f /\ u.root = t.root
      /\ u.nnodes = t.nnodes - 1 /\ u = [root |-> u.root, node |-> u.node, nnodes |-> u.nnodes]
  BY Zenon, <1>1, <1>4 DEF Trees
<1>6. ASSUME NEW m \in S PROVE u.node[m] = t.node[m] /\ t.node[m] \in Node(K, V, S \cup {NULL})
  <2>1. u.node[m] = t.node[m]
    BY <1>3, <1>5
  <2>2. t.node[m].left \in S \cup {NULL} /\ t.node[m].right \in S \cup {NULL}
    BY ShapeClosed
  <2>3. t.node[m] \in Node(K, V, D \cup {NULL})
    BY <1>2
  <2> QED
    BY <2>1, <2>2, <2>3 DEF Node
<1>7. u.node \in [S -> Node(K, V, S \cup {NULL})]
  BY Zenon, <1>3, <1>5, <1>6
<1>8. u.root \in S \cup {NULL} /\ u.nnodes \in Int
  BY <1>2, <1>5, ShapeClosed
<1>9. u \in Trees(S, Node(K, V, S \cup {NULL}), S \cup {NULL})
  BY <1>5, <1>7, <1>8 DEF Trees
<1> QED
  BY <1>5, <1>6, <1>9 DEF Only, TreeType

\* The tree is without n, and the other nodes hold what they held.
Removed(t, u, D, n) ==
    /\ TreeType(u, D \ {n}) /\ u.nnodes = t.nnodes - 1 /\ SameData(t, u, D \ {n})

LEMMA HoldsOnly ==
    ASSUME NEW t, NEW S, NEW u, Only(t, u, S), IsFiniteSet(S), u.nnodes = Cardinality(S),
           NEW pos, \E lo, hi, up : Shape(t, S, pos, lo, hi, up), \E h : Settled(t, S, h)
    PROVE  Holds(u, S, pos)
<1>1. PICK lo, hi, up, h : Shape(t, S, pos, lo, hi, up) /\ Settled(t, S, h)
  OBVIOUS
<1>2. \A m \in S : SameSides(t, u, m) /\ u.node[m] = t.node[m]
  BY DEF Only, SameSides, Sides
<1>3. Shape(u, S, pos, lo, hi, up)
  BY <1>1, <1>2, ShapeSame DEF Only
<1>4. Settled(u, S, h)
  BY <1>1, <1>2 DEF Settled, Level, Exact, Tall, LeftHeight, RightHeight
<1>5. TreeType(u, S)
  BY DEF Only
<1> QED
  BY <1>3, <1>4, <1>5 DEF Holds, Sound

LEMMA RemoveNodeKeeps ==
    ASSUME NEW t, NEW D, NEW pos, NEW lo, NEW hi, NEW up, NEW h, Sound(t, D, pos, lo, hi, up, h),
           NEW n, NEW path, Leads(t, D, path, n),
           NEW u, u = RemoveNodeInternal(t, n, path),
           NEW S, S = D \ {n}, NEW pos2, pos2 = Kept(S, pos)
    PROVE  Holds(u, S, pos2) /\ Removed(t, u, D, n)
<1>1. n \in D /\ IsFiniteSet(D) /\ t.nnodes = Cardinality(D)
  BY DEF Leads, Sound
<1>2. PICK y, v, way : y = UnlinkNode(t, n, path) /\ v = y.tree /\ way = y.way
  OBVIOUS
<1>3. Unlinked(t, v, D, S, pos2, way)
  BY <1>2, UnlinkNodeUnlinks
<1>4. PICK r : r = Restore(v, way, -1)
  OBVIOUS
<1>5. u = Freed(r, n)
  BY <1>2, <1>4 DEF RemoveNodeInternal
<1>6. Kin(t, v, D)
  BY <1>3 DEF Unlinked
<1>7. /\ Untouched(v, r, D, S)
      /\ \E lo2, hi2, up2 : Shape(r, S, pos2, lo2, hi2, up2)
      /\ \E k : Settled(r, S, k)
  <2>1. /\ \E lo2, hi2, up2 : Shape(v, S, pos2, lo2, hi2, up2)
        /\ OnceEach(way, S) /\ Chain(v, S, way, Len(way))
        /\ IF Len(way) = 0 THEN \E k : Settled(v, S, k)
                           ELSE \E k : Unsettled(v, S, k, way[Len(way)], 1)
    BY Zenon, <1>3 DEF Unlinked
  <2>2. PICK e, by : e = 1 /\ by = -1
    OBVIOUS
  <2>3. e \in {0, 1} /\ by = Step(e) /\ r = Restore(v, way, by)
    BY <1>4, <2>2 DEF Step
  <2>4. TreeType(v, D) /\ S \subseteq D
    BY <1>6 DEF Kin
  <2>5. IF Len(way) = 0 THEN \E k : Settled(v, S, k)
                        ELSE \E k : Unsettled(v, S, k, way[Len(way)], e)
    BY Zenon, <2>1, <2>2
  <2> QED
    BY Zenon, <2>1, <2>3, <2>4, <2>5, RestoreKeeps
<1>8. TreeType(r, D) /\ r.nnodes = t.nnodes /\ SameData(t, r, D)
  BY <1>6, <1>7 DEF Untouched, Kin, SameData
<1>9. Only(r, u, S)
  <2>1. PICK lo2, hi2, up2 : Shape(r, S, pos2, lo2, hi2, up2)
    BY <1>7
  <2> QED
    BY <1>1, <1>5, <1>8, <2>1, FreedNodes
<1>10. IsFiniteSet(S) /\ Cardinality(S) = Cardinality(D) - 1
  BY <1>1, FS_RemoveElement
<1>11. Holds(u, S, pos2)
  <2>1. u.nnodes = Cardinality(S)
    BY <1>1, <1>8, <1>9, <1>10 DEF Only
  <2> QED
    BY <1>7, <1>9, <1>10, <2>1, HoldsOnly
<1>12. Removed(t, u, D, n)
  BY <1>8, <1>9 DEF Removed, Only, SameData
<1> QED
  BY <1>11, <1>12

-----------------------------------------------------------------------------
(* tree_remove_internal, tree_steal and the two ends.                        *)

LEMMA EmptyRoot ==
    ASSUME NEW t, NEW D, NEW pos, NEW lo, NEW hi, NEW up, NEW h, Sound(t, D, pos, lo, hi, up, h)
    PROVE  (t.root = NULL <=> D = {}) /\ (D # {} => t.root \in D)
<1>1. Shape(t, D, pos, lo, hi, up) /\ NULL \notin D
  BY SoundParts
<1> QED
  BY <1>1 DEF Shape, Rooted

Missed(t, x) == x.tree = t /\ x.found = FALSE
TookKey(t, x, D, pos, n) ==
    /\ x.found = TRUE /\ x.key = t.node[n].key /\ x.value = t.node[n].value
    /\ Holds(x.tree, D \ {n}, Kept(D \ {n}, pos)) /\ Removed(t, x.tree, D, n)

\* tree_remove_internal: without the key nothing changes, with it exactly its
\* node goes, whether a leaf, with one child or with two, and what is left is in
\* order, threaded and balanced again.
THEOREM RemoveKeeps ==
    ASSUME NEW t, NEW D, NEW pos, Holds(t, D, pos), NEW c, NEW key, Directs(D, pos, c, key),
           NEW x, x = RemoveInternal(t, c)
    PROVE  /\ (\A m \in D : pos[m] # key) => Missed(t, x)
           /\ \A n \in D : pos[n] = key => TookKey(t, x, D, pos, n)
<1>1. PICK lo, hi, up, h : Sound(t, D, pos, lo, hi, up, h)
  BY DEF Holds
<1>2. CASE D = {}
  <2>1. t.root = NULL
    BY <1>1, <1>2, EmptyRoot
  <2>2. x = [tree |-> t, found |-> FALSE]
    BY <2>1 DEF RemoveInternal
  <2>3. Missed(t, x)
    BY <2>2 DEF Missed
  <2> QED
    BY <1>2, <2>3
<1>3. CASE D # {}
  <2>1. t.root # NULL
    BY <1>1, <1>3, EmptyRoot
  <2>2. PICK w, n : w = Way(t, c, t.root) /\ n = w[Len(w)]
    OBVIOUS
  <2>3. /\ OnceEach(w, D) /\ Chain(t, D, w, Len(w)) /\ Len(w) \in Nat \ {0}
        /\ Found(t, D, pos, lo, hi, c, key, n)
    BY <1>1, <1>3, <2>2, SearchFinds
  <2>4. w \in Seq(D) /\ Len(w) # 0 /\ w # <<>>
    BY <2>3 DEF OnceEach
  <2>5. PICK path : path = Front(w)
    OBVIOUS
  <2>6. Leads(t, D, path, n) /\ n \in D
    BY <1>1, <2>2, <2>3, <2>4, <2>5, ChainLeads DEF Leads
  <2>7. PICK d : d = Descend(t, c) /\ d.node = n /\ d.path = path
    <3>1. Descend(t, c).node = n /\ Descend(t, c).path = path
      BY <2>2, <2>4, <2>5 DEF Descend, Last
    <3> QED
      BY <3>1
  <2>8. c[n] \in Int /\ pos[n] \in Int /\ key \in Int /\ \A m \in D : c[m] = key - pos[m] /\ pos[m] \in Int
    BY <2>6 DEF Directs
  <2>9. CASE c[n] # 0
    <3>1. x = [tree |-> t, found |-> FALSE]
      BY <2>1, <2>7, <2>9 DEF RemoveInternal
    <3>2. \A m \in D : c[m] # 0
      BY <2>3, <2>9 DEF Found
    <3>3. \A m \in D : pos[m] # key
      BY <2>8, <3>2
    <3>4. Missed(t, x)
      BY <3>1 DEF Missed
    <3> QED
      BY <3>3, <3>4
  <2>10. CASE c[n] = 0
    <3>1. pos[n] = key
      BY <2>6, <2>8, <2>10
    <3>2. PICK u : u = RemoveNodeInternal(t, n, path)
      OBVIOUS
    <3>3. x = [tree |-> u, found |-> TRUE, key |-> t.node[n].key, value |-> t.node[n].value]
      BY <2>1, <2>7, <2>10, <3>2 DEF RemoveInternal
    <3>4. Holds(u, D \ {n}, Kept(D \ {n}, pos)) /\ Removed(t, u, D, n)
      <4>1. PICK S, pos2 : S = D \ {n} /\ pos2 = Kept(S, pos)
        BY Zenon
      <4>2. Holds(u, S, pos2) /\ Removed(t, u, D, n)
        BY <1>1, <2>6, <3>2, <4>1, RemoveNodeKeeps
      <4> QED
        BY <4>1, <4>2
    <3>5. TookKey(t, x, D, pos, n)
      BY <3>3, <3>4 DEF TookKey
    <3>6. \A m, q \in D : pos[m] = pos[q] => m = q
      BY <1>1 DEF Sound, Shape, Ghosts
    <3> QED
      BY <2>6, <3>1, <3>5, <3>6
  <2> QED
    BY <2>9, <2>10
<1> QED
  BY <1>2, <1>3

\* The first node goes, and temp_node is the node after it.
EndGone(t, x, D, pos, n) ==
    /\ n \in D /\ x.removed = n
    /\ Holds(x.tree, D \ {n}, Kept(D \ {n}, pos)) /\ Removed(t, x.tree, D, n)

LEMMA RemoveFirstKeeps ==
    ASSUME NEW t, NEW D, NEW pos, Holds(t, D, pos), D # {},
           NEW x, x = RemoveFirstNode(t)
    PROVE  \E n : /\ EndGone(t, x, D, pos, n) /\ Successive(D, pos, NULL, n)
                  /\ Successive(D, pos, n, x.temp_node)
<1>1. PICK lo, hi, up, h : Sound(t, D, pos, lo, hi, up, h)
  BY DEF Holds
<1>2. PICK r : r = t.root /\ r \in D
  BY <1>1, EmptyRoot
<1>3. PICK w : w = LeftSpine(t, r)
  OBVIOUS
<1>4. LeftRun(t, D, lo, h, w, r) /\ NULL \notin D
  BY <1>1, <1>2, <1>3, LeftSpineRuns, SoundParts
<1>5. w \in Seq(D) /\ Len(w) \in Nat \ {0} /\ w[1] = r /\ w # <<>>
  <2>1. w \in Seq(D) /\ Len(w) \in Nat \ {0} /\ w[1] = r
    BY <1>4 DEF LeftRun, OnceEach
  <2> QED
    BY <2>1
<1>6. Chain(t, D, w, Len(w))
  <2>1. ASSUME NEW j \in 1 .. Len(w) - 1 PROVE Below(t, D, w[j + 1], w[j])
    <3>1. LeftOf(t, w[j + 1], w[j])
      BY <1>4 DEF LeftRun
    <3>2. w[j] \in D
      BY <1>5
    <3> QED
      BY <1>4, <3>1, <3>2 DEF Below
  <2> QED
    BY <1>2, <1>5, <2>1 DEF Chain
<1>7. PICK n, path : n = w[Len(w)] /\ path = Front(w)
  OBVIOUS
<1>8. Leads(t, D, path, n) /\ n \in D
  BY <1>1, <1>5, <1>6, <1>7, ChainLeads DEF Leads
<1>9. n = Last(w)
  BY <1>5, <1>7 DEF Last
<1>10. n = FirstNode(t)
  BY <1>2, <1>3, <1>4, <1>9 DEF FirstNode, Leftmost
<1>11. PICK u, q : u = RemoveNodeInternal(t, n, path) /\ q = NextNode(t, n)
  OBVIOUS
<1>12. x = [tree |-> u, removed |-> n, temp_node |-> q]
  BY <1>2, <1>3, <1>7, <1>9, <1>11 DEF RemoveFirstNode
<1>13. Holds(u, D \ {n}, Kept(D \ {n}, pos)) /\ Removed(t, u, D, n)
  <2>1. PICK S, pos2 : S = D \ {n} /\ pos2 = Kept(S, pos)
    BY Zenon
  <2>2. Holds(u, S, pos2) /\ Removed(t, u, D, n)
    BY <1>1, <1>8, <1>11, <2>1, RemoveNodeKeeps
  <2> QED
    BY <2>1, <2>2
<1>14. Successive(D, pos, NULL, n)
  BY <1>1, <1>10, FirstSuccessive
<1>15. Successive(D, pos, n, q)
  BY <1>1, <1>8, <1>11, NextSuccessive
<1> QED
  BY <1>8, <1>12, <1>13, <1>14, <1>15 DEF EndGone

LEMMA RemoveLastKeeps ==
    ASSUME NEW t, NEW D, NEW pos, Holds(t, D, pos), D # {},
           NEW x, x = RemoveLastNode(t)
    PROVE  \E n : /\ EndGone(t, x, D, pos, n) /\ Successive(D, pos, n, NULL)
                  /\ Successive(D, pos, x.temp_node, n)
<1>1. PICK lo, hi, up, h : Sound(t, D, pos, lo, hi, up, h)
  BY DEF Holds
<1>2. PICK r : r = t.root /\ r \in D
  BY <1>1, EmptyRoot
<1>3. PICK w : w = RightSpine(t, r)
  OBVIOUS
<1>4. RightRun(t, D, hi, h, w, r) /\ NULL \notin D
  BY <1>1, <1>2, <1>3, RightSpineRuns, SoundParts
<1>5. w \in Seq(D) /\ Len(w) \in Nat \ {0} /\ w[1] = r /\ w # <<>>
  <2>1. w \in Seq(D) /\ Len(w) \in Nat \ {0} /\ w[1] = r
    BY <1>4 DEF RightRun, OnceEach
  <2> QED
    BY <2>1
<1>6. Chain(t, D, w, Len(w))
  <2>1. ASSUME NEW j \in 1 .. Len(w) - 1 PROVE Below(t, D, w[j + 1], w[j])
    <3>1. RightOf(t, w[j + 1], w[j])
      BY <1>4 DEF RightRun
    <3>2. w[j] \in D
      BY <1>5
    <3> QED
      BY <1>4, <3>1, <3>2 DEF Below
  <2> QED
    BY <1>2, <1>5, <2>1 DEF Chain
<1>7. PICK n, path : n = w[Len(w)] /\ path = Front(w)
  OBVIOUS
<1>8. Leads(t, D, path, n) /\ n \in D
  BY <1>1, <1>5, <1>6, <1>7, ChainLeads DEF Leads
<1>9. n = Last(w)
  BY <1>5, <1>7 DEF Last
<1>10. n = LastNode(t)
  BY <1>2, <1>3, <1>4, <1>9 DEF LastNode, Rightmost
<1>11. PICK u, q : u = RemoveNodeInternal(t, n, path) /\ q = PreviousNode(t, n)
  OBVIOUS
<1>12. x = [tree |-> u, removed |-> n, temp_node |-> q]
  BY <1>2, <1>3, <1>7, <1>9, <1>11 DEF RemoveLastNode
<1>13. Holds(u, D \ {n}, Kept(D \ {n}, pos)) /\ Removed(t, u, D, n)
  <2>1. PICK S, pos2 : S = D \ {n} /\ pos2 = Kept(S, pos)
    OBVIOUS
  <2>2. Holds(u, S, pos2) /\ Removed(t, u, D, n)
    BY <1>1, <1>8, <1>11, <2>1, RemoveNodeKeeps
  <2> QED
    BY <2>1, <2>2
<1>14. Successive(D, pos, n, NULL)
  BY <1>1, <1>10, LastSuccessive
<1>15. Successive(D, pos, q, n)
  BY <1>1, <1>8, <1>11, PreviousSuccessive
<1> QED
  BY <1>8, <1>12, <1>13, <1>14, <1>15 DEF EndGone

\* An empty tree, as tree_new makes it and tree_remove_all leaves it.
LEMMA EmptyHolds ==
    ASSUME NEW t, NEW f, DOMAIN f = {}, t = [root |-> NULL, node |-> f, nnodes |-> 0],
           f = [m \in DOMAIN f |-> f[m]],
           NEW D, D = {}, NEW pos, pos \in [D -> Int]
    PROVE  Holds(t, D, pos)
<1>1. t \in Trees(D, Node({}, {}, D \cup {NULL}), D \cup {NULL})
  BY DEF Trees
<1>2. TreeType(t, D)
  BY <1>1 DEF TreeType
<1>3. IsFiniteSet(D) /\ Cardinality(D) = 0
  BY FS_EmptySet
<1>4. PICK g : g = [m \in D |-> 0]
  OBVIOUS
<1>5. Shape(t, D, pos, g, g, g)
  BY <1>4 DEF Shape, Ghosts, Rooted
<1>6. Settled(t, D, g)
  BY <1>4 DEF Settled
<1> QED
  BY <1>2, <1>3, <1>5, <1>6 DEF Holds, Sound

LEMMA RemoveAllEmpties ==
    ASSUME NEW t, NEW D, NEW pos, Holds(t, D, pos), NEW u, u = RemoveAllNodes(t),
           NEW E, E = {}, NEW pos2, pos2 \in [E -> Int]
    PROVE  Holds(u, E, pos2) /\ DOMAIN u.node = E
<1>1. PICK lo, hi, up, h : Sound(t, D, pos, lo, hi, up, h)
  BY DEF Holds
<1>2. ToSet(Foreach(t)) = D /\ DOMAIN t.node = D
  BY <1>1, ForeachVisitsAll, SoundParts
<1>3. PICK f : f = Restrict(t.node, {})
  OBVIOUS
<1>4. u = [root |-> NULL, node |-> f, nnodes |-> 0]
  <2>1. DOMAIN t.node \ ToSet(Foreach(t)) = {}
    BY <1>2
  <2> QED
    BY Zenon, <1>3, <2>1 DEF RemoveAllNodes
<1>5. DOMAIN f = {} /\ f = [m \in DOMAIN f |-> f[m]]
  BY <1>3 DEF Restrict
<1>6. Holds(u, E, pos2)
  BY Zenon, <1>4, <1>5, EmptyHolds
<1> QED
  BY <1>4, <1>5, <1>6

-----------------------------------------------------------------------------

(* A tree that is sound shows what the checks of the code look for.         *)

\* A set that has a node when it has every lower one has them all.
LEMMA HeightInduction ==
    ASSUME NEW D, NEW h \in [D -> Nat], NEW S,
           \A m \in D : (\A q \in D : h[q] < h[m] => q \in S) => m \in S
    PROVE  \A m \in D : m \in S
<1> DEFINE K == {k \in Nat : \A m \in D : h[m] <= k => m \in S}
<1>1. 0 \in K
  <2>1. ASSUME NEW m \in D, h[m] <= 0 PROVE m \in S
    <3>1. \A q \in D : ~(h[q] < h[m])
      BY <2>1
    <3> QED
      BY <3>1
  <2> QED
    BY <2>1
<1>2. ASSUME NEW k \in Nat, k \in K PROVE k + 1 \in K
  <2>1. ASSUME NEW m \in D, h[m] <= k + 1 PROVE m \in S
    <3>1. ASSUME NEW q \in D, h[q] < h[m] PROVE q \in S
      <4>1. h[q] <= k
        BY <2>1, <3>1
      <4> QED
        BY <1>2, <4>1
    <3> QED
      BY <3>1
  <2> QED
    BY <2>1
<1>3. \A k \in Nat : k \in K
  <2> HIDE DEF K
  <2> QED
    BY <1>1, <1>2, Induction
<1>4. ASSUME NEW m \in D PROVE m \in S
  <2>1. h[m] \in K /\ h[m] <= h[m]
    BY <1>3
  <2> QED
    BY <2>1
<1> QED
  BY <1>4

\* Every node is one higher than the higher of its children.
LEMMA HeightsOfNode ==
    ASSUME NEW t, NEW D, NEW pos, NEW lo, NEW hi, NEW up, NEW h, Sound(t, D, pos, lo, hi, up, h),
           NEW m \in D
    PROVE  /\ h[m] = 1 + Taller(LeftHeight(t, h, m), RightHeight(t, h, m))
           /\ LeftHeight(t, h, m) \in Nat /\ RightHeight(t, h, m) \in Nat
           /\ t.node[m].balance = RightHeight(t, h, m) - LeftHeight(t, h, m)
<1>1. Shape(t, D, pos, lo, hi, up) /\ h \in [D -> Nat] /\ Tall(t, h, m) /\ Exact(t, h, m)
  BY SoundParts DEF Settled, Level
<1>2. LeftHeight(t, h, m) \in Nat /\ RightHeight(t, h, m) \in Nat
  BY <1>1, HeightsNatural
<1> QED
  BY <1>1, <1>2 DEF Tall, Exact

\* RealHeight is the height that h stands for.
Heights(t, f, D) ==
    f = [m \in D |->
            LET l == IF t.node[m].left_child THEN f[t.node[m].left] ELSE 0
                r == IF t.node[m].right_child THEN f[t.node[m].right] ELSE 0
            IN 1 + (IF l > r THEN l ELSE r)]
LEMMA HeightsUnique ==
    ASSUME NEW t, NEW D, NEW pos, NEW lo, NEW hi, NEW up, NEW h, Sound(t, D, pos, lo, hi, up, h)
    PROVE  /\ Heights(t, h, D)
           /\ \A f : Heights(t, f, D) => \A m \in D : f[m] = h[m]
<1>1. h \in [D -> Nat]
  BY SoundParts DEF Settled
<1>2. ASSUME NEW m \in D
      PROVE  h[m] = LET l == IF t.node[m].left_child THEN h[t.node[m].left] ELSE 0
                        r == IF t.node[m].right_child THEN h[t.node[m].right] ELSE 0
                    IN 1 + (IF l > r THEN l ELSE r)
  <2>1. PICK a, b : a = LeftHeight(t, h, m) /\ b = RightHeight(t, h, m)
    OBVIOUS
  <2>2. a \in Nat /\ b \in Nat /\ h[m] = 1 + Taller(a, b)
    BY <2>1, HeightsOfNode
  <2>3. h[m] = 1 + (IF a > b THEN a ELSE b)
    BY <2>2 DEF Taller
  <2> QED
    BY <2>1, <2>3 DEF LeftHeight, RightHeight
<1>3. Heights(t, h, D)
  BY <1>1, <1>2 DEF Heights
<1>4. ASSUME NEW f, Heights(t, f, D) PROVE \A m \in D : f[m] = h[m]
  <2> DEFINE S == {m \in D : f[m] = h[m]}
  <2>1. ASSUME NEW m \in D, \A q \in D : h[q] < h[m] => q \in S
        PROVE  m \in S
    <3>1. /\ t.node[m].left_child => f[t.node[m].left] = h[t.node[m].left]
          /\ t.node[m].right_child => f[t.node[m].right] = h[t.node[m].right]
      BY SMTT(40), <2>1, ChildrenLower
    <3>2. f[m] = LET l == IF t.node[m].left_child THEN f[t.node[m].left] ELSE 0
                     r == IF t.node[m].right_child THEN f[t.node[m].right] ELSE 0
                 IN 1 + (IF l > r THEN l ELSE r)
      BY Zenon, <1>4 DEF Heights
    <3>3. f[m] = h[m]
      BY <1>2, <3>1, <3>2
    <3> QED
      BY <3>3
  <2>2. \A m \in D : m \in S
    <3> HIDE DEF S
    <3> QED
      BY <1>1, <2>1, HeightInduction
  <2> QED
    BY <2>2
<1> QED
  BY <1>3, <1>4

LEMMA RealHeights ==
    ASSUME NEW t, NEW D, NEW pos, NEW lo, NEW hi, NEW up, NEW h, Sound(t, D, pos, lo, hi, up, h),
           NEW n \in D
    PROVE  RealHeight(t, n) = h[n]
<1> DEFINE f == CHOOSE f : Heights(t, f, D)
<1>1. DOMAIN t.node = D
  BY SoundParts
<1>2. RealHeight(t, n) = f[n]
  BY <1>1 DEF RealHeight, Heights
<1>3. Heights(t, f, D)
  BY HeightsUnique
<1> HIDE DEF f
<1>4. f[n] = h[n]
  BY <1>3, HeightsUnique
<1> QED
  BY <1>2, <1>4

\* tree_height, which follows the stored balances, finds the same height.
Climbed(t, f, D) ==
    f = [m \in D |->
            LET k == 1 + (IF t.node[m].balance > 0 THEN t.node[m].balance ELSE 0)
            IN  IF t.node[m].left_child THEN k + f[t.node[m].left] ELSE k]
LEMMA ClimbedUnique ==
    ASSUME NEW t, NEW D, NEW pos, NEW lo, NEW hi, NEW up, NEW h, Sound(t, D, pos, lo, hi, up, h)
    PROVE  /\ Climbed(t, h, D)
           /\ \A f : Climbed(t, f, D) => \A m \in D : f[m] = h[m]
<1>1. h \in [D -> Nat]
  BY SoundParts DEF Settled
<1>2. ASSUME NEW m \in D
      PROVE  h[m] = LET k == 1 + (IF t.node[m].balance > 0 THEN t.node[m].balance ELSE 0)
                    IN  IF t.node[m].left_child THEN k + h[t.node[m].left] ELSE k
  <2>1. PICK a, b, c : /\ a = LeftHeight(t, h, m) /\ b = RightHeight(t, h, m)
                       /\ c = t.node[m].balance
    OBVIOUS
  <2>2. a \in Nat /\ b \in Nat /\ h[m] = 1 + Taller(a, b) /\ c = b - a
    BY <2>1, HeightsOfNode
  <2>3. h[m] = (1 + (IF c > 0 THEN c ELSE 0)) + a
    BY <2>2 DEF Taller
  <2>4. 1 + (IF c > 0 THEN c ELSE 0) \in Int
    BY <2>2
  <2> QED
    BY <2>1, <2>3, <2>4 DEF LeftHeight
<1>3. Climbed(t, h, D)
  BY <1>1, <1>2 DEF Climbed
<1>4. ASSUME NEW f, Climbed(t, f, D) PROVE \A m \in D : f[m] = h[m]
  <2> DEFINE S == {m \in D : f[m] = h[m]}
  <2>1. ASSUME NEW m \in D, \A q \in D : h[q] < h[m] => q \in S
        PROVE  m \in S
    <3>1. t.node[m].left_child => f[t.node[m].left] = h[t.node[m].left]
      BY <2>1, ChildrenLower
    <3>2. f[m] = LET k == 1 + (IF t.node[m].balance > 0 THEN t.node[m].balance ELSE 0)
                 IN  IF t.node[m].left_child THEN k + f[t.node[m].left] ELSE k
      BY <1>4 DEF Climbed
    <3>3. f[m] = h[m]
      BY <1>2, <3>1, <3>2
    <3> QED
      BY <3>3
  <2>2. \A m \in D : m \in S
    <3> HIDE DEF S
    <3> QED
      BY <1>1, <2>1, HeightInduction
  <2> QED
    BY <2>2
<1> QED
  BY <1>3, <1>4

LEMMA TreeHeights ==
    ASSUME NEW t, NEW D, NEW pos, NEW lo, NEW hi, NEW up, NEW h, Sound(t, D, pos, lo, hi, up, h),
           D # {}
    PROVE  TreeHeight(t) = h[t.root]
<1> DEFINE f == CHOOSE f : Climbed(t, f, D)
<1>1. DOMAIN t.node = D
  BY SoundParts
<1>2. t.root \in D /\ t.root # NULL
  BY EmptyRoot
<1>3. TreeHeight(t) = f[t.root]
  BY <1>1, <1>2 DEF TreeHeight, Climbed
<1>4. Climbed(t, f, D)
  BY ClimbedUnique
<1> HIDE DEF f
<1>5. f[t.root] = h[t.root]
  BY <1>2, <1>4, ClimbedUnique
<1> QED
  BY <1>3, <1>5

\* Every node hangs below the root.
Beneath(t, f, D) ==
    f = [m \in D |->
            {m} \cup (IF t.node[m].left_child THEN f[t.node[m].left] ELSE {})
                \cup (IF t.node[m].right_child THEN f[t.node[m].right] ELSE {})]
Within(D, pos, lo, hi) == [m \in D |-> {x \in D : Inside(pos, lo, hi, m, x)}]
LEMMA BeneathUnique ==
    ASSUME NEW t, NEW D, NEW pos, NEW lo, NEW hi, NEW up, NEW h, Sound(t, D, pos, lo, hi, up, h),
           NEW g, g = Within(D, pos, lo, hi)
    PROVE  /\ Beneath(t, g, D)
           /\ \A f : Beneath(t, f, D) => \A m \in D : f[m] = g[m]
<1>0. h \in [D -> Nat]
  BY SoundParts DEF Settled
<1>1. /\ Shape(t, D, pos, lo, hi, up) /\ NULL \notin D
      /\ \A m \in D : /\ LeftPlaced(t, D, pos, lo, hi, up, m)
                      /\ RightPlaced(t, D, pos, lo, hi, up, m) /\ pos[m] \in Int
  BY SoundParts
<1>2. ASSUME NEW m \in D
      PROVE  g[m] = {m} \cup (IF t.node[m].left_child THEN g[t.node[m].left] ELSE {})
                        \cup (IF t.node[m].right_child THEN g[t.node[m].right] ELSE {})
  <2>1. PICK l, r : l = t.node[m].left /\ r = t.node[m].right
    BY Zenon
  <2>2. /\ t.node[m].left_child => l \in D /\ lo[l] = lo[m] /\ hi[l] = m
        /\ t.node[m].right_child => r \in D /\ lo[r] = m /\ hi[r] = hi[m]
        /\ Before(pos, lo[m], m) /\ Before(pos, m, hi[m])
        /\ (lo[m] = NULL \/ pos[lo[m]] \in Int) /\ (hi[m] = NULL \/ pos[hi[m]] \in Int)
    <3>1. lo[m] \in D \cup {NULL} /\ hi[m] \in D \cup {NULL}
      BY <1>1 DEF Shape, Ghosts
    <3> QED
      BY <1>1, <2>1, <3>1 DEF LeftPlaced, RightPlaced
  <2>3. \A q \in D : g[q] = {x \in D : Inside(pos, lo, hi, q, x)}
    BY DEF Within
  <2>4. ASSUME NEW x, x \in g[m], x # m
        PROVE  \/ t.node[m].left_child /\ x \in g[l]
               \/ t.node[m].right_child /\ x \in g[r]
    <3>1. x \in D /\ Inside(pos, lo, hi, m, x)
      BY <2>3, <2>4
    <3>2. \/ t.node[m].left_child /\ Inside(pos, lo, hi, l, x)
          \/ t.node[m].right_child /\ Inside(pos, lo, hi, r, x)
      BY <1>1, <2>1, <2>4, <3>1, StepInside
    <3> QED
      BY <2>2, <2>3, <3>1, <3>2
  <2>5. m \in g[m]
    BY <2>2, <2>3 DEF Inside
  <2>6. ASSUME t.node[m].left_child, NEW x \in g[l] PROVE x \in g[m]
    <3>1. l \in D /\ x \in D /\ Inside(pos, lo, hi, l, x) /\ pos[x] \in Int /\ pos[m] \in Int
      BY <1>1, <2>2, <2>3, <2>6
    <3>2. Inside(pos, lo, hi, m, x)
      BY <1>1, <2>2, <2>6, <3>1 DEF Inside, Before
    <3> QED
      BY <2>3, <3>1, <3>2
  <2>7. ASSUME t.node[m].right_child, NEW x \in g[r] PROVE x \in g[m]
    <3>1. r \in D /\ x \in D /\ Inside(pos, lo, hi, r, x) /\ pos[x] \in Int /\ pos[m] \in Int
      BY <1>1, <2>2, <2>3, <2>7
    <3>2. Inside(pos, lo, hi, m, x)
      BY <1>1, <2>2, <2>7, <3>1 DEF Inside, Before
    <3> QED
      BY <2>3, <3>1, <3>2
  <2> QED
    BY <2>1, <2>4, <2>5, <2>6, <2>7
<1>3. DOMAIN g = D /\ g = [m \in D |-> g[m]]
  BY DEF Within
<1>4. Beneath(t, g, D)
  BY <1>2, <1>3 DEF Beneath
<1>5. ASSUME NEW f, Beneath(t, f, D) PROVE \A m \in D : f[m] = g[m]
  <2> DEFINE S == {m \in D : f[m] = g[m]}
  <2>1. ASSUME NEW m \in D, \A q \in D : h[q] < h[m] => q \in S
        PROVE  m \in S
    <3>1. /\ t.node[m].left_child => f[t.node[m].left] = g[t.node[m].left]
          /\ t.node[m].right_child => f[t.node[m].right] = g[t.node[m].right]
      BY SMTT(40), <2>1, ChildrenLower
    <3>2. f[m] = {m} \cup (IF t.node[m].left_child THEN f[t.node[m].left] ELSE {})
                     \cup (IF t.node[m].right_child THEN f[t.node[m].right] ELSE {})
      BY Zenon, <1>5 DEF Beneath
    <3>3. f[m] = g[m]
      BY <1>2, <3>1, <3>2
    <3> QED
      BY <3>3
  <2>2. \A m \in D : m \in S
    <3> HIDE DEF S
    <3> QED
      BY <1>0, <2>1, HeightInduction
  <2> QED
    BY <2>2
<1> QED
  BY <1>4, <1>5

LEMMA RootSubtree ==
    ASSUME NEW t, NEW D, NEW pos, NEW lo, NEW hi, NEW up, NEW h, Sound(t, D, pos, lo, hi, up, h),
           D # {}
    PROVE  Subtree(t, t.root) = D
<1> DEFINE f == CHOOSE f : Beneath(t, f, D)
<1>1. DOMAIN t.node = D /\ NULL \notin D /\ Shape(t, D, pos, lo, hi, up)
  BY SoundParts
<1>2. t.root \in D /\ lo[t.root] = NULL /\ hi[t.root] = NULL
  BY <1>1 DEF Shape, Rooted
<1>3. Subtree(t, t.root) = f[t.root]
  BY <1>1 DEF Subtree, Beneath
<1>4. PICK g : g = Within(D, pos, lo, hi)
  OBVIOUS
<1>5. Beneath(t, f, D)
  BY <1>4, BeneathUnique
<1> HIDE DEF f
<1>6. f[t.root] = g[t.root]
  BY <1>2, <1>4, <1>5, BeneathUnique
<1>7. g[t.root] = D
  BY <1>2, <1>4 DEF Within, Inside, Before
<1> QED
  BY <1>3, <1>6, <1>7

LEMMA SoundReachable ==
    ASSUME NEW t, NEW D, NEW pos, NEW lo, NEW hi, NEW up, NEW h, Sound(t, D, pos, lo, hi, up, h)
    PROVE  NodesReachable(t)
<1>1. DOMAIN t.node = D /\ t.nnodes = Cardinality(D)
  BY SoundParts DEF Sound
<1>2. t.root = NULL <=> D = {}
  BY EmptyRoot
<1>3. D # {} => Subtree(t, t.root) = D
  BY RootSubtree
<1> QED
  BY <1>1, <1>2, <1>3 DEF NodesReachable

LEMMA SoundBalances ==
    ASSUME NEW t, NEW D, NEW pos, NEW lo, NEW hi, NEW up, NEW h, Sound(t, D, pos, lo, hi, up, h)
    PROVE  BalancesRight(t)
<1>1. DOMAIN t.node = D
  BY SoundParts
<1>2. ASSUME NEW n \in D
      PROVE  t.node[n].balance = BalanceOf(t, n) /\ Balanced(t.node[n].balance)
  <2>1. Balanced(t.node[n].balance)
    BY SoundParts DEF Level
  <2>2. t.node[n].balance = RightHeight(t, h, n) - LeftHeight(t, h, n)
    BY HeightsOfNode
  <2>3. /\ t.node[n].left_child => t.node[n].left \in D
        /\ t.node[n].right_child => t.node[n].right \in D
    BY ChildrenLower
  <2>4. /\ t.node[n].left_child => RealHeight(t, t.node[n].left) = h[t.node[n].left]
        /\ t.node[n].right_child => RealHeight(t, t.node[n].right) = h[t.node[n].right]
    BY <2>3, RealHeights
  <2>5. BalanceOf(t, n) = RightHeight(t, h, n) - LeftHeight(t, h, n)
    BY <2>4 DEF BalanceOf, LeftHeight, RightHeight
  <2> QED
    BY <2>1, <2>2, <2>5
<1>3. CASE D = {}
  <2>1. t.root = NULL
    BY <1>3, EmptyRoot
  <2>2. TreeHeight(t) = 0
    BY <2>1 DEF TreeHeight
  <2> QED
    BY <1>1, <1>3, <2>1, <2>2 DEF BalancesRight
<1>4. CASE D # {}
  <2>1. t.root # NULL /\ t.root \in D
    BY <1>4, EmptyRoot
  <2>2. TreeHeight(t) = RealHeight(t, t.root)
    BY <1>4, <2>1, TreeHeights, RealHeights
  <2> QED
    BY <1>1, <1>2, <2>1, <2>2 DEF BalancesRight
<1> QED
  BY <1>3, <1>4

LEMMA SoundThreads ==
    ASSUME NEW t, NEW D, NEW pos, NEW lo, NEW hi, NEW up, NEW h, Sound(t, D, pos, lo, hi, up, h)
    PROVE  ThreadsRight(t)
<1>1. DOMAIN t.node = D
  BY SoundParts
<1>2. ASSUME NEW n \in D, t.node[n].left_child
      PROVE  LET p == PreviousNode(t, n) IN t.node[p].right = n /\ ~t.node[p].right_child
  BY <1>2, PreviousSuccessive
<1>3. ASSUME NEW n \in D, t.node[n].right_child
      PROVE  LET q == NextNode(t, n) IN t.node[q].left = n /\ ~t.node[q].left_child
  BY <1>3, NextSuccessive
<1>4. t.root # NULL => t.node[FirstNode(t)].left = NULL /\ t.node[LastNode(t)].right = NULL
  <2>1. t.root # NULL => D # {}
    BY EmptyRoot
  <2> QED
    BY <2>1, FirstSuccessive, LastSuccessive
<1> QED
  BY <1>1, <1>2, <1>3, <1>4 DEF ThreadsRight

\* tree_node_check's assertions hold of every tree that holds nodes in order:
\* all of them are below the root, balances are exact and threads lead to the
\* neighbours.
THEOREM HoldsChecked ==
    ASSUME NEW t, NEW D, NEW pos, Holds(t, D, pos)
    PROVE  NodesReachable(t) /\ BalancesRight(t) /\ ThreadsRight(t)
<1>1. PICK lo, hi, up, h : Sound(t, D, pos, lo, hi, up, h)
  BY DEF Holds
<1> QED
  BY <1>1, SoundReachable, SoundBalances, SoundThreads

-----------------------------------------------------------------------------
(* Tree: one node to a rank, which is also its place in the order.          *)

Ident(D) == [n \in D |-> n]
HasEntry(t, n) ==
    /\ t.node[n].key \in KeyObject /\ t.node[n].key[1] = n /\ t.node[n].value \in Val
Filed(t) ==
    /\ DOMAIN t.node \subseteq Rank
    /\ Holds(t, DOMAIN t.node, Ident(DOMAIN t.node))
    /\ \A n \in DOMAIN t.node : HasEntry(t, n)
TreeInv == Filed(tree)

LEMMA HoldsDomain ==
    ASSUME NEW t, NEW D, NEW pos, Holds(t, D, pos)
    PROVE  DOMAIN t.node = D /\ NULL \notin D /\ (t.root = NULL <=> D = {}) /\ t.nnodes = Cardinality(D)
<1>1. PICK lo, hi, up, h : Sound(t, D, pos, lo, hi, up, h)
  BY DEF Holds
<1> QED
  BY <1>1, SoundParts, EmptyRoot DEF Sound

LEMMA CountDirects ==
    ASSUME NEW t, Filed(t), NEW r \in Rank, NEW D, D = DOMAIN t.node,
           NEW c, c = [n \in D |-> r - t.node[n].key[1]]
    PROVE  Directs(D, Ident(D), c, r)
<1>1. r \in Int /\ D \subseteq Int
  BY Zenon, RankAssumption DEF Filed
<1>2. ASSUME NEW m \in D PROVE Ident(D)[m] = m /\ c[m] = r - m
  BY DEF Filed, HasEntry, Ident
<1>3. c \in [D -> Int]
  <2>1. \A m \in D : c[m] \in Int
    <3> TAKE m \in D
    <3>1. m \in Int /\ c[m] = r - m
      BY Zenon, <1>1, <1>2
    <3> QED
      BY <1>1, <3>1
  <2>2. c = [n \in D |-> c[n]]
    OBVIOUS
  <2> QED
    BY <2>1, <2>2
<1> QED
  BY Zenon, <1>1, <1>2, <1>3 DEF Directs

\* What an insertion changes.
Put(t, u, k, v, replace, freed) ==
    /\ DOMAIN u.node = DOMAIN t.node \cup {k[1]}
    /\ SameData(t, u, DOMAIN t.node \ {k[1]})
    /\ u.node[k[1]].value = v
    /\ k[1] \notin DOMAIN t.node => u.node[k[1]].key = k /\ freed = {}
    /\ k[1] \in DOMAIN t.node =>
          /\ u.node[k[1]].key = IF replace THEN k ELSE t.node[k[1]].key
          /\ freed = {t.node[k[1]].value, IF replace THEN t.node[k[1]].key ELSE k}

LEMMA InsertFiled ==
    ASSUME NEW t, Filed(t), NEW k \in KeyObject, NEW v \in Val, NEW replace \in BOOLEAN,
           NEW D, D = DOMAIN t.node, NEW c, Directs(D, Ident(D), c, k[1]),
           NEW x, x = InsertInternal(t, c, k[1], k, v, replace), NEW u, u = x.tree
    PROVE  Filed(u) /\ Put(t, u, k, v, replace, x.freed)
<1>1. PICK r : r = k[1] /\ r \in Rank /\ r \in Int /\ r # NULL
  BY Zenon, RankAssumption DEF KeyObject
<1>2. /\ D \subseteq Rank /\ D \subseteq Int /\ Holds(t, D, Ident(D))
      /\ \A n \in D : HasEntry(t, n)
  BY Zenon, RankAssumption DEF Filed
<1>3. \A m \in D : Ident(D)[m] = m
  BY DEF Ident
<1>4. PICK pos : pos = Ident(D) /\ Holds(t, D, pos) /\ Directs(D, pos, c, r) /\ \A m \in D : pos[m] = m
  BY <1>1, <1>2, <1>3
<1>5. x = InsertInternal(t, c, r, k, v, replace)
  BY <1>1
<1>6. CASE r \notin D
  <2>1. \A m \in D : pos[m] # r
    BY <1>4, <1>6
  <2>2. /\ Holds(u, D \cup {r}, With(D, pos, r, r))
        /\ Entered(t, u, D, r, k, v) /\ x.freed = {}
    <3>1. GotIn(t, u, D, pos, r, r, k, v, x.freed)
      BY <1>1, <1>4, <1>5, <1>6, <2>1, InsertKeeps
    <3> QED
      BY <3>1 DEF GotIn
  <2>3. With(D, pos, r, r) = Ident(D \cup {r})
    BY <1>4 DEF With, Ident
  <2>4. DOMAIN u.node = D \cup {r} /\ Holds(u, D \cup {r}, Ident(D \cup {r}))
    BY <2>2, <2>3, HoldsDomain
  <2>5. SameData(t, u, D) /\ u.node[r].key = k /\ u.node[r].value = v
    BY <2>2 DEF Entered
  <2>6. \A n \in D \cup {r} : HasEntry(u, n)
    BY <1>1, <1>2, <2>5 DEF HasEntry, SameData
  <2>7. Filed(u)
    BY <1>1, <1>2, <2>4, <2>6 DEF Filed
  <2>8. D \ {r} = D
    BY <1>6
  <2> QED
    BY Zenon, <1>1, <1>6, <2>2, <2>4, <2>5, <2>7, <2>8 DEF Put
<1>7. CASE r \in D
  <2>1. PICK key : key = IF replace THEN k ELSE t.node[r].key
    OBVIOUS
  <2>2. /\ Holds(u, D, pos) /\ Refilled(t, u, D, r, key, v)
        /\ x.freed = {t.node[r].value, IF replace THEN t.node[r].key ELSE k}
    <3>1. pos[r] = r
      BY <1>4, <1>7
    <3>2. WasIn(t, u, D, pos, r, k, v, replace, x.freed)
      BY <1>1, <1>4, <1>5, <1>7, <3>1, InsertKeeps
    <3> QED
      BY <2>1, <3>2 DEF WasIn
  <2>3. DOMAIN u.node = D /\ Holds(u, D, Ident(D))
    BY <1>4, <2>2, HoldsDomain
  <2>4. SameData(t, u, D \ {r}) /\ u.node[r].key = key /\ u.node[r].value = v
    BY <2>2 DEF Refilled
  <2>5. key \in KeyObject /\ key[1] = r
    BY <1>1, <1>2, <1>7, <2>1 DEF HasEntry
  <2>6. \A n \in D : HasEntry(u, n)
    BY <1>2, <2>4, <2>5 DEF HasEntry, SameData
  <2>7. Filed(u)
    BY <1>2, <2>3, <2>6 DEF Filed
  <2>8. D \cup {r} = D
    BY <1>7
  <2> QED
    BY <1>1, <1>7, <2>1, <2>2, <2>3, <2>4, <2>7, <2>8 DEF Put
<1> QED
  BY <1>6, <1>7

\* What a removal changes.
Dropped(t, u, S) ==
    DOMAIN u.node = DOMAIN t.node \ S /\ SameData(t, u, DOMAIN t.node \ S)

LEMMA RemovedFiled ==
    ASSUME NEW t, Filed(t), NEW D, D = DOMAIN t.node, NEW n \in D,
           NEW u, Removed(t, u, D, n), NEW E, E = D \ {n}, Holds(u, E, Kept(E, Ident(D)))
    PROVE  Filed(u) /\ Dropped(t, u, {n})
<1>1. Kept(E, Ident(D)) = Ident(E)
  BY DEF Kept, Ident
<1>2. DOMAIN u.node = E /\ Holds(u, E, Ident(E))
  BY <1>1, HoldsDomain
<1>3. SameData(t, u, E)
  BY DEF Removed
<1>4. \A m \in E : HasEntry(u, m)
  BY <1>3 DEF Filed, HasEntry, SameData
<1>5. E \subseteq Rank
  BY DEF Filed
<1> QED
  BY <1>2, <1>3, <1>4, <1>5 DEF Filed, Dropped

TookOut(t, x, r) ==
    /\ x.found = TRUE /\ x.key = t.node[r].key /\ x.value = t.node[r].value
    /\ Filed(x.tree) /\ Dropped(t, x.tree, {r})
LEMMA RemoveFiled ==
    ASSUME NEW t, Filed(t), NEW D, D = DOMAIN t.node, NEW r, NEW c, Directs(D, Ident(D), c, r),
           NEW x, x = RemoveInternal(t, c)
    PROVE  /\ r \notin D => Missed(t, x)
           /\ r \in D => TookOut(t, x, r)
<1>1. PICK pos : pos = Ident(D) /\ Holds(t, D, pos) /\ Directs(D, pos, c, r) /\ \A m \in D : pos[m] = m
  BY DEF Filed, Ident
<1>2. CASE r \notin D
  <2>1. \A m \in D : pos[m] # r
    BY <1>1, <1>2
  <2>2. Missed(t, x)
    BY <1>1, <2>1, RemoveKeeps
  <2> QED
    BY <1>2, <2>2
<1>3. CASE r \in D
  <2>1. pos[r] = r
    BY <1>1, <1>3
  <2>2. TookKey(t, x, D, pos, r)
    BY <1>1, <1>3, <2>1, RemoveKeeps
  <2>3. PICK u, E : u = x.tree /\ E = D \ {r}
    BY Zenon
  <2>4. Holds(u, E, Kept(E, Ident(D))) /\ Removed(t, u, D, r)
    BY <1>1, <2>2, <2>3 DEF TookKey
  <2>5. Filed(u) /\ Dropped(t, u, {r})
    BY Zenon, <1>3, <2>3, <2>4, RemovedFiled
  <2> QED
    BY <1>3, <2>2, <2>3, <2>5 DEF TookKey, TookOut
<1> QED
  BY <1>2, <1>3

LEMMA FindFiled ==
    ASSUME NEW t, Filed(t), NEW D, D = DOMAIN t.node, NEW r, NEW c, Directs(D, Ident(D), c, r),
           NEW n, n = FindNode(t, c)
    PROVE  n = IF r \in D THEN r ELSE NULL
<1>1. PICK pos : pos = Ident(D) /\ Holds(t, D, pos) /\ Directs(D, pos, c, r) /\ \A m \in D : pos[m] = m
  BY DEF Filed, Ident
<1>2. PICK lo, hi, up, h : Sound(t, D, pos, lo, hi, up, h)
  BY <1>1 DEF Holds
<1>3. IF \E m \in D : pos[m] = r THEN n \in D /\ pos[n] = r ELSE n = NULL
  BY <1>1, <1>2, FindNodeFinds
<1> QED
  BY <1>1, <1>3

LEMMA NothingOrdered == \E E, pos : E = {} /\ pos = Ident(E) /\ pos \in [E -> Int]
<1>1. PICK E, pos : E = {} /\ pos = [n \in E |-> n]
  BY Zenon
<1>2. \A n \in E : pos[n] \in Int
  BY <1>1
<1>3. pos \in [E -> Int]
  BY <1>1, <1>2
<1> QED
  BY Zenon, <1>1, <1>3 DEF Ident

\* No entry is left out.
LEMMA EmptyFiled ==
    ASSUME NEW t, Filed(t), NEW u, u = RemoveAllNodes(t)
    PROVE  /\ Filed(u) /\ DOMAIN u.node = {} /\ Dropped(t, u, DOMAIN t.node)
           /\ ToSet(Foreach(t)) = DOMAIN t.node
<1>1. PICK D, pos : D = DOMAIN t.node /\ pos = Ident(D) /\ Holds(t, D, pos)
  BY DEF Filed
<1>2. PICK lo, hi, up, h : Sound(t, D, pos, lo, hi, up, h)
  BY <1>1 DEF Holds
<1>3. ToSet(Foreach(t)) = D
  BY <1>2, ForeachVisitsAll
<1>4. PICK E, pos2 : E = {} /\ pos2 = Ident(E) /\ pos2 \in [E -> Int]
  BY NothingOrdered
<1>5. Holds(u, E, pos2) /\ DOMAIN u.node = E
  BY <1>1, <1>4, RemoveAllEmpties
<1>6. Filed(u)
  BY <1>4, <1>5 DEF Filed
<1>7. D \ D = {}
  OBVIOUS
<1> QED
  BY <1>1, <1>3, <1>4, <1>5, <1>6, <1>7 DEF Dropped, SameData

LEMMA NewFiled == Filed(NewTree) /\ DOMAIN NewTree.node = {}
<1>1. PICK f : f = <<>>
  OBVIOUS
<1>2. DOMAIN f = {} /\ f = [m \in DOMAIN f |-> f[m]]
  BY <1>1
<1>3. NewTree = [root |-> NULL, node |-> f, nnodes |-> 0]
  BY <1>1 DEF NewTree
<1>4. PICK D, pos : D = {} /\ pos = Ident(D) /\ pos \in [D -> Int]
  BY NothingOrdered
<1>5. Holds(NewTree, D, pos)
  BY <1>2, <1>3, <1>4, EmptyHolds
<1>6. DOMAIN NewTree.node = {}
  BY <1>2, <1>3
<1> QED
  BY <1>4, <1>5, <1>6 DEF Filed

\* The two ends of the order.
IsFirst(D, n) == n \in D /\ \A m \in D : n <= m
IsLast(D, n) == n \in D /\ \A m \in D : m <= n
EndTaken(t, x, n) ==
    /\ x.removed = n /\ Filed(x.tree) /\ Dropped(t, x.tree, {n})
    /\ x.temp_node = NULL <=> DOMAIN x.tree.node = {}

LEMMA FirstFiled ==
    ASSUME NEW t, Filed(t), NEW D, D = DOMAIN t.node, D # {}, NEW x, x = RemoveFirstNode(t)
    PROVE  \E n : /\ IsFirst(D, n) /\ EndTaken(t, x, n)
                  /\ x.temp_node # NULL => IsFirst(D \ {n}, x.temp_node)
<1>1. PICK pos : pos = Ident(D) /\ Holds(t, D, pos) /\ \A m \in D : pos[m] = m
  BY DEF Filed, Ident
<1>2. PICK n, q : /\ EndGone(t, x, D, pos, n) /\ Successive(D, pos, NULL, n)
                  /\ Successive(D, pos, n, q) /\ q = x.temp_node
  BY <1>1, RemoveFirstKeeps
<1>3. PICK u, E : u = x.tree /\ E = D \ {n}
  BY Zenon
<1>4. n \in D /\ x.removed = n /\ Holds(u, E, Kept(E, Ident(D))) /\ Removed(t, u, D, n)
  BY <1>1, <1>2, <1>3 DEF EndGone
<1>5. Filed(u) /\ Dropped(t, u, {n})
  BY Zenon, <1>3, <1>4, RemovedFiled
<1>6. D \subseteq Int /\ NULL \notin D
  BY Zenon, RankAssumption DEF Filed
<1>7. \A m \in D : ~(pos[m] < pos[n])
  BY <1>2, <1>4, <1>6 DEF Successive, Adjacent
<1>8. IsFirst(D, n)
  BY <1>1, <1>4, <1>6, <1>7 DEF IsFirst
<1>9. /\ q \in D \cup {NULL} /\ (q # NULL => pos[n] < pos[q])
      /\ \A m \in D : ~(pos[n] < pos[m] /\ (q # NULL => pos[m] < pos[q]))
  BY <1>2, <1>4, <1>6 DEF Successive, Adjacent, Before
<1>10. q = NULL <=> E = {}
  BY <1>1, <1>3, <1>4, <1>6, <1>8, <1>9 DEF IsFirst
<1>11. q # NULL => IsFirst(E, q)
  BY <1>1, <1>3, <1>4, <1>6, <1>8, <1>9 DEF IsFirst
<1> QED
  BY Zenon, <1>2, <1>3, <1>4, <1>5, <1>8, <1>10, <1>11 DEF EndTaken, Dropped

LEMMA LastFiled ==
    ASSUME NEW t, Filed(t), NEW D, D = DOMAIN t.node, D # {}, NEW x, x = RemoveLastNode(t)
    PROVE  \E n : /\ IsLast(D, n) /\ EndTaken(t, x, n)
                  /\ x.temp_node # NULL => IsLast(D \ {n}, x.temp_node)
<1>1. PICK pos : pos = Ident(D) /\ Holds(t, D, pos) /\ \A m \in D : pos[m] = m
  BY DEF Filed, Ident
<1>2. PICK n, q : /\ EndGone(t, x, D, pos, n) /\ Successive(D, pos, n, NULL)
                  /\ Successive(D, pos, q, n) /\ q = x.temp_node
  BY <1>1, RemoveLastKeeps
<1>3. PICK u, E : u = x.tree /\ E = D \ {n}
  OBVIOUS
<1>4. n \in D /\ x.removed = n /\ Holds(u, E, Kept(E, Ident(D))) /\ Removed(t, u, D, n)
  BY <1>1, <1>2, <1>3 DEF EndGone
<1>5. Filed(u) /\ Dropped(t, u, {n})
  BY <1>3, <1>4, RemovedFiled
<1>6. D \subseteq Int /\ NULL \notin D
  BY RankAssumption DEF Filed
<1>7. \A m \in D : ~(pos[n] < pos[m])
  BY <1>2, <1>4, <1>6 DEF Successive, Adjacent
<1>8. IsLast(D, n)
  BY <1>1, <1>4, <1>6, <1>7 DEF IsLast
<1>9. /\ q \in D \cup {NULL} /\ (q # NULL => pos[q] < pos[n])
      /\ \A m \in D : ~((q # NULL => pos[q] < pos[m]) /\ pos[m] < pos[n])
  BY <1>2, <1>4, <1>6 DEF Successive, Adjacent, Before
<1>10. q = NULL <=> E = {}
  BY <1>1, <1>3, <1>4, <1>6, <1>8, <1>9 DEF IsLast
<1>11. q # NULL => IsLast(E, q)
  BY <1>1, <1>3, <1>4, <1>6, <1>8, <1>9 DEF IsLast
<1> QED
  BY Zenon, <1>2, <1>3, <1>4, <1>5, <1>8, <1>10, <1>11 DEF EndTaken, Dropped

\* key_compare directs the search to the rank of the key.
LEMMA ComparedDirects ==
    ASSUME TreeInv, NEW k, k[1] \in Rank
    PROVE  Directs(DOMAIN tree.node, Ident(DOMAIN tree.node), Compared(k), k[1])
<1>1. Filed(tree)
  BY DEF TreeInv
<1>2. PICK r, D, c : r = k[1] /\ D = DOMAIN tree.node /\ c = Compared(k) /\ r \in Rank
  OBVIOUS
<1>3. c = [n \in D |-> r - tree.node[n].key[1]]
  BY <1>2 DEF Compared, Compare
<1>4. Directs(D, Ident(D), c, r)
  BY <1>1, <1>2, <1>3, CountDirects
<1> QED
  BY <1>2, <1>4

LEMMA ProbeDirects ==
    ASSUME TreeInv, NEW r \in Rank
    PROVE  Directs(DOMAIN tree.node, Ident(DOMAIN tree.node), Compared(Probe(r)), r)
<1>1. Probe(r)[1] = r
  BY DEF Probe
<1> QED
  BY <1>1, ComparedDirects

\* The calls, one by one.
Inserted(k, v, replace) ==
    /\ Filed(tree') /\ Put(tree, tree', k, v, replace, ret'.freed)
    /\ ret' = Outcome(TRUE, NULL, NULL, ret'.freed)
LEMMA InsertDone ==
    ASSUME TreeInv, NEW k \in KeyObject, NEW v \in Val, NEW replace \in BOOLEAN,
           Insert(k, v, replace)
    PROVE  Inserted(k, v, replace)
<1>1. Filed(tree) /\ k[1] \in Rank
  BY DEF TreeInv, KeyObject
<1>2. PICK D, c : D = DOMAIN tree.node /\ c = Compared(k) /\ Directs(D, Ident(D), c, k[1])
  BY <1>1, ComparedDirects
<1>3. PICK x, u : x = InsertInternal(tree, c, k[1], k, v, replace) /\ u = x.tree
  OBVIOUS
<1>4. Filed(u) /\ Put(tree, u, k, v, replace, x.freed)
  BY <1>1, <1>2, <1>3, InsertFiled
<1>5. tree' = u /\ ret' = Outcome(TRUE, NULL, NULL, x.freed)
  BY <1>2, <1>3 DEF Insert
<1>6. ret'.freed = x.freed
  BY <1>5 DEF Outcome
<1> QED
  BY Zenon, <1>4, <1>5, <1>6 DEF Inserted

\* A key of the rank is removed, or there is none.
Gone(r, outcome) ==
    /\ Filed(tree')
    /\ r \in DOMAIN tree.node => Dropped(tree, tree', {r}) /\ ret' = outcome
    /\ r \notin DOMAIN tree.node => tree' = tree /\ ret' = Nothing
LEMMA RemoveKeyDone ==
    ASSUME TreeInv, NEW r \in Rank, RemoveKey(r)
    PROVE  Gone(r, Outcome(TRUE, NULL, NULL, {tree.node[r].key, tree.node[r].value}))
<1>1. Filed(tree)
  BY DEF TreeInv
<1>2. PICK D, c : D = DOMAIN tree.node /\ c = Compared(Probe(r)) /\ Directs(D, Ident(D), c, r)
  BY <1>1, ProbeDirects
<1>3. PICK x : x = RemoveInternal(tree, c)
  OBVIOUS
<1>4. /\ tree' = x.tree
      /\ ret' = IF x.found THEN Outcome(TRUE, NULL, NULL, {x.key, x.value}) ELSE Nothing
  BY <1>2, <1>3 DEF RemoveKey
<1>5. CASE r \in D
  <2>1. TookOut(tree, x, r)
    BY <1>1, <1>2, <1>3, <1>5, RemoveFiled
  <2> QED
    BY Zenon, <1>2, <1>4, <1>5, <2>1 DEF Gone, TookOut
<1>6. CASE r \notin D
  <2>1. Missed(tree, x)
    BY <1>1, <1>2, <1>3, <1>6, RemoveFiled
  <2> QED
    BY Zenon, <1>1, <1>2, <1>4, <1>6, <2>1 DEF Gone, Missed
<1> QED
  BY Zenon, <1>5, <1>6

LEMMA StealDone ==
    ASSUME TreeInv, NEW r \in Rank, Steal(r)
    PROVE  Gone(r, Outcome(TRUE, tree.node[r].key, tree.node[r].value, {}))
<1>1. Filed(tree)
  BY DEF TreeInv
<1>2. PICK D, c : D = DOMAIN tree.node /\ c = Compared(Probe(r)) /\ Directs(D, Ident(D), c, r)
  BY <1>1, ProbeDirects
<1>3. PICK x : x = RemoveInternal(tree, c)
  OBVIOUS
<1>4. /\ tree' = x.tree
      /\ ret' = IF x.found THEN Outcome(TRUE, x.key, x.value, {}) ELSE Nothing
  BY <1>2, <1>3 DEF Steal
<1>5. CASE r \in D
  <2>1. TookOut(tree, x, r)
    BY <1>1, <1>2, <1>3, <1>5, RemoveFiled
  <2> QED
    BY Zenon, <1>2, <1>4, <1>5, <2>1 DEF Gone, TookOut
<1>6. CASE r \notin D
  <2>1. Missed(tree, x)
    BY <1>1, <1>2, <1>3, <1>6, RemoveFiled
  <2> QED
    BY Zenon, <1>1, <1>2, <1>4, <1>6, <2>1 DEF Gone, Missed
<1> QED
  BY Zenon, <1>5, <1>6

LEMMA LookupDone ==
    ASSUME TreeInv, NEW r \in Rank, LookupExtended(r)
    PROVE  /\ tree' = tree
           /\ ret' = IF r \in DOMAIN tree.node
                     THEN Outcome(TRUE, tree.node[r].key, tree.node[r].value, {})
                     ELSE Nothing
<1>1. Filed(tree)
  BY DEF TreeInv
<1>2. PICK D, c : D = DOMAIN tree.node /\ c = Compared(Probe(r)) /\ Directs(D, Ident(D), c, r)
  BY <1>1, ProbeDirects
<1>3. PICK n : n = FindNode(tree, c)
  OBVIOUS
<1>4. n = IF r \in D THEN r ELSE NULL
  BY <1>1, <1>2, <1>3, FindFiled
<1>5. /\ ret' = IF n = NULL THEN Nothing
                ELSE Outcome(TRUE, tree.node[n].key, tree.node[n].value, {})
      /\ tree' = tree
  BY <1>2, <1>3 DEF LookupExtended
<1>6. r # NULL
  BY RankAssumption
<1> QED
  BY Zenon, <1>2, <1>4, <1>5, <1>6

\* One end is removed, or the tree is empty.
EndKey(t, E, p) == IF E = {} THEN NULL ELSE t.node[p].key
EndDone(n, p) ==
    /\ Filed(tree') /\ Dropped(tree, tree', {n}) /\ n \in DOMAIN tree.node
    /\ ret' = Outcome(TRUE, EndKey(tree, DOMAIN tree.node \ {n}, p), NULL,
                      {tree.node[n].key, tree.node[n].value})
LEMMA EndRemoved ==
    ASSUME NEW x, NEW n, n \in DOMAIN tree.node, EndTaken(tree, x, n),
           x.temp_node # NULL => x.temp_node \in DOMAIN tree.node \ {n}, RemoveEnd(x)
    PROVE  EndDone(n, x.temp_node)
<1>1. PICK D, E, u, p : /\ D = DOMAIN tree.node /\ E = D \ {n} /\ u = x.tree /\ p = x.temp_node
                        /\ p # NULL => p \in E
  BY Zenon
<1>2. Filed(u) /\ Dropped(tree, u, {n}) /\ x.removed = n /\ (p = NULL <=> E = {})
  BY <1>1 DEF EndTaken, Dropped
<1>3. /\ tree' = u
      /\ ret' = Outcome(TRUE, IF p = NULL THEN NULL ELSE u.node[p].key, NULL,
                        {tree.node[n].key, tree.node[n].value})
  BY <1>1, <1>2 DEF RemoveEnd
<1>4. p # NULL => u.node[p].key = tree.node[p].key
  BY <1>1, <1>2 DEF Dropped, SameData
<1>5. (IF p = NULL THEN NULL ELSE u.node[p].key) = EndKey(tree, E, p)
  BY <1>2, <1>4 DEF EndKey
<1> QED
  BY Zenon, <1>1, <1>2, <1>3, <1>5 DEF EndDone

EndsDone ==
    \/ /\ DOMAIN tree.node = {} /\ ret' = Nothing /\ tree' = tree
    \/ /\ DOMAIN tree.node # {}
       /\ \E n, p : /\ EndDone(n, p)
                    /\ \/ /\ IsFirst(DOMAIN tree.node, n)
                          /\ DOMAIN tree.node \ {n} # {} => IsFirst(DOMAIN tree.node \ {n}, p)
                       \/ /\ IsLast(DOMAIN tree.node, n)
                          /\ DOMAIN tree.node \ {n} # {} => IsLast(DOMAIN tree.node \ {n}, p)
LEMMA EndsRemoved ==
    ASSUME TreeInv, RemoveFirstOrLast
    PROVE  EndsDone
<1>1. Filed(tree) /\ (tree.root = NULL <=> DOMAIN tree.node = {})
  BY HoldsDomain DEF TreeInv, Filed
<1>2. CASE tree.root = NULL
  BY <1>1, <1>2 DEF RemoveFirstOrLast, EndsDone
<1>3. CASE tree.root # NULL /\ RemoveEnd(RemoveFirstNode(tree))
  <2>1. PICK x, D : x = RemoveFirstNode(tree) /\ D = DOMAIN tree.node /\ D # {}
    BY <1>1, <1>3
  <2>2. PICK n : /\ IsFirst(D, n) /\ EndTaken(tree, x, n)
                 /\ x.temp_node # NULL => IsFirst(D \ {n}, x.temp_node)
    BY Zenon, <1>1, <2>1, FirstFiled
  <2>3. n \in D /\ (x.temp_node # NULL => x.temp_node \in D \ {n})
    BY <2>2 DEF IsFirst
  <2>4. EndDone(n, x.temp_node)
    BY <1>3, <2>1, <2>2, <2>3, EndRemoved
  <2>5. D \ {n} # {} => x.temp_node # NULL
    BY <2>1, <2>2 DEF EndTaken, Dropped
  <2> QED
    BY Zenon, <2>1, <2>2, <2>4, <2>5 DEF EndsDone
<1>4. CASE tree.root # NULL /\ RemoveEnd(RemoveLastNode(tree))
  <2>1. PICK x, D : x = RemoveLastNode(tree) /\ D = DOMAIN tree.node /\ D # {}
    BY <1>1, <1>4
  <2>2. PICK n : /\ IsLast(D, n) /\ EndTaken(tree, x, n)
                 /\ x.temp_node # NULL => IsLast(D \ {n}, x.temp_node)
    BY <1>1, <2>1, LastFiled
  <2>3. n \in D /\ (x.temp_node # NULL => x.temp_node \in D \ {n})
    BY <2>2 DEF IsLast
  <2>4. EndDone(n, x.temp_node)
    BY <1>4, <2>1, <2>2, <2>3, EndRemoved
  <2>5. D \ {n} # {} => x.temp_node # NULL
    BY <2>1, <2>2 DEF EndTaken, Dropped
  <2> QED
    BY Zenon, <2>1, <2>2, <2>4, <2>5 DEF EndsDone
<1> QED
  BY <1>2, <1>3, <1>4 DEF RemoveFirstOrLast

AllGone ==
    /\ Filed(tree') /\ Dropped(tree, tree', DOMAIN tree.node)
    /\ ret' = Outcome(TRUE, NULL, NULL,
                 UNION {{tree.node[n].key, tree.node[n].value} : n \in DOMAIN tree.node})
LEMMA RemoveAllDone ==
    ASSUME TreeInv, RemoveAll
    PROVE  AllGone
<1>1. Filed(tree)
  BY DEF TreeInv
<1>2. PICK u : u = RemoveAllNodes(tree)
  OBVIOUS
<1>3. Filed(u) /\ Dropped(tree, u, DOMAIN tree.node) /\ ToSet(Foreach(tree)) = DOMAIN tree.node
  BY <1>1, <1>2, EmptyFiled
<1>4. tree' = u
  BY <1>2 DEF RemoveAll
<1> QED
  BY <1>3, <1>4 DEF RemoveAll, AllGone

\* One call keeps the tree in order.
LEMMA NextFiled ==
    ASSUME TreeInv, Next
    PROVE  TreeInv'
<1>1. ASSUME NEW k \in KeyObject, NEW v \in Val, NEW replace \in BOOLEAN, Insert(k, v, replace)
      PROVE  Filed(tree')
  <2>1. Inserted(k, v, replace)
    BY <1>1, InsertDone
  <2> QED
    BY <2>1 DEF Inserted
<1>2. ASSUME NEW r \in Rank, RemoveKey(r) PROVE Filed(tree')
  <2>1. PICK o : Gone(r, o)
    BY Zenon, <1>2, RemoveKeyDone
  <2> QED
    BY <2>1 DEF Gone
<1>3. ASSUME NEW r \in Rank, Steal(r) PROVE Filed(tree')
  <2>1. PICK o : Gone(r, o)
    BY Zenon, <1>3, StealDone
  <2> QED
    BY <2>1 DEF Gone
<1>4. ASSUME NEW r \in Rank, LookupExtended(r) PROVE Filed(tree')
  <2>1. tree' = tree
    BY <1>4 DEF LookupExtended
  <2> QED
    BY <2>1 DEF TreeInv
<1>5. ASSUME RemoveFirstOrLast PROVE Filed(tree')
  <2>1. EndsDone
    BY <1>5, EndsRemoved
  <2> QED
    BY Zenon, <2>1 DEF EndsDone, EndDone, TreeInv
<1>6. ASSUME RemoveAll PROVE Filed(tree')
  <2>1. AllGone
    BY <1>6, RemoveAllDone
  <2> QED
    BY <2>1 DEF AllGone
<1> QED
  BY <1>1, <1>2, <1>3, <1>4, <1>5, <1>6 DEF Next, TreeInv

\* After any sequence of calls the tree is a search tree of the ranks, balanced
\* and threaded, whose nodes hold entries of their ranks.
THEOREM TreeInvariant == Spec => []TreeInv
<1>1. Init => TreeInv
  BY NewFiled DEF Init, TreeInv
<1>2. TreeInv /\ [Next]_vars => TreeInv'
  <2>1. CASE Next
    BY <2>1, NextFiled
  <2>2. CASE UNCHANGED vars
    BY <2>2 DEF vars, TreeInv
  <2> QED
    BY <2>1, <2>2
<1> QED
  BY <1>1, <1>2, PTL DEF Spec

\* No call loses a node or counts one twice: nnodes is the number of allocated
\* nodes, and all of them are below the root.
THEOREM NeverLosesNodes == Spec => []NothingLost
<1>1. TreeInv => NothingLost
  BY HoldsChecked DEF TreeInv, Filed, NothingLost
<1> QED
  BY <1>1, TreeInvariant, PTL

\* tree_node_check's assertion on balances holds after every call: rotations and
\* the two ways up the path keep them exact, and within -1 .. 1.
THEOREM BalancesStayExact == Spec => []BalancesExact
<1>1. TreeInv => BalancesExact
  BY HoldsChecked DEF TreeInv, Filed, BalancesExact
<1> QED
  BY <1>1, TreeInvariant, PTL

\* tree_node_check's assertions on threads hold after every call: threads lead
\* to the neighbours in order, through rotations and every way to unlink a node.
THEOREM ThreadsStayExact == Spec => []ThreadsExact
<1>1. TreeInv => ThreadsExact
  BY HoldsChecked DEF TreeInv, Filed, ThreadsExact
<1> QED
  BY <1>1, TreeInvariant, PTL

-----------------------------------------------------------------------------
(* The calls as operations of the ordered map.                              *)

Entry(t, r) == [key |-> t.node[r].key, value |-> t.node[r].value]
EntriesOf(t) == [r \in DOMAIN t.node |-> Entry(t, r)]

LEMMA PutEntries ==
    ASSUME NEW t, NEW u, NEW k, NEW v, NEW replace, NEW freed, Put(t, u, k, v, replace, freed),
           NEW r, r = k[1], NEW e, e = Entry(u, r)
    PROVE  EntriesOf(u) = [q \in DOMAIN t.node \cup {r} |->
                              IF q = r THEN e ELSE EntriesOf(t)[q]]
<1>1. DOMAIN u.node = DOMAIN t.node \cup {r}
  BY DEF Put
<1>2. ASSUME NEW q \in DOMAIN t.node \cup {r}
      PROVE  Entry(u, q) = IF q = r THEN e ELSE EntriesOf(t)[q]
  <2>1. CASE q = r
    BY <2>1
  <2>2. CASE q # r
    <3>1. q \in DOMAIN t.node \ {k[1]}
      BY <2>2
    <3>2. u.node[q].key = t.node[q].key /\ u.node[q].value = t.node[q].value
      BY <3>1 DEF Put, SameData
    <3> QED
      BY <2>2, <3>1, <3>2 DEF EntriesOf, Entry
  <2> QED
    BY <2>1, <2>2
<1> QED
  BY <1>1, <1>2 DEF EntriesOf

EntriesLeft(t, S) == [q \in DOMAIN t.node \ S |-> EntriesOf(t)[q]]
LEMMA DroppedEntries ==
    ASSUME NEW t, NEW u, NEW S, Dropped(t, u, S)
    PROVE  EntriesOf(u) = EntriesLeft(t, S)
<1>1. DOMAIN u.node = DOMAIN t.node \ S
  BY DEF Dropped
<1>2. ASSUME NEW q \in DOMAIN t.node \ S
      PROVE  Entry(u, q) = EntriesOf(t)[q]
  <2>1. u.node[q].key = t.node[q].key /\ u.node[q].value = t.node[q].value
    BY DEF Dropped, SameData
  <2> QED
    BY <2>1 DEF EntriesOf, Entry
<1> QED
  BY <1>1, <1>2 DEF EntriesOf, EntriesLeft

LEMMA ContentsEntries ==
    /\ Contents = EntriesOf(tree) /\ DOMAIN Contents = DOMAIN tree.node
    /\ \A r \in DOMAIN tree.node :
          Contents[r].key = tree.node[r].key /\ Contents[r].value = tree.node[r].value
BY DEF Contents, EntriesOf, Entry

LEMMA InsertIsPut ==
    ASSUME TreeInv, NEW k \in KeyObject, NEW v \in Val, NEW replace \in BOOLEAN,
           Insert(k, v, replace)
    PROVE  Map!MNext
<1>1. Inserted(k, v, replace)
  BY InsertDone
<1>2. PICK r, t, u, D : r = k[1] /\ t = tree /\ u = tree' /\ D = DOMAIN tree.node
  OBVIOUS
<1>3. Put(t, u, k, v, replace, ret'.freed) /\ ret' = Outcome(TRUE, NULL, NULL, ret'.freed)
  BY Zenon, <1>1, <1>2 DEF Inserted
<1>4. DOMAIN Contents = D /\ \A q \in D : Contents[q].key = t.node[q].key /\ Contents[q].value = t.node[q].value
  BY <1>2, ContentsEntries
<1>5. PICK e : e = [key |-> IF r \in D /\ ~replace THEN Contents[r].key ELSE k, value |-> v]
  BY Zenon
<1>6. Entry(u, r) = e
  <2>1. u.node[r].value = v
    BY <1>2, <1>3 DEF Put
  <2>2. u.node[r].key = IF r \in D /\ ~replace THEN t.node[r].key ELSE k
    BY <1>2, <1>3 DEF Put
  <2> QED
    BY <1>4, <1>5, <2>1, <2>2 DEF Entry
<1>7. Contents' = Map!With(r, e)
  <2>1. Contents' = EntriesOf(u)
    BY <1>2, ContentsEntries DEF Contents, EntriesOf, Entry
  <2>2. EntriesOf(u) = [q \in D \cup {r} |-> IF q = r THEN e ELSE EntriesOf(t)[q]]
    BY <1>2, <1>3, <1>6, PutEntries
  <2>3. Contents = EntriesOf(t)
    BY <1>2, ContentsEntries
  <2> QED
    BY <1>4, <2>1, <2>2, <2>3 DEF Map!With
<1>8. ret'.freed = IF r \notin D THEN {}
                   ELSE {Contents[r].value, IF replace THEN Contents[r].key ELSE k}
  BY Zenon, <1>2, <1>3, <1>4 DEF Put
<1>9. k \in KeyObject \ Map!Objects(DOMAIN Contents)
  <2>1. ASSUME NEW q \in D PROVE k # Contents[q].key /\ k # Contents[q].value
    <3>1. k # tree.node[q].key
      BY <1>2 DEF Insert, StoredKeys
    <3>2. tree.node[q].value \in Val
      BY <1>2 DEF TreeInv, Filed, HasEntry
    <3> QED
      BY <1>2, <1>4, <3>1, <3>2, ObjectAssumption
  <2> QED
    BY <1>4, <2>1 DEF Map!Objects
<1>10. Map!MPut(k, v, replace)
  BY <1>2, <1>3, <1>4, <1>5, <1>7, <1>8 DEF Map!MPut, Map!Outcome, Outcome
<1> QED
  BY <1>9, <1>10 DEF Map!MNext, Map!KeyObject, KeyObject

\* What a removal leaves, as a map.
LEMMA DroppedContents ==
    ASSUME NEW S, Dropped(tree, tree', S)
    PROVE  Contents' = Map!Without(S)
<1>1. PICK t, u : t = tree /\ u = tree' /\ Dropped(t, u, S)
  OBVIOUS
<1>2. EntriesOf(u) = EntriesLeft(t, S)
  BY <1>1, DroppedEntries
<1>3. Contents = EntriesOf(t) /\ DOMAIN Contents = DOMAIN t.node
  BY <1>1, ContentsEntries
<1>4. Contents' = EntriesOf(u)
  BY <1>1 DEF Contents, EntriesOf, Entry
<1> QED
  BY <1>2, <1>3, <1>4 DEF Map!Without, EntriesLeft

LEMMA ContentsObjects ==
    ASSUME NEW S, S \subseteq DOMAIN tree.node
    PROVE  Map!Objects(S) = UNION {{tree.node[n].key, tree.node[n].value} : n \in S}
<1>1. \A r \in S : Contents[r].key = tree.node[r].key /\ Contents[r].value = tree.node[r].value
  BY ContentsEntries
<1> QED
  BY <1>1 DEF Map!Objects

LEMMA OneObjects ==
    ASSUME NEW n \in DOMAIN tree.node
    PROVE  Map!Objects({n}) = {tree.node[n].key, tree.node[n].value}
<1>1. {n} \subseteq DOMAIN tree.node
  OBVIOUS
<1> QED
  BY <1>1, ContentsObjects

LEMMA GoneIsDelete ==
    ASSUME NEW r, NEW o, Gone(r, o),
           r \in DOMAIN tree.node =>
               \/ o = Outcome(TRUE, NULL, NULL, {tree.node[r].key, tree.node[r].value})
               \/ o = Outcome(TRUE, tree.node[r].key, tree.node[r].value, {})
    PROVE  Map!MDelete(r)
<1>1. /\ DOMAIN Contents = DOMAIN tree.node
      /\ r \in DOMAIN tree.node =>
            Contents[r].key = tree.node[r].key /\ Contents[r].value = tree.node[r].value
  BY ContentsEntries
<1>2. CASE r \in DOMAIN tree.node
  <2>1. Contents' = Map!Without({r})
    BY <1>2, DroppedContents DEF Gone
  <2>2. Map!Objects({r}) = {tree.node[r].key, tree.node[r].value}
    BY <1>2, OneObjects
  <2>3. \/ ret' = Map!Outcome(TRUE, NULL, NULL, Map!Objects({r}))
        \/ ret' = Map!Outcome(TRUE, Contents[r].key, Contents[r].value, {})
    BY <1>1, <1>2, <2>2 DEF Gone, Map!Outcome, Outcome
  <2> QED
    BY Zenon, <1>1, <1>2, <2>1, <2>3 DEF Map!MDelete
<1>3. CASE r \notin DOMAIN tree.node
  <2>1. tree' = tree /\ ret' = Nothing
    BY <1>3 DEF Gone
  <2>2. Contents' = Contents
    BY <2>1 DEF Contents
  <2> QED
    BY <1>1, <1>3, <2>1, <2>2 DEF Map!MDelete, Map!Nothing, Nothing, Map!Outcome, Outcome
<1> QED
  BY <1>2, <1>3

LEMMA LookupIsLookup ==
    ASSUME TreeInv, NEW r \in Rank, LookupExtended(r)
    PROVE  Map!MLookup(r)
<1>1. /\ DOMAIN Contents = DOMAIN tree.node
      /\ r \in DOMAIN tree.node =>
            Contents[r].key = tree.node[r].key /\ Contents[r].value = tree.node[r].value
  BY ContentsEntries
<1>2. /\ tree' = tree
      /\ ret' = IF r \in DOMAIN tree.node
                THEN Outcome(TRUE, tree.node[r].key, tree.node[r].value, {})
                ELSE Nothing
  BY Zenon, LookupDone
<1>3. Contents' = Contents
  BY <1>2 DEF Contents
<1> QED
  BY Zenon, <1>1, <1>2, <1>3 DEF Map!MLookup, Map!Nothing, Nothing, Map!Outcome, Outcome

LEMMA RemoveAllIsDeleteAll ==
    ASSUME TreeInv, RemoveAll
    PROVE  Map!MDeleteAll(DOMAIN Contents)
<1>1. AllGone /\ DOMAIN Contents = DOMAIN tree.node
  BY RemoveAllDone, ContentsEntries
<1>2. Contents' = Map!Without(DOMAIN tree.node)
  BY <1>1, DroppedContents DEF AllGone
<1>3. Map!Objects(DOMAIN tree.node)
        = UNION {{tree.node[n].key, tree.node[n].value} : n \in DOMAIN tree.node}
  BY ContentsObjects
<1> QED
  BY Zenon, <1>1, <1>2, <1>3 DEF AllGone, Map!MDeleteAll, Map!Outcome, Outcome

\* The least and the greatest of a set of numbers.
LEMMA EndsUnique ==
    ASSUME NEW S, S \subseteq Int, NEW n
    PROVE  /\ IsFirst(S, n) => Map!Least(S) = n
           /\ IsLast(S, n) => Map!Greatest(S) = n
<1>1. ASSUME IsFirst(S, n) PROVE Map!Least(S) = n
  <2>1. \A x \in S : (\A y \in S : x <= y) => x = n
    BY <1>1 DEF IsFirst
  <2>2. n \in S /\ \A y \in S : n <= y
    BY <1>1 DEF IsFirst
  <2> QED
    BY Zenon, <2>1, <2>2 DEF Map!Least
<1>2. ASSUME IsLast(S, n) PROVE Map!Greatest(S) = n
  <2>1. \A x \in S : (\A y \in S : x >= y) => x = n
    BY <1>2 DEF IsLast
  <2>2. n \in S /\ \A y \in S : n >= y
    BY <1>2 DEF IsLast
  <2> QED
    BY Zenon, <2>1, <2>2 DEF Map!Greatest
<1> QED
  BY <1>1, <1>2

LEMMA EndIsDelete ==
    ASSUME TreeInv, NEW n, NEW p, EndDone(n, p), NEW D, D = DOMAIN tree.node, NEW E, E = D \ {n}
    PROVE  /\ (IsFirst(D, n) /\ (E # {} => IsFirst(E, p))) => Map!ODeleteEnd(Map!Least)
           /\ (IsLast(D, n) /\ (E # {} => IsLast(E, p))) => Map!ODeleteEnd(Map!Greatest)
<1>1. D \subseteq Int /\ E \subseteq Int /\ n \in D /\ D # {}
  BY Zenon, RankAssumption DEF TreeInv, Filed, EndDone
<1>2. DOMAIN Contents = D /\ \A r \in D : Contents[r].key = tree.node[r].key
  BY ContentsEntries
<1>3. Contents' = Map!Without({n})
  BY DroppedContents DEF EndDone
<1>4. Map!Objects({n}) = {tree.node[n].key, tree.node[n].value}
  BY Zenon, <1>1, OneObjects
<1>5. ASSUME E # {} => p \in E
      PROVE  ret' = Map!Outcome(TRUE, IF E = {} THEN NULL ELSE Contents[p].key, NULL, Map!Objects({n}))
  BY Zenon, <1>2, <1>4, <1>5 DEF EndDone, EndKey, Map!Outcome, Outcome
<1>6. ASSUME IsFirst(D, n), E # {} => IsFirst(E, p) PROVE Map!ODeleteEnd(Map!Least)
  <2>1. Map!Least(D) = n /\ (E # {} => Map!Least(E) = p /\ p \in E)
    BY Zenon, <1>1, <1>6, EndsUnique DEF IsFirst
  <2> QED
    BY Zenon, <1>1, <1>2, <1>3, <1>5, <2>1 DEF Map!ODeleteEnd
<1>7. ASSUME IsLast(D, n), E # {} => IsLast(E, p) PROVE Map!ODeleteEnd(Map!Greatest)
  <2>1. Map!Greatest(D) = n /\ (E # {} => Map!Greatest(E) = p /\ p \in E)
    BY <1>1, <1>7, EndsUnique DEF IsLast
  <2> QED
    BY <1>1, <1>2, <1>3, <1>5, <2>1 DEF Map!ODeleteEnd
<1> QED
  BY <1>6, <1>7

\* Every step of the tree is a step of the map, or none.
LEMMA NextIsMap ==
    ASSUME TreeInv, [Next]_vars
    PROVE  [Map!ONext]_(Map!mapVars)
<1>1. ASSUME NEW k \in KeyObject, NEW v \in Val, NEW replace \in BOOLEAN, Insert(k, v, replace)
      PROVE  Map!ONext
  BY <1>1, InsertIsPut DEF Map!ONext
<1>2. ASSUME NEW r \in Rank, RemoveKey(r) PROVE Map!ONext
  <2>1. Map!MDelete(r)
    BY Zenon, <1>2, RemoveKeyDone, GoneIsDelete
  <2> QED
    BY <2>1 DEF Map!ONext, Map!MNext
<1>3. ASSUME NEW r \in Rank, Steal(r) PROVE Map!ONext
  <2>1. Map!MDelete(r)
    BY Zenon, <1>3, StealDone, GoneIsDelete
  <2> QED
    BY <2>1 DEF Map!ONext, Map!MNext
<1>4. ASSUME NEW r \in Rank, LookupExtended(r) PROVE Map!ONext
  <2>1. Map!MLookup(r)
    BY <1>4, LookupIsLookup
  <2> QED
    BY <2>1 DEF Map!ONext, Map!MNext
<1>5. ASSUME RemoveFirstOrLast PROVE Map!ONext
  <2>1. EndsDone
    BY <1>5, EndsRemoved
  <2>2. CASE DOMAIN tree.node = {} /\ ret' = Nothing /\ tree' = tree
    <3>1. Contents' = Contents /\ DOMAIN Contents = {}
      BY <2>2, ContentsEntries DEF Contents
    <3>2. Map!ODeleteEnd(Map!Least)
      BY <2>2, <3>1 DEF Map!ODeleteEnd, Map!Nothing, Nothing, Map!Outcome, Outcome
    <3> QED
      BY <3>2 DEF Map!ONext
  <2>3. ASSUME NEW n, NEW p, EndDone(n, p),
               \/ /\ IsFirst(DOMAIN tree.node, n)
                  /\ DOMAIN tree.node \ {n} # {} => IsFirst(DOMAIN tree.node \ {n}, p)
               \/ /\ IsLast(DOMAIN tree.node, n)
                  /\ DOMAIN tree.node \ {n} # {} => IsLast(DOMAIN tree.node \ {n}, p)
        PROVE  Map!ONext
    <3>1. Map!ODeleteEnd(Map!Least) \/ Map!ODeleteEnd(Map!Greatest)
      BY <2>3, EndIsDelete
    <3> QED
      BY <3>1 DEF Map!ONext
  <2> QED
    BY Zenon, <2>1, <2>2, <2>3 DEF EndsDone
<1>6. ASSUME RemoveAll PROVE Map!ONext
  <2>1. Map!MDeleteAll(DOMAIN Contents)
    BY <1>6, RemoveAllIsDeleteAll
  <2> QED
    BY <2>1 DEF Map!ONext, Map!MNext
<1>7. CASE UNCHANGED vars
  <2>1. Contents' = Contents /\ ret' = ret
    BY <1>7 DEF vars, Contents
  <2> QED
    BY <2>1 DEF Map!mapVars
<1>8. Next => Map!ONext
  BY <1>1, <1>2, <1>3, <1>4, <1>5, <1>6 DEF Next
<1> QED
  BY <1>7, <1>8

\* tree_t implements the ordered map: whatever the shape, every call changes the
\* entries, returns and passes to the destroy functions what the map says, and
\* the two ends are the least and the greatest key.
THEOREM TreeIsOrderedMap == Spec => ImplementsMap
<1>1. Init => Map!MInit
  <2> SUFFICES ASSUME Init PROVE Map!MInit
    OBVIOUS
  <2>1. DOMAIN tree.node = {} /\ ret = Nothing
    BY NewFiled DEF Init
  <2>2. Contents = [r \in {} |-> NULL]
    BY <2>1 DEF Contents
  <2> QED
    BY <2>1, <2>2 DEF Map!MInit, Map!Nothing, Nothing, Map!Outcome, Outcome
<1>2. TreeInv /\ [Next]_vars => [Map!ONext]_(Map!mapVars)
  BY NextIsMap
<1> QED
  BY <1>1, <1>2, TreeInvariant, PTL DEF Spec, ImplementsMap, Map!OSpec

\* As long as tree_remove_first_node and tree_remove_last_node are only called
\* on trees of two nodes and more, as topn_insert does for a capacity of two and
\* more, they never read the key of a null pointer.
THEOREM TwoNodesNeverCrash ==
    ASSUME FewestNodes \in Nat, FewestNodes >= 2
    PROVE  Spec => []NeverCrashes
<1>1. ASSUME TreeInv, RemoveFirstOrLast, ~crashed PROVE ~crashed'
  <2>1. PICK D : D = DOMAIN tree.node
    OBVIOUS
  <2>2. Filed(tree) /\ (tree.root = NULL <=> D = {}) /\ tree.nnodes = Cardinality(D)
    BY <1>1, <2>1, HoldsDomain DEF TreeInv, Filed
  <2>3. \A n \in D : D \ {n} = {} => Cardinality(D) = 1
    <3> SUFFICES ASSUME NEW n \in D, D \ {n} = {} PROVE Cardinality(D) = 1
      OBVIOUS
    <3>1. D = {n}
      OBVIOUS
    <3> QED
      BY <3>1, FS_Singleton
  <2>4. ASSUME tree.root # NULL, tree.nnodes >= FewestNodes, NEW x, NEW n \in D,
               EndTaken(tree, x, n), RemoveEnd(x)
        PROVE  ~crashed'
    <3>1. Cardinality(D) # 1
      BY <2>2, <2>4
    <3>2. D \ {n} # {}
      BY <2>3, <3>1
    <3>3. x.temp_node # NULL
      BY <2>1, <2>4, <3>2 DEF EndTaken, Dropped
    <3> QED
      BY Zenon, <2>4, <3>3 DEF RemoveEnd
  <2>5. CASE tree.root # NULL /\ tree.nnodes >= FewestNodes /\ RemoveEnd(RemoveFirstNode(tree))
    <3>1. PICK x : x = RemoveFirstNode(tree)
      OBVIOUS
    <3>2. PICK n : IsFirst(D, n) /\ EndTaken(tree, x, n)
      BY Zenon, <2>1, <2>2, <2>5, <3>1, FirstFiled
    <3>3. n \in D
      BY <3>2 DEF IsFirst
    <3> QED
      BY <2>4, <2>5, <3>1, <3>2, <3>3
  <2>6. CASE tree.root # NULL /\ tree.nnodes >= FewestNodes /\ RemoveEnd(RemoveLastNode(tree))
    <3>1. PICK x : x = RemoveLastNode(tree)
      OBVIOUS
    <3>2. PICK n : IsLast(D, n) /\ EndTaken(tree, x, n)
      BY <2>1, <2>2, <2>6, <3>1, LastFiled
    <3>3. n \in D
      BY <3>2 DEF IsLast
    <3> QED
      BY <2>4, <2>6, <3>1, <3>2, <3>3
  <2> QED
    BY <1>1, <2>5, <2>6 DEF RemoveFirstOrLast
<1>2. ASSUME TreeInv, [Next]_vars, ~crashed PROVE ~crashed'
  BY Zenon, <1>1, <1>2 DEF Next, vars, Insert, RemoveKey, Steal, LookupExtended, RemoveAll
<1>3. Init => NeverCrashes
  BY DEF Init, NeverCrashes
<1>4. TreeInv /\ NeverCrashes /\ [Next]_vars => NeverCrashes'
  BY <1>2 DEF NeverCrashes
<1> QED
  BY <1>3, <1>4, TreeInvariant, PTL DEF Spec

-----------------------------------------------------------------------------
(* topn.cpp: a container of items on the tree.  Items of equal weight       *)
(* compare as less both ways, so the tree is not a search tree of weights;  *)
(* but positions in it can be chosen such that weights do not fall.         *)

\* What holds of a tree for some positions holds for others in the same order.
LEMMA Repositioned ==
    ASSUME NEW t, NEW D, NEW pos, Holds(t, D, pos), NEW pos2 \in [D -> Int],
           \A m, n \in D : pos[m] < pos[n] => pos2[m] < pos2[n]
    PROVE  Holds(t, D, pos2)
<1>1. PICK lo, hi, up, h : Sound(t, D, pos, lo, hi, up, h)
  BY DEF Holds
<1>2. /\ Ghosts(D, pos, lo, hi, up) /\ Rooted(t, D, lo, hi, up) /\ NULL \notin D
      /\ \A m \in D : /\ LeftPlaced(t, D, pos, lo, hi, up, m)
                      /\ RightPlaced(t, D, pos, lo, hi, up, m) /\ pos[m] \in Int
  BY <1>1, SoundParts DEF Shape
<1>3. lo \in [D -> D \cup {NULL}] /\ hi \in [D -> D \cup {NULL}] /\ up \in [D -> D \cup {NULL}]
      /\ \A m, n \in D : pos[m] = pos[n] => m = n
  BY <1>2 DEF Ghosts
<1>4. \A m, n \in D : pos2[m] < pos2[n] <=> pos[m] < pos[n]
  <2> SUFFICES ASSUME NEW m \in D, NEW n \in D, pos2[m] < pos2[n] PROVE pos[m] < pos[n]
    OBVIOUS
  <2>1. pos2[m] \in Int /\ pos2[n] \in Int /\ pos[m] \in Int /\ pos[n] \in Int
    BY <1>2
  <2>2. m # n /\ ~(pos[n] < pos[m])
    BY <2>1
  <2> QED
    BY <1>3, <2>1, <2>2
<1>5. Ghosts(D, pos2, lo, hi, up)
  <2>1. ASSUME NEW m \in D, NEW n \in D, pos2[m] = pos2[n] PROVE m = n
    <3>1. pos2[m] \in Int /\ pos2[n] \in Int /\ pos[m] \in Int /\ pos[n] \in Int
      BY <1>2
    <3>2. ~(pos[m] < pos[n]) /\ ~(pos[n] < pos[m])
      BY <1>4, <2>1, <3>1
    <3> QED
      BY <1>3, <3>1, <3>2
  <2> QED
    BY <1>2, <1>3, <2>1 DEF Ghosts
<1>6. \A a, b \in D \cup {NULL} : /\ Before(pos2, a, b) <=> Before(pos, a, b)
                                  /\ Adjacent(D, pos2, a, b) <=> Adjacent(D, pos, a, b)
  <2> SUFFICES ASSUME NEW a \in D \cup {NULL}, NEW b \in D \cup {NULL}
               PROVE  /\ Before(pos2, a, b) <=> Before(pos, a, b)
                      /\ Adjacent(D, pos2, a, b) <=> Adjacent(D, pos, a, b)
    OBVIOUS
  <2>1. Before(pos2, a, b) <=> Before(pos, a, b)
    BY <1>4 DEF Before
  <2>2. Adjacent(D, pos2, a, b) <=> Adjacent(D, pos, a, b)
    BY <1>4 DEF Adjacent
  <2> QED
    BY <2>1, <2>2
<1>7. ASSUME NEW m \in D PROVE Placed(t, D, pos2, lo, hi, up, m)
  <2>1. /\ LeftPlaced(t, D, pos, lo, hi, up, m) /\ RightPlaced(t, D, pos, lo, hi, up, m)
        /\ lo[m] \in D \cup {NULL} /\ hi[m] \in D \cup {NULL} /\ m \in D \cup {NULL}
    BY <1>2, <1>3
  <2>2. LeftPlaced(t, D, pos2, lo, hi, up, m)
    BY <1>6, <2>1 DEF LeftPlaced
  <2>3. RightPlaced(t, D, pos2, lo, hi, up, m)
    BY <1>6, <2>1 DEF RightPlaced
  <2> QED
    BY <2>2, <2>3 DEF Placed
<1>8. Shape(t, D, pos2, lo, hi, up)
  BY <1>2, <1>5, <1>7 DEF Shape
<1>9. TreeType(t, D) /\ IsFiniteSet(D) /\ t.nnodes = Cardinality(D) /\ Settled(t, D, h)
  BY <1>1 DEF Sound
<1> QED
  BY <1>8, <1>9 DEF Sound, Holds

\* The nodes before each, counted twice, and a place between those of S and the
\* others when those of S come first.
Behind(D, pos, m) == {x \in D : pos[x] < pos[m]}
Doubled(D, pos) == [m \in D |-> 2 * Cardinality(Behind(D, pos, m))]
Splits(D, pos, S, b) ==
    /\ b \in Int
    /\ \A m \in D : IF m \in S THEN pos[m] < b ELSE b < pos[m]

LEMMA PlaceBetween ==
    ASSUME NEW D, IsFiniteSet(D), NEW pos \in [D -> Int],
           \A m, n \in D : pos[m] = pos[n] => m = n,
           NEW S, S \subseteq D, \A m \in S, n \in D \ S : pos[m] < pos[n],
           NEW pos2, pos2 = Doubled(D, pos)
    PROVE  /\ pos2 \in [D -> Int]
           /\ \A m, n \in D : pos[m] < pos[n] => pos2[m] < pos2[n]
           /\ \E b : Splits(D, pos2, S, b)
<1>1. \A m \in D : /\ IsFiniteSet(Behind(D, pos, m)) /\ Cardinality(Behind(D, pos, m)) \in Nat
                   /\ pos2[m] = 2 * Cardinality(Behind(D, pos, m))
  <2> SUFFICES ASSUME NEW m \in D
               PROVE  /\ IsFiniteSet(Behind(D, pos, m)) /\ Cardinality(Behind(D, pos, m)) \in Nat
                      /\ pos2[m] = 2 * Cardinality(Behind(D, pos, m))
    OBVIOUS
  <2>1. Behind(D, pos, m) \in SUBSET D
    BY DEF Behind
  <2>2. IsFiniteSet(Behind(D, pos, m))
    BY <2>1, FS_Subset
  <2> QED
    BY <2>2, FS_CardinalityType DEF Doubled
<1>2. pos2 \in [D -> Int]
  <2>1. \A m \in D : pos2[m] \in Int
    BY <1>1
  <2>2. pos2 = [m \in D |-> pos2[m]]
    BY DEF Doubled
  <2> QED
    BY <2>1, <2>2
<1>3. ASSUME NEW m \in D, NEW n \in D, pos[m] < pos[n] PROVE pos2[m] < pos2[n]
  <2>1. PICK A, B : A = Behind(D, pos, m) /\ B = Behind(D, pos, n)
    OBVIOUS
  <2>2. A \in SUBSET B /\ m \in B /\ m \notin A
    BY <1>3, <2>1 DEF Behind
  <2>3. IsFiniteSet(B) /\ Cardinality(A) \in Nat /\ Cardinality(B) \in Nat
        /\ pos2[m] = 2 * Cardinality(A) /\ pos2[n] = 2 * Cardinality(B)
    BY <1>1, <2>1
  <2>4. Cardinality(A) <= Cardinality(B) /\ Cardinality(A) # Cardinality(B)
    BY <2>2, <2>3, FS_Subset
  <2> QED
    BY <2>3, <2>4
<1>4. IsFiniteSet(S) /\ Cardinality(S) \in Nat
  <2>1. S \in SUBSET D
    OBVIOUS
  <2> QED
    BY <2>1, FS_Subset, FS_CardinalityType
<1>5. ASSUME NEW m \in S PROVE pos2[m] < 2 * Cardinality(S) - 1
  <2>1. PICK A : A = Behind(D, pos, m)
    OBVIOUS
  <2>2. m \in D /\ m \notin A
    BY <2>1 DEF Behind
  <2>3. ASSUME NEW x \in A PROVE x \in S
    <3>1. x \in D /\ pos[x] < pos[m] /\ pos[x] \in Int /\ pos[m] \in Int
      BY <2>1, <2>2 DEF Behind
    <3>2. x \in D \ S => pos[m] < pos[x]
      OBVIOUS
    <3> QED
      BY <3>1, <3>2
  <2>4. A \in SUBSET S
    BY <2>3
  <2>5. Cardinality(A) <= Cardinality(S) /\ Cardinality(A) # Cardinality(S)
    BY <1>4, <2>2, <2>4, FS_Subset
  <2>6. Cardinality(A) \in Nat /\ pos2[m] = 2 * Cardinality(A)
    BY <1>1, <2>1, <2>2
  <2> QED
    BY <1>4, <2>5, <2>6
<1>6. ASSUME NEW m \in D \ S PROVE 2 * Cardinality(S) - 1 < pos2[m]
  <2>1. PICK A : A = Behind(D, pos, m)
    OBVIOUS
  <2>2. S \in SUBSET A
    BY <2>1 DEF Behind
  <2>3. IsFiniteSet(A) /\ Cardinality(A) \in Nat /\ pos2[m] = 2 * Cardinality(A)
    BY <1>1, <2>1
  <2>4. Cardinality(S) <= Cardinality(A)
    BY <2>2, <2>3, FS_Subset
  <2> QED
    BY <1>4, <2>3, <2>4
<1>7. PICK b \in Int : b = 2 * Cardinality(S) - 1
  <2>1. 2 * Cardinality(S) - 1 \in Int
    BY <1>4
  <2> QED
    BY <2>1
<1>8. Splits(D, pos2, S, b)
  BY <1>5, <1>6, <1>7 DEF Splits
<1> QED
  BY <1>2, <1>3, <1>8

\* An insertion looks at signs only.
SameSigns(D, c, c2) == \A m \in D : (c[m] < 0 <=> c2[m] < 0) /\ (c[m] > 0 <=> c2[m] > 0)
                                    /\ (c[m] = 0 <=> c2[m] = 0)

LEMMA SignsDecide ==
    ASSUME NEW t, NEW D, NEW pos, Holds(t, D, pos), NEW c, NEW c2, NEW key, Directs(D, pos, c2, key),
           SameSigns(D, c, c2), NEW new, NEW k, NEW v, NEW replace
    PROVE  InsertInternal(t, c, new, k, v, replace) = InsertInternal(t, c2, new, k, v, replace)
<1>1. PICK lo, hi, up, h : Sound(t, D, pos, lo, hi, up, h)
  BY DEF Holds
<1>2. DOMAIN t.node = D /\ (t.root = NULL <=> D = {})
  BY HoldsDomain
<1>3. CASE D = {}
  BY <1>2, <1>3 DEF InsertInternal
<1>4. CASE D # {}
  <2>1. Down(t, c) = Down(t, c2)
    BY <1>2 DEF Down, SameSigns
  <2>2. PICK w : w = Way(t, c2, t.root)
    OBVIOUS
  <2>3. Way(t, c, t.root) = w
    BY <2>1, <2>2 DEF Way
  <2>4. Found(t, D, pos, lo, hi, c2, key, w[Len(w)])
    BY <1>1, <1>4, <2>2, SearchFinds
  <2>5. PICK n : n = Last(w)
    OBVIOUS
  <2>6. n \in D
    BY <2>4, <2>5 DEF Found, Last
  <2>7. (c[n] < 0 <=> c2[n] < 0) /\ (c[n] = 0 <=> c2[n] = 0)
    BY <2>6 DEF SameSigns
  <2>8. CASE c2[n] = 0
    BY <1>2, <1>4, <2>2, <2>3, <2>5, <2>7, <2>8, Zenon DEF InsertInternal
  <2>9. CASE c2[n] # 0 /\ c2[n] < 0
    BY <1>2, <1>4, <2>2, <2>3, <2>5, <2>7, <2>9, Zenon DEF InsertInternal
  <2>10. CASE c2[n] # 0 /\ ~(c2[n] < 0)
    BY <1>2, <1>4, <2>2, <2>3, <2>5, <2>7, <2>10, Zenon DEF InsertInternal
  <2> QED
    BY <2>8, <2>9, <2>10
<1> QED
  BY <1>3, <1>4

\* The positions agree with the weights, as far as those differ; each item is
\* its own node.
Rising(D, pos) == \A m, n \in D : pos[m] < pos[n] => Weight[m] <= Weight[n]
Ordered(t) ==
    LET D == DOMAIN t.node IN
    /\ D \subseteq Item
    /\ \A n \in D : t.node[n].key = n
    /\ \E pos : Holds(t, D, pos) /\ Rising(D, pos)

LEMMA HoldsParts ==
    ASSUME NEW t, NEW D, NEW pos, Holds(t, D, pos)
    PROVE  /\ IsFiniteSet(D) /\ NULL \notin D /\ t.nnodes = Cardinality(D) /\ DOMAIN t.node = D
           /\ pos \in [D -> Int] /\ \A m, n \in D : pos[m] = pos[n] => m = n
<1>1. PICK lo, hi, up, h : Sound(t, D, pos, lo, hi, up, h)
  BY DEF Holds
<1>2. Ghosts(D, pos, lo, hi, up)
  BY <1>1, SoundParts DEF Shape
<1> QED
  BY <1>1, <1>2, SoundParts DEF Sound, Ghosts

\* A new item goes behind the lighter ones and before those at least as heavy.
Joins(t, u, k) == Ordered(u) /\ DOMAIN u.node = DOMAIN t.node \cup {k}

LEMMA ItemPut ==
    ASSUME NEW t, Ordered(t), NEW k \in Item, k \notin DOMAIN t.node, NEW u, u = NewItem(t, k)
    PROVE  Joins(t, u, k)
<1>1. PICK D : D = DOMAIN t.node
  OBVIOUS
<1>2. D \subseteq Item /\ (\A n \in D : t.node[n].key = n) /\ k \notin D
  BY <1>1 DEF Ordered
<1>3. PICK pos0 : Holds(t, D, pos0) /\ Rising(D, pos0)
  BY <1>1 DEF Ordered
<1>4. /\ IsFiniteSet(D) /\ NULL \notin D
      /\ pos0 \in [D -> Int] /\ \A m, n \in D : pos0[m] = pos0[n] => m = n
  BY <1>3, HoldsParts
<1>5. Weight[k] \in Int /\ \A n \in D : Weight[n] \in Int
  BY <1>2, WeightAssumption
<1>6. PICK S : S = {m \in D : Weight[m] < Weight[k]}
  BY Zenon
<1>7. ASSUME NEW m \in S, NEW n \in D \ S PROVE pos0[m] < pos0[n]
  <2>1. Weight[m] < Weight[n] /\ m # n /\ m \in D /\ n \in D
    BY <1>5, <1>6
  <2>2. ~(pos0[n] < pos0[m])
    BY <1>3, <1>5, <2>1 DEF Rising
  <2>3. pos0[m] \in Int /\ pos0[n] \in Int /\ pos0[m] # pos0[n]
    BY <1>4, <2>1
  <2> QED
    BY <2>2, <2>3
<1>8. PICK pos : pos = Doubled(D, pos0)
  OBVIOUS
<1>9. S \subseteq D
  BY <1>6
<1>10. /\ pos \in [D -> Int]
       /\ \A m, n \in D : pos0[m] < pos0[n] => pos[m] < pos[n]
       /\ \E b : Splits(D, pos, S, b)
  BY <1>4, <1>7, <1>8, <1>9, PlaceBetween
<1>11. Holds(t, D, pos)
  BY <1>3, <1>10, Repositioned
<1>12. Rising(D, pos)
  <2> SUFFICES ASSUME NEW m \in D, NEW n \in D, pos[m] < pos[n] PROVE Weight[m] <= Weight[n]
    BY DEF Rising
  <2>1. pos[m] \in Int /\ pos[n] \in Int /\ pos0[m] \in Int /\ pos0[n] \in Int /\ m # n
    BY <1>4, <1>10
  <2>2. ~(pos0[n] < pos0[m]) /\ pos0[m] # pos0[n]
    BY <1>4, <1>10, <2>1
  <2>3. pos0[m] < pos0[n]
    BY <2>1, <2>2
  <2> QED
    BY <1>3, <2>3 DEF Rising
<1>13. PICK b : Splits(D, pos, S, b)
  BY <1>10
<1>14. b \in Int /\ \A m \in D : (m \in S => pos[m] < b) /\ (m \notin S => b < pos[m]) /\ pos[m] \in Int
  BY <1>10, <1>13 DEF Splits
<1>15. PICK c, c2 : c = ComparedItems(t, k) /\ c2 = [m \in D |-> b - pos[m]]
  BY Zenon
<1>16. Directs(D, pos, c2, b)
  <2>1. \A m \in D : c2[m] \in Int /\ c2[m] = b - pos[m]
    BY <1>14, <1>15
  <2>2. c2 = [m \in D |-> c2[m]]
    BY <1>15
  <2> QED
    BY <1>14, <2>1, <2>2 DEF Directs
<1>17. SameSigns(D, c, c2)
  <2> SUFFICES ASSUME NEW m \in D
               PROVE  (c[m] < 0 <=> c2[m] < 0) /\ (c[m] > 0 <=> c2[m] > 0) /\ (c[m] = 0 <=> c2[m] = 0)
    BY DEF SameSigns
  <2>1. c[m] = MyKeyCompare(k, m) /\ c2[m] = b - pos[m]
    BY <1>1, <1>2, <1>15 DEF ComparedItems
  <2>2. CASE m \in S
    <3>1. c[m] > 0
      <4>1. Weight[k] - Weight[m] > 0 /\ Weight[k] - Weight[m] # 0
        BY <1>5, <1>6, <2>2
      <4> QED
        BY <2>1, <4>1 DEF MyKeyCompare, KeyCompare
    <3>2. c[m] \in Int
      BY <1>5, <2>1 DEF MyKeyCompare, KeyCompare
    <3>3. c2[m] > 0 /\ c2[m] \in Int
      BY <1>14, <2>1, <2>2
    <3> QED
      BY <3>1, <3>2, <3>3
  <2>3. CASE m \notin S
    <3>1. c[m] < 0
      <4>1. Weight[k] - Weight[m] <= 0 /\ Weight[k] - Weight[m] \in Int
        BY <1>5, <1>6, <2>3
      <4>2. CASE Weight[k] - Weight[m] = 0
        BY <2>1, <4>2 DEF MyKeyCompare, KeyCompare
      <4>3. CASE Weight[k] - Weight[m] # 0
        BY <2>1, <4>1, <4>3 DEF MyKeyCompare, KeyCompare
      <4> QED
        BY <4>2, <4>3
    <3>2. c[m] \in Int
      BY <1>5, <2>1 DEF MyKeyCompare, KeyCompare
    <3>3. c2[m] < 0 /\ c2[m] \in Int
      BY <1>14, <2>1, <2>3
    <3> QED
      BY <3>1, <3>2, <3>3
  <2> QED
    BY <2>2, <2>3
<1>18. PICK x, replace : replace = FALSE /\ x = InsertInternal(t, c2, k, k, NULL, replace)
  BY Zenon
<1>19. InsertInternal(t, c, k, k, NULL, replace) = x
  <2>1. InsertInternal(t, c, k, k, NULL, replace) = InsertInternal(t, c2, k, k, NULL, replace)
    BY <1>11, <1>16, <1>17, SignsDecide
  <2> QED
    BY <1>18, <2>1
<1>20. u = x.tree
  <2>1. u = InsertInternal(t, c, k, k, NULL, FALSE).tree
    BY <1>15 DEF NewItem
  <2> QED
    BY Zenon, <1>18, <1>19, <2>1
<1>21. k # NULL /\ (k \in D => \E m \in D : pos[m] = b) /\ \A m \in D : pos[m] # b
  BY <1>2, <1>14, ItemAssumption
<1>22. GotIn(t, u, D, pos, k, b, k, NULL, x.freed)
  BY <1>11, <1>16, <1>18, <1>20, <1>21, InsertKeeps
<1>23. PICK E, pos2 : E = D \cup {k} /\ pos2 = With(D, pos, k, b)
  BY Zenon
<1>24. Holds(u, E, pos2) /\ Entered(t, u, D, k, k, NULL)
  BY <1>22, <1>23 DEF GotIn
<1>25. DOMAIN u.node = E
  BY <1>24, HoldsDomain
<1>26. \A n \in E : u.node[n].key = n
  BY <1>2, <1>23, <1>24 DEF Entered, SameData
<1>27. pos2[k] = b /\ \A m \in D : pos2[m] = pos[m]
  BY <1>2, <1>23 DEF With
<1>28. Rising(E, pos2)
  <2> SUFFICES ASSUME NEW m \in E, NEW n \in E, pos2[m] < pos2[n] PROVE Weight[m] <= Weight[n]
    BY DEF Rising
  <2>1. CASE m = k /\ n = k
    BY <1>5, <2>1
  <2>2. CASE m = k /\ n # k
    <3>1. n \in D /\ b < pos[n]
      BY <1>23, <1>27, <2>2
    <3>2. n \notin S
      BY <1>14, <3>1
    <3> QED
      BY <1>5, <1>6, <2>2, <3>1, <3>2
  <2>3. CASE m # k /\ n = k
    <3>1. m \in D /\ pos[m] < b
      BY <1>23, <1>27, <2>3
    <3>2. m \in S
      BY <1>14, <3>1
    <3> QED
      BY <1>5, <1>6, <2>3, <3>1, <3>2
  <2>4. CASE m # k /\ n # k
    BY <1>12, <1>23, <1>27, <2>4 DEF Rising
  <2> QED
    BY <2>1, <2>2, <2>3, <2>4
<1>29. E \subseteq Item
  BY <1>2, <1>23
<1> QED
  BY <1>1, <1>23, <1>24, <1>25, <1>26, <1>28, <1>29 DEF Joins, Ordered

\* The first item goes: it is no heavier than the others, nor is the next one
\* than what is left.
Lightest(D, n) == n \in D /\ \A m \in D : Weight[n] <= Weight[m]
Leaves(t, x, n) ==
    /\ Ordered(x.tree) /\ DOMAIN x.tree.node = DOMAIN t.node \ {n}
    /\ Lightest(DOMAIN t.node, n)
    /\ x.temp_node = NULL => DOMAIN t.node = {n}
    /\ x.temp_node # NULL => Lightest(DOMAIN t.node \ {n}, x.temp_node)

LEMMA AfterIsLightest ==
    ASSUME NEW D, NEW pos \in [D -> Int], \A m, n \in D : pos[m] = pos[n] => m = n,
           D \subseteq Item, Rising(D, pos), NULL \notin D, NEW a, NEW b, Successive(D, pos, a, b),
           NEW E, E = {m \in D : a # NULL => pos[a] < pos[m]}
    PROVE  (b = NULL => E = {}) /\ (b # NULL => Lightest(E, b))
<1>1. /\ b \in D \cup {NULL} /\ a \in D \cup {NULL} /\ Before(pos, a, b)
      /\ \A m \in D : ~((a # NULL => pos[a] < pos[m]) /\ (b # NULL => pos[m] < pos[b]))
  BY DEF Successive, Adjacent
<1>2. b = NULL => E = {}
  BY <1>1
<1>3. ASSUME b # NULL PROVE Lightest(E, b)
  <2>1. b \in E
    BY <1>1, <1>3 DEF Before
  <2>2. ASSUME NEW m \in E PROVE Weight[b] <= Weight[m]
    <3>1. m \in D /\ b \in D /\ ~(pos[m] < pos[b]) /\ pos[m] \in Int /\ pos[b] \in Int
      BY <1>1, <1>3
    <3>2. Weight[m] \in Int /\ Weight[b] \in Int
      BY <3>1, WeightAssumption
    <3>3. CASE m = b
      BY <3>2, <3>3
    <3>4. CASE m # b
      <4>1. pos[b] < pos[m]
        BY <3>1, <3>4
      <4> QED
        BY <3>1, <4>1 DEF Rising
    <3> QED
      BY <3>3, <3>4
  <2> QED
    BY <2>1, <2>2 DEF Lightest
<1> QED
  BY <1>2, <1>3

LEMMA FirstTaken ==
    ASSUME NEW t, Ordered(t), DOMAIN t.node # {}, NEW x, x = RemoveFirstNode(t)
    PROVE  \E n : Leaves(t, x, n)
<1>1. PICK D : D = DOMAIN t.node
  OBVIOUS
<1>2. D \subseteq Item /\ (\A n \in D : t.node[n].key = n) /\ D # {}
  BY <1>1 DEF Ordered
<1>3. PICK pos : Holds(t, D, pos) /\ Rising(D, pos)
  BY <1>1 DEF Ordered
<1>4. /\ IsFiniteSet(D) /\ NULL \notin D
      /\ pos \in [D -> Int] /\ \A m, n \in D : pos[m] = pos[n] => m = n
  BY <1>3, HoldsParts
<1>5. PICK n : EndGone(t, x, D, pos, n) /\ Successive(D, pos, NULL, n) /\ Successive(D, pos, n, x.temp_node)
  BY <1>2, <1>3, RemoveFirstKeeps
<1>6. PICK S, pos2, u, q : S = D \ {n} /\ pos2 = Kept(S, pos) /\ u = x.tree /\ q = x.temp_node
  BY Zenon
<1>7. n \in D /\ Holds(u, S, pos2) /\ Removed(t, u, D, n)
  BY <1>5, <1>6 DEF EndGone
<1>8. DOMAIN u.node = S /\ \A m \in S : u.node[m].key = m
  BY <1>2, <1>6, <1>7, HoldsDomain DEF Removed, SameData
<1>9. Rising(S, pos2)
  BY <1>3, <1>6 DEF Rising, Kept
<1>10. Ordered(u)
  BY <1>2, <1>6, <1>7, <1>8, <1>9 DEF Ordered
<1>11. PICK E : E = {m \in D : NULL # NULL => pos[NULL] < pos[m]}
  OBVIOUS
<1>12. E = D /\ n # NULL
  BY <1>4, <1>7, <1>11
<1>13. Lightest(D, n)
  BY <1>2, <1>3, <1>4, <1>5, <1>11, <1>12, AfterIsLightest
<1>14. PICK F : F = {m \in D : n # NULL => pos[n] < pos[m]}
  BY Zenon
<1>15. F = S
  <2>1. ASSUME NEW m \in S PROVE pos[n] < pos[m]
    <3>1. ~(pos[m] < pos[n]) /\ m \in D /\ m # n
      BY <1>5, <1>6, <1>12 DEF Successive, Adjacent
    <3>2. pos[m] # pos[n] /\ pos[m] \in Int /\ pos[n] \in Int
      BY <1>4, <1>7, <3>1
    <3> QED
      BY <3>1, <3>2
  <2>2. ~(pos[n] < pos[n])
    BY <1>4, <1>7
  <2> QED
    BY <1>6, <1>12, <1>14, <2>1, <2>2
<1>16. (q = NULL => F = {}) /\ (q # NULL => Lightest(F, q))
  BY <1>2, <1>3, <1>4, <1>5, <1>6, <1>14, AfterIsLightest
<1>17. q = NULL => D = {n}
  BY <1>6, <1>7, <1>15, <1>16
<1>18. q # NULL => Lightest(S, q)
  BY <1>15, <1>16
<1>19. DOMAIN t.node = D /\ DOMAIN t.node \ {n} = S /\ x.tree = u /\ x.temp_node = q
  BY <1>1, <1>6
<1>20. Ordered(x.tree) /\ DOMAIN x.tree.node = DOMAIN t.node \ {n}
  BY <1>8, <1>10, <1>19
<1>21. Lightest(DOMAIN t.node, n) /\ (x.temp_node = NULL => DOMAIN t.node = {n})
  BY <1>13, <1>17, <1>19
<1>22. x.temp_node # NULL => Lightest(DOMAIN t.node \ {n}, x.temp_node)
  BY <1>18, <1>19
<1> QED
  BY <1>20, <1>21, <1>22, Zenon DEF Leaves

LEMMA NewOrdered == Ordered(NewTree) /\ DOMAIN NewTree.node = {}
<1>1. PICK t, f : t = NewTree /\ f = t.node
  OBVIOUS
<1>2. DOMAIN f = {} /\ t = [root |-> NULL, node |-> f, nnodes |-> 0] /\ f = [m \in DOMAIN f |-> f[m]]
  BY <1>1 DEF NewTree
<1>3. PICK pos, D : D = {} /\ pos = [m \in D |-> 0]
  BY Zenon
<1>4. Holds(t, D, pos)
  BY Zenon, <1>2, <1>3, EmptyHolds
<1>5. DOMAIN t.node = D /\ Rising(D, pos)
  BY <1>1, <1>2, <1>3 DEF Rising
<1> QED
  BY <1>1, <1>3, <1>4, <1>5 DEF Ordered

\* A walk back from the last node meets every node once, in falling order.
Falling(w, D, pos) ==
    /\ w \in Seq(D) /\ ToSet(w) = D /\ Len(w) = Cardinality(D)
    /\ \A i, j \in 1 .. Len(w) : i < j => pos[w[j]] < pos[w[i]]

LEMMA OnceCounts ==
    ASSUME NEW D, NEW w, OnceEach(w, D), ToSet(w) = D
    PROVE  Len(w) = Cardinality(D)
<1>1. w \in [1 .. Len(w) -> D] /\ Len(w) \in Nat /\ \A i, j \in 1 .. Len(w) : w[i] = w[j] => i = j
  BY SMTT(40) DEF OnceEach
<1>2. PICK k \in Nat : k = Len(w)
  BY Zenon, <1>1
<1>3. \A m \in D : \E i \in 1 .. k : w[i] = m
  BY <1>1, <1>2 DEF ToSet
<1>4. w \in Bijection(1 .. k, D)
  BY <1>1, <1>2, <1>3 DEF Bijection, Injection, Surjection, IsInjective
<1>5. ExistsBijection(1 .. k, D)
  BY <1>4 DEF ExistsBijection
<1>6. IsFiniteSet(1 .. k) /\ Cardinality(1 .. k) = k
  <2>1. 1 \in Int /\ k \in Int
    OBVIOUS
  <2>2. IsFiniteSet(1 .. k) /\ Cardinality(1 .. k) = IF 1 > k THEN 0 ELSE k - 1 + 1
    BY <2>1, FS_Interval
  <2> QED
    BY <2>2
<1> QED
  BY <1>2, <1>5, <1>6, FS_Bijection

LEMMA ReverseFalls ==
    ASSUME NEW t, NEW D, NEW pos, Holds(t, D, pos), NEW w, w = ReverseForeach(t)
    PROVE  Falling(w, D, pos)
<1>0. PICK lo, hi, up, h : Sound(t, D, pos, lo, hi, up, h)
  BY DEF Holds
<1>1. /\ DOMAIN t.node = D /\ NULL \notin D /\ IsFiniteSet(D)
      /\ \A m \in D : pos[m] \in Int
      /\ \A m, n \in D : pos[m] = pos[n] => m = n
  BY HoldsParts
<1>2. PICK n : n = LastNode(t)
  OBVIOUS
<1>3. Successive(D, pos, n, NULL) /\ (D # {} => n \in D)
  BY <1>0, <1>2, LastSuccessive
<1>4. CASE D = {}
  <2>1. n = NULL
    BY <1>3, <1>4 DEF Successive
  <2>2. w = <<>>
    BY <1>2, <2>1 DEF ReverseForeach, NodesBackFrom
  <2>3. Len(w) = 0 /\ w \in Seq(D) /\ ToSet(w) = {}
    BY <2>2 DEF ToSet
  <2>4. Cardinality(D) = 0
    BY <1>4, FS_EmptySet
  <2> QED
    BY <1>4, <2>3, <2>4 DEF Falling
<1>5. CASE D # {}
  <2>1. PICK step : step = [m \in D |-> PreviousNode(t, m)]
    BY Zenon
  <2>2. w = Follow(step, n)
    BY <1>1, <1>2, <1>3, <1>5, <2>1 DEF ReverseForeach, NodesBackFrom
  <2>3. \A m \in D : Successive(D, pos, step[m], m)
    BY <1>0, <2>1, PreviousSuccessive
  <2>4. PICK rank : rank = [m \in D |-> Cardinality(Behind(D, pos, m))]
    BY Zenon
  <2>5. \A m \in D : /\ IsFiniteSet(Behind(D, pos, m)) /\ rank[m] \in Nat
                     /\ rank[m] = Cardinality(Behind(D, pos, m))
    <3> SUFFICES ASSUME NEW m \in D
                 PROVE  /\ IsFiniteSet(Behind(D, pos, m)) /\ rank[m] \in Nat
                        /\ rank[m] = Cardinality(Behind(D, pos, m))
      OBVIOUS
    <3>1. Behind(D, pos, m) \in SUBSET D
      BY DEF Behind
    <3>2. IsFiniteSet(Behind(D, pos, m))
      BY <1>1, <3>1, FS_Subset
    <3> QED
      BY <2>4, <3>2, FS_CardinalityType
  <2>6. rank \in [D -> Nat]
    BY <2>4, <2>5
  <2>7. PICK max \in Nat : rank \in [D -> 0 .. max]
    BY <1>1, <2>6, RankBounded
  <2>8. ASSUME NEW a \in D, NEW b \in D, pos[a] < pos[b] PROVE rank[a] < rank[b]
    <3>1. PICK A, B : A = Behind(D, pos, a) /\ B = Behind(D, pos, b)
      OBVIOUS
    <3>2. A \in SUBSET B /\ a \in B /\ a \notin A
      BY <1>1, <2>8, <3>1 DEF Behind
    <3>3. IsFiniteSet(B) /\ rank[a] \in Nat /\ rank[b] \in Nat
          /\ rank[a] = Cardinality(A) /\ rank[b] = Cardinality(B)
      BY <2>5, <3>1
    <3>4. Cardinality(A) <= Cardinality(B) /\ Cardinality(A) # Cardinality(B)
      BY <3>2, <3>3, FS_Subset
    <3> QED
      BY <3>3, <3>4
  <2>9. ASSUME NEW m \in D, step[m] # NULL PROVE step[m] \in D /\ pos[step[m]] < pos[m]
    <3>1. PICK s : s = step[m]
      OBVIOUS
    <3>2. s \in D /\ pos[s] < pos[m]
      BY <1>1, <2>3, <2>9, <3>1 DEF Successive, Before
    <3> QED
      BY <3>1, <3>2
  <2>10. \A m \in D : step[m] # NULL => rank[step[m]] < rank[m]
    BY <2>8, <2>9
  <2>11. step \in [D -> D \cup {NULL}]
    BY <2>1, <2>3 DEF Successive
  <2>12. Ranked(step, D, rank, max)
    BY <1>1, <2>7, <2>10, <2>11 DEF Ranked
  <2>13. Trail(step, D, w, n)
    BY <1>3, <1>5, <2>2, <2>12, FollowTrails
  <2>14. /\ w \in Seq(D) /\ Len(w) \in Nat /\ Len(w) >= 1 /\ w[1] = n
         /\ \A j \in 1 .. Len(w) - 1 : step[w[j]] = w[j + 1]
         /\ step[w[Len(w)]] = NULL
    BY <2>13 DEF Trail
  <2>15. OnceEach(w, D) /\ \A i, j \in 1 .. Len(w) : i < j => rank[w[j]] < rank[w[i]]
    BY <2>12, <2>13, TrailFalls
  <2>16. ASSUME NEW i \in 1 .. Len(w), NEW j \in 1 .. Len(w), i < j PROVE pos[w[j]] < pos[w[i]]
    <3>1. PICK a, b : a = w[i] /\ b = w[j]
      OBVIOUS
    <3>2. a \in D /\ b \in D /\ rank[b] < rank[a]
      BY <2>14, <2>15, <2>16, <3>1
    <3>3. rank[a] \in Nat /\ rank[b] \in Nat /\ pos[a] \in Int /\ pos[b] \in Int
      BY <1>1, <2>5, <3>2
    <3>4. a # b /\ ~(pos[a] < pos[b])
      <4>1. pos[a] < pos[b] => rank[a] < rank[b]
        BY <2>8, <3>2
      <4> QED
        BY <3>2, <3>3, <4>1
    <3>5. pos[a] # pos[b]
      BY <1>1, <3>2, <3>4
    <3> QED
      BY <3>1, <3>3, <3>4, <3>5
  <2>17. ASSUME NEW m \in D, \A j \in 1 .. Len(w) : w[j] # m PROVE FALSE
    <3> DEFINE S == {k \in Nat : k + 1 <= Len(w) => pos[m] < pos[w[k + 1]]}
    <3>1. 0 \in S
      <4>1. ~(pos[n] < pos[m]) /\ n # m
        BY <1>1, <1>3, <2>14, <2>17 DEF Successive, Adjacent
      <4> QED
        BY <1>1, <1>3, <1>5, <2>14, <4>1
    <3>2. ASSUME NEW k \in Nat, k \in S PROVE k + 1 \in S
      <4> SUFFICES ASSUME (k + 1) + 1 <= Len(w) PROVE pos[m] < pos[w[(k + 1) + 1]]
        OBVIOUS
      <4>1. PICK i, a, b : i = k + 1 /\ a = w[i] /\ b = w[i + 1]
        OBVIOUS
      <4>2. i \in 1 .. Len(w) - 1 /\ a \in D /\ b \in D /\ pos[m] < pos[a] /\ b # m /\ b = step[a]
        BY <2>14, <2>17, <3>2, <4>1
      <4>3. ~(pos[b] < pos[m])
        BY <1>1, <2>3, <4>2 DEF Successive, Adjacent
      <4> QED
        BY <1>1, <4>1, <4>2, <4>3
    <3>3. \A k \in Nat : k \in S
      <4> HIDE DEF S
      <4> QED
        BY <3>1, <3>2, Induction
    <3>4. PICK last : last = w[Len(w)]
      OBVIOUS
    <3>5. last \in D /\ step[last] = NULL /\ pos[m] < pos[last]
      <4>1. Len(w) - 1 \in Nat /\ (Len(w) - 1) + 1 = Len(w)
        BY <2>14
      <4>2. pos[m] < pos[w[Len(w)]]
        <5>1. PICK d : d = Len(w) - 1
          OBVIOUS
        <5>2. d \in Nat /\ d + 1 = Len(w)
          BY Zenon, <4>1, <5>1
        <5>3. d + 1 <= Len(w)
          BY <5>2
        <5>4. d + 1 <= Len(w) => pos[m] < pos[w[d + 1]]
          BY <3>3, <5>2
        <5> QED
          BY Zenon, <5>2, <5>3, <5>4
      <4>3. Len(w) \in 1 .. Len(w)
        BY <2>14
      <4>4. w[Len(w)] \in D
        BY <2>14, <4>3
      <4>5. step[w[Len(w)]] = NULL
        BY <2>13 DEF Trail
      <4> QED
        BY <3>4, <4>2, <4>4, <4>5
    <3> QED
      BY <1>1, <2>3, <3>5 DEF Successive, Adjacent
  <2>18. \A m \in D : \E j \in 1 .. Len(w) : w[j] = m
    BY <2>17
  <2>19. ToSet(w) = D
    BY <2>14, <2>18 DEF ToSet
  <2>20. Len(w) = Cardinality(D)
    BY <2>15, <2>19, OnceCounts
  <2> QED
    BY <2>14, <2>16, <2>19, <2>20 DEF Falling
<1> QED
  BY <1>4, <1>5

\* What holds between the calls of a container: the tree is in order and has
\* only what was offered, all of it unless more was offered than there is room
\* for; min_key is kept, and at most one item is lighter.
Lighter(D, k) == {x \in D : Weight[x] < Weight[k]}
Room(D, n, all, max) ==
    /\ max \in Nat /\ n = Cardinality(D)
    /\ IsFiniteSet(all) /\ all \subseteq Item /\ D \subseteq all
    /\ D = all \/ Cardinality(all) > max
NearLeast(D, k) == k \in D /\ Cardinality(Lighter(D, k)) <= 1
Alive(D, n, max, k) ==
    n <= max /\ IF k = NULL THEN D = {} ELSE NearLeast(D, k)

TopNInv ==
    LET D == DOMAIN topn_tree.node IN
    /\ Ordered(topn_tree)
    /\ Room(D, topn_tree.nnodes, offered, topn)
    /\ IF nullRead THEN topn < 2 ELSE Alive(D, topn_tree.nnodes, topn, min_key)
    /\ nullRead \in BOOLEAN

LEMMA OrderedSize ==
    ASSUME NEW t, Ordered(t), NEW D, D = DOMAIN t.node
    PROVE  IsFiniteSet(D) /\ t.nnodes = Cardinality(D) /\ t.nnodes \in Nat /\ NULL \notin D /\ D \subseteq Item
<1>1. PICK pos : Holds(t, D, pos)
  BY DEF Ordered
<1>2. IsFiniteSet(D) /\ NULL \notin D /\ t.nnodes = Cardinality(D)
  BY <1>1, HoldsParts
<1> QED
  BY <1>2, FS_CardinalityType DEF Ordered

\* One item more, in the container or only offered.
LEMMA MoreOffered ==
    ASSUME NEW D, NEW n, NEW all, NEW max, Room(D, n, all, max), n \in Nat,
           NEW k \in Item, k \notin all, NEW more, more = all \cup {k}
    PROVE  /\ IsFiniteSet(more) /\ more \subseteq Item /\ Cardinality(more) \in Nat
           /\ Cardinality(more) = Cardinality(all) + 1 /\ Cardinality(all) \in Nat
           /\ n <= Cardinality(all)
<1>1. IsFiniteSet(all) /\ all \subseteq Item /\ D \in SUBSET all /\ n = Cardinality(D)
  BY DEF Room
<1>2. Cardinality(all) \in Nat /\ n <= Cardinality(all)
  BY <1>1, FS_Subset, FS_CardinalityType
<1>3. IsFiniteSet(more) /\ Cardinality(more) = Cardinality(all) + 1
  BY <1>1, FS_AddElement
<1> QED
  BY <1>1, <1>2, <1>3

\* When the container is full, whatever is left out, more was offered than
\* there is room for.
LEMMA FullRoom ==
    ASSUME NEW D, NEW n, NEW all, NEW max, Room(D, n, all, max), n \in Nat, n >= max,
           NEW k \in Item, k \notin all, NEW more, more = all \cup {k},
           NEW E, IsFiniteSet(E), E \subseteq more, NEW m, m = Cardinality(E)
    PROVE  Room(E, m, more, max)
<1>1. max \in Nat
  BY DEF Room
<1>2. /\ IsFiniteSet(more) /\ more \subseteq Item /\ Cardinality(more) \in Nat
      /\ Cardinality(more) = Cardinality(all) + 1 /\ Cardinality(all) \in Nat
      /\ n <= Cardinality(all)
  BY MoreOffered
<1>3. Cardinality(more) > max
  BY <1>1, <1>2
<1> QED
  BY <1>1, <1>2, <1>3 DEF Room

LEMMA FewLighter ==
    ASSUME NEW D, IsFiniteSet(D), NEW k, NEW E, NEW j, Lighter(E, j) \subseteq Lighter(D, k),
           Cardinality(Lighter(D, k)) <= 1
    PROVE  Cardinality(Lighter(E, j)) <= 1
<1>1. PICK A, B : A = Lighter(D, k) /\ B = Lighter(E, j)
  OBVIOUS
<1>2. A \in SUBSET D /\ B \in SUBSET A
  BY <1>1 DEF Lighter
<1>3. IsFiniteSet(A)
  BY <1>2, FS_Subset
<1>4. IsFiniteSet(B) /\ Cardinality(B) <= Cardinality(A)
  BY <1>2, <1>3, FS_Subset
<1>5. Cardinality(A) \in Nat /\ Cardinality(B) \in Nat
  BY <1>3, <1>4, FS_CardinalityType
<1> QED
  BY <1>1, <1>4, <1>5

LEMMA BelowCapacityKeeps ==
    ASSUME TopNInv, ~nullRead, NEW k \in Item, k \notin offered, offered' = offered \cup {k},
           InsertBelowCapacity(k), topn' = topn
    PROVE  TopNInv' /\ DOMAIN topn_tree'.node = DOMAIN topn_tree.node \cup {k}
<1>1. PICK t, u, D, E : t = topn_tree /\ u = topn_tree' /\ D = DOMAIN t.node /\ E = DOMAIN u.node
  OBVIOUS
<1>2. Ordered(t) /\ Room(D, t.nnodes, offered, topn) /\ Alive(D, t.nnodes, topn, min_key)
  BY <1>1 DEF TopNInv
<1>3. u = NewItem(t, k) /\ t.nnodes < topn /\ nullRead' = FALSE
      /\ min_key' = IF min_key = NULL THEN k
                    ELSE IF KeyCompare(min_key, k) > 0 THEN k ELSE min_key
  BY <1>1 DEF InsertBelowCapacity, Full, TopNInv
<1>4. D \subseteq offered /\ k \notin D
  BY <1>2 DEF Room
<1>5. Ordered(u) /\ E = D \cup {k}
  BY <1>1, <1>2, <1>3, <1>4, ItemPut DEF Joins
<1>6. IsFiniteSet(D) /\ t.nnodes = Cardinality(D) /\ t.nnodes \in Nat /\ NULL \notin D /\ D \subseteq Item
  BY <1>1, <1>2, OrderedSize
<1>7. IsFiniteSet(E) /\ u.nnodes = Cardinality(E) /\ u.nnodes \in Nat /\ NULL \notin E /\ E \subseteq Item
  BY Zenon, <1>1, <1>5, OrderedSize
<1>8. u.nnodes = t.nnodes + 1
  BY <1>4, <1>5, <1>6, <1>7, FS_AddElement
<1>9. topn \in Nat
  BY <1>2 DEF Room
<1>10. Room(E, u.nnodes, offered', topn)
  <2>1. /\ IsFiniteSet(offered') /\ offered' \subseteq Item /\ Cardinality(offered') \in Nat
        /\ Cardinality(offered') = Cardinality(offered) + 1 /\ Cardinality(offered) \in Nat
    BY <1>2, <1>6, MoreOffered
  <2>2. E \subseteq offered'
    BY <1>4, <1>5
  <2>3. E = offered' \/ Cardinality(offered') > topn
    <3>1. D = offered \/ Cardinality(offered) > topn
      BY <1>2 DEF Room
    <3> QED
      BY <1>5, <1>9, <2>1, <3>1
  <2> QED
    BY <1>7, <1>9, <2>1, <2>2, <2>3 DEF Room
<1>11. NearLeast(E, min_key')
  <2>1. CASE min_key = NULL
    <3>1. D = {}
      BY <1>2, <2>1 DEF Alive
    <3>2. min_key' = k /\ E = {k} /\ Weight[k] \in Int
      BY <1>3, <1>5, <2>1, <3>1, WeightAssumption
    <3>3. Lighter(E, k) = {}
      BY <3>2 DEF Lighter
    <3>4. Cardinality(Lighter(E, k)) <= 1
      BY <3>3, FS_EmptySet
    <3> QED
      BY <3>2, <3>4 DEF NearLeast
  <2>2. CASE min_key # NULL
    <3>1. min_key \in D /\ Cardinality(Lighter(D, min_key)) <= 1
      BY <1>2, <2>2 DEF Alive, NearLeast
    <3>2. Weight[k] \in Int /\ \A m \in D : Weight[m] \in Int
      BY <1>6, WeightAssumption
    <3>3. CASE KeyCompare(min_key, k) > 0
      <4>1. min_key' = k /\ Weight[k] < Weight[min_key]
        BY <1>3, <2>2, <3>1, <3>2, <3>3 DEF KeyCompare
      <4>2. Lighter(E, k) \subseteq Lighter(D, min_key)
        BY <1>5, <3>1, <3>2, <4>1 DEF Lighter
      <4>3. Cardinality(Lighter(E, k)) <= 1
        BY <1>6, <3>1, <4>2, FewLighter
      <4> QED
        BY <1>5, <4>1, <4>3 DEF NearLeast
    <3>4. CASE ~(KeyCompare(min_key, k) > 0)
      <4>1. min_key' = min_key /\ ~(Weight[k] < Weight[min_key])
        BY <1>3, <2>2, <3>1, <3>2, <3>4 DEF KeyCompare
      <4>2. Lighter(E, min_key) \subseteq Lighter(D, min_key)
        BY <1>5, <4>1 DEF Lighter
      <4>3. Cardinality(Lighter(E, min_key)) <= 1
        BY <1>6, <3>1, <4>2, FewLighter
      <4> QED
        BY <1>5, <3>1, <4>1, <4>3 DEF NearLeast
    <3> QED
      BY <3>3, <3>4
  <2> QED
    BY <2>1, <2>2
<1>12. min_key' # NULL
  BY <1>7, <1>11 DEF NearLeast
<1>13. u.nnodes <= topn
  BY <1>3, <1>6, <1>8, <1>9
<1>14. Alive(E, u.nnodes, topn, min_key')
  BY <1>11, <1>12, <1>13 DEF Alive
<1>15. TopNInv'
  BY Zenon, <1>1, <1>3, <1>5, <1>10, <1>14 DEF TopNInv
<1> QED
  BY <1>1, <1>5, <1>15

LEMMA NotTakenKeeps ==
    ASSUME TopNInv, ~nullRead, NEW k \in Item, k \notin offered, offered' = offered \cup {k},
           CompareWithNull \/ RejectSmall(k), topn' = topn
    PROVE  TopNInv' /\ topn_tree' = topn_tree
<1>1. PICK t, D : t = topn_tree /\ D = DOMAIN t.node
  OBVIOUS
<1>2. Ordered(t) /\ Room(D, t.nnodes, offered, topn) /\ Alive(D, t.nnodes, topn, min_key)
  BY <1>1 DEF TopNInv
<1>3. IsFiniteSet(D) /\ t.nnodes = Cardinality(D) /\ t.nnodes \in Nat
  BY <1>1, <1>2, OrderedSize
<1>4. topn \in Nat /\ D \subseteq offered
  BY <1>2 DEF Room
<1>5. topn_tree' = t /\ min_key' = min_key /\ t.nnodes >= topn
  <2>1. ~(t.nnodes < topn)
    BY <1>1 DEF CompareWithNull, RejectSmall, Full
  <2> QED
    BY <1>1, <1>3, <1>4, <2>1 DEF CompareWithNull, RejectSmall
<1>6. Room(D, t.nnodes, offered', topn)
  <2>1. D \subseteq offered'
    BY <1>4
  <2> QED
    BY <1>2, <1>3, <1>5, <2>1, FullRoom
<1>7. CASE CompareWithNull
  <2>1. nullRead' = TRUE /\ min_key = NULL
    BY <1>7 DEF CompareWithNull
  <2>2. D = {}
    BY <1>2, <2>1 DEF Alive
  <2>3. t.nnodes = 0
    BY <1>3, <2>2, FS_EmptySet
  <2>4. topn < 2
    BY <1>4, <1>5, <2>3
  <2> QED
    BY <1>1, <1>2, <1>5, <1>6, <2>1, <2>4 DEF TopNInv
<1>8. CASE RejectSmall(k)
  <2>1. nullRead' = FALSE
    BY <1>8 DEF RejectSmall, TopNInv
  <2> QED
    BY Zenon, <1>1, <1>2, <1>5, <1>6, <2>1 DEF TopNInv
<1> QED
  BY <1>7, <1>8

LEMMA EvictKeeps ==
    ASSUME TopNInv, ~nullRead, NEW k \in Item, k \notin offered, offered' = offered \cup {k},
           EvictFirst(k), topn' = topn
    PROVE  /\ TopNInv'
           /\ \E n : Lightest(DOMAIN topn_tree.node, n)
                     /\ DOMAIN topn_tree.node \ {n} \subseteq DOMAIN topn_tree'.node
<1>1. PICK t, u, D, E : t = topn_tree /\ u = topn_tree' /\ D = DOMAIN t.node /\ E = DOMAIN u.node
  OBVIOUS
<1>2. Ordered(t) /\ Room(D, t.nnodes, offered, topn) /\ Alive(D, t.nnodes, topn, min_key)
  BY <1>1 DEF TopNInv
<1>3. IsFiniteSet(D) /\ t.nnodes = Cardinality(D) /\ t.nnodes \in Nat /\ NULL \notin D /\ D \subseteq Item
  BY <1>1, <1>2, OrderedSize
<1>4. topn \in Nat /\ D \subseteq offered /\ k \notin D
  BY <1>2 DEF Room
<1>5. t.nnodes >= topn /\ t.nnodes <= topn /\ min_key # NULL /\ D # {}
  <2>1. ~(t.nnodes < topn) /\ min_key # NULL
    BY <1>1 DEF EvictFirst, Full
  <2>2. t.nnodes <= topn /\ min_key \in D
    BY <1>2, <2>1 DEF Alive, NearLeast
  <2> QED
    BY <1>3, <1>4, <2>1, <2>2
<1>6. PICK x : x = RemoveFirstNode(t)
  OBVIOUS
<1>7. IF x.temp_node = NULL
      THEN nullRead' = TRUE /\ u = x.tree /\ min_key' = min_key
      ELSE /\ min_key' = x.tree.node[x.temp_node].key
           /\ u = NewItem(x.tree, k)
           /\ nullRead' = FALSE
  BY <1>1, <1>6 DEF EvictFirst, TopNInv
<1>8. PICK n : Leaves(t, x, n)
  BY <1>1, <1>2, <1>5, <1>6, FirstTaken
<1>9. PICK v, q, S : v = x.tree /\ q = x.temp_node /\ S = D \ {n}
  BY Zenon
<1>10. /\ Ordered(v) /\ DOMAIN v.node = S /\ Lightest(D, n)
       /\ q = NULL => D = {n}
       /\ q # NULL => Lightest(S, q)
  BY <1>1, <1>8, <1>9 DEF Leaves
<1>11. IsFiniteSet(S) /\ v.nnodes = Cardinality(S) /\ v.nnodes \in Nat /\ S \subseteq Item /\ NULL \notin S
  BY <1>10, OrderedSize
<1>12. n \in D
  BY <1>10 DEF Lightest
<1>13. v.nnodes = t.nnodes - 1
  BY <1>3, <1>9, <1>11, <1>12, FS_RemoveElement
<1>14. CASE q = NULL
  <2>1. nullRead' = TRUE /\ u = v /\ E = S
    BY <1>1, <1>7, <1>9, <1>10, <1>14
  <2>2. t.nnodes = 1
    BY <1>3, <1>10, <1>14, FS_Singleton
  <2>3. topn < 2
    BY <1>4, <1>5, <2>2
  <2>4. S \subseteq offered'
    BY <1>4, <1>9
  <2>5. Room(E, u.nnodes, offered', topn)
    BY <1>2, <1>3, <1>5, <1>11, <2>1, <2>4, FullRoom
  <2>6. TopNInv'
    BY <1>1, <1>10, <2>1, <2>3, <2>5 DEF TopNInv
  <2> QED
    BY <1>1, <1>9, <1>10, <2>1, <2>6
<1>15. CASE q # NULL
  <2>1. nullRead' = FALSE /\ u = NewItem(v, k) /\ min_key' = v.node[q].key
    BY <1>7, <1>9, <1>15
  <2>2. Lightest(S, q) /\ q \in S
    BY <1>10, <1>15 DEF Lightest
  <2>3. min_key' = q
    BY <1>10, <2>1, <2>2 DEF Ordered
  <2>4. k \notin S
    BY <1>4, <1>9
  <2>5. Ordered(u) /\ E = S \cup {k}
    BY <1>1, <1>10, <2>1, <2>4, ItemPut DEF Joins
  <2>6. IsFiniteSet(E) /\ u.nnodes = Cardinality(E) /\ u.nnodes \in Nat /\ NULL \notin E
    BY Zenon, <1>1, <2>5, OrderedSize
  <2>7. u.nnodes = v.nnodes + 1
    BY <1>11, <2>4, <2>5, <2>6, FS_AddElement
  <2>8. u.nnodes <= topn
    BY <1>3, <1>4, <1>5, <1>11, <1>13, <2>6, <2>7
  <2>9. E \subseteq offered'
    BY <1>4, <1>9, <2>5
  <2>10. Room(E, u.nnodes, offered', topn)
    BY <1>2, <1>3, <1>5, <2>6, <2>9, FullRoom
  <2>11. NearLeast(E, q)
    <3>1. Lighter(E, q) \in SUBSET {k}
      <4>1. ASSUME NEW m \in S, Weight[m] < Weight[q] PROVE FALSE
        <5>1. Weight[q] <= Weight[m] /\ Weight[m] \in Int /\ Weight[q] \in Int
          BY <1>11, <2>2, WeightAssumption DEF Lightest
        <5> QED
          BY <4>1, <5>1
      <4> QED
        BY <2>5, <4>1 DEF Lighter
    <3>2. IsFiniteSet({k}) /\ Cardinality({k}) = 1
      BY Zenon, FS_Singleton
    <3>3. Cardinality(Lighter(E, q)) <= Cardinality({k})
      BY <3>1, <3>2, FS_Subset
    <3>4. Cardinality(Lighter(E, q)) <= 1
      BY <3>2, <3>3
    <3> QED
      BY <2>2, <2>5, <3>4 DEF NearLeast
  <2>12. Alive(E, u.nnodes, topn, min_key')
    BY <1>15, <2>3, <2>8, <2>11 DEF Alive
  <2>13. TopNInv'
    BY Zenon, <1>1, <2>1, <2>5, <2>10, <2>12 DEF TopNInv
  <2>14. S \subseteq E
    BY <2>5
  <2> QED
    BY <1>1, <1>9, <1>10, <2>13, <2>14
<1> QED
  BY <1>14, <1>15

LEMMA FreeKeeps ==
    ASSUME TopNInv, TopNFree
    PROVE  TopNInv'
<1>1. /\ topn_tree' = NewTree /\ topn' \in Nat /\ min_key' = NULL /\ offered' = {} /\ nullRead' = FALSE
  BY CapacityAssumption DEF TopNFree, TopNInv
<1>2. PICK u, D : u = topn_tree' /\ D = DOMAIN u.node
  OBVIOUS
<1>3. Ordered(u) /\ D = {}
  BY <1>1, <1>2, NewOrdered
<1>4. u.nnodes = Cardinality(D) /\ Cardinality({}) = 0 /\ IsFiniteSet({})
  BY Zenon, <1>2, <1>3, OrderedSize, FS_EmptySet
<1>5. Room(D, u.nnodes, offered', topn') /\ Alive(D, u.nnodes, topn', min_key')
  BY <1>1, <1>3, <1>4 DEF Room, Alive
<1> QED
  BY Zenon, <1>1, <1>2, <1>3, <1>5 DEF TopNInv

LEMMA TopNInitial == TopNInit => TopNInv
<1> SUFFICES ASSUME TopNInit PROVE TopNInv
  OBVIOUS
<1>1. /\ topn_tree = NewTree /\ topn \in Nat /\ min_key = NULL /\ offered = {} /\ nullRead = FALSE
  BY CapacityAssumption DEF TopNInit
<1>2. PICK u, D : u = topn_tree /\ D = DOMAIN u.node
  OBVIOUS
<1>3. Ordered(u) /\ D = {}
  BY <1>1, <1>2, NewOrdered
<1>4. u.nnodes = Cardinality(D) /\ Cardinality({}) = 0 /\ IsFiniteSet({})
  BY Zenon, <1>2, <1>3, OrderedSize, FS_EmptySet
<1>5. Room(D, u.nnodes, offered, topn) /\ Alive(D, u.nnodes, topn, min_key)
  BY <1>1, <1>3, <1>4 DEF Room, Alive
<1> QED
  BY Zenon, <1>1, <1>2, <1>3, <1>5 DEF TopNInv

LEMMA InsertKeepsInv ==
    ASSUME TopNInv, NEW k \in Item, TopNInsert(k)
    PROVE  TopNInv'
<1>1. ~nullRead /\ k \notin offered /\ offered' = offered \cup {k} /\ topn' = topn
  BY DEF TopNInsert
<1>2. InsertBelowCapacity(k) \/ CompareWithNull \/ RejectSmall(k) \/ EvictFirst(k)
  BY DEF TopNInsert
<1> QED
  BY <1>1, <1>2, BelowCapacityKeeps, NotTakenKeeps, EvictKeeps

\* The containers' invariant: for any items and weights, in whatever order they
\* come, the tree is in the order of weights, has what was offered as long as
\* there is room, and min_key is kept and at most one item is lighter.
THEOREM TopNInvariant == TopNSpec => []TopNInv
<1>1. TopNInv /\ [TopNNext]_topnVars => TopNInv'
  <2>1. CASE TopNNext
    BY <2>1, InsertKeepsInv, FreeKeeps DEF TopNNext
  <2>2. CASE UNCHANGED topnVars
    BY <2>2 DEF topnVars, TopNInv
  <2> QED
    BY <2>1, <2>2
<1> QED
  BY <1>1, TopNInitial, PTL DEF TopNSpec

LEMMA KeptAre == TopNInv => KeptItems = DOMAIN topn_tree.node
BY DEF TopNInv, Ordered, KeptItems

\* A container as large as what is put into it loses nothing, ties included:
\* this is how sort_list sizes it.
THEOREM NothingIsDropped == TopNSpec => []NothingDropped
<1>1. TopNInv => NothingDropped
  <2> SUFFICES ASSUME TopNInv, Cardinality(offered) <= topn PROVE KeptItems = offered
    BY DEF NothingDropped
  <2>1. topn \in Nat /\ IsFiniteSet(offered)
        /\ (DOMAIN topn_tree.node = offered \/ Cardinality(offered) > topn)
    BY DEF TopNInv, Room
  <2>2. Cardinality(offered) \in Nat
    BY <2>1, FS_CardinalityType
  <2> QED
    BY <2>1, <2>2, KeptAre
<1> QED
  BY <1>1, TopNInvariant, PTL

\* Only containers of capacity 0 and 1 ever read a null pointer.
THEOREM CrashesOnlyTiny == TopNSpec => []CrashOnlyTiny
<1>1. TopNInv => CrashOnlyTiny
  BY DEF TopNInv, CrashOnlyTiny
<1> QED
  BY <1>1, TopNInvariant, PTL

\* min_key never points to a key that has left the tree, and is null exactly
\* when the container is empty.
THEOREM MinKeyStaysAlive == TopNSpec => []MinKeyAlive
<1>1. TopNInv => MinKeyAlive
  <2> SUFFICES ASSUME TopNInv, ~nullRead
               PROVE  IF KeptItems = {} THEN min_key = NULL ELSE min_key \in KeptItems
    BY DEF MinKeyAlive
  <2>1. Alive(KeptItems, topn_tree.nnodes, topn, min_key)
    BY KeptAre DEF TopNInv
  <2> QED
    BY <2>1 DEF Alive, NearLeast
<1> QED
  BY <1>1, TopNInvariant, PTL

\* However often an item was evicted, at most one kept item is lighter than
\* min_key.
THEOREM MinKeyStaysNear == TopNSpec => []MinKeyNearMinimum
<1>1. TopNInv => MinKeyNearMinimum
  <2> SUFFICES ASSUME TopNInv, ~nullRead, min_key # NULL
               PROVE  Cardinality({x \in KeptItems : Weight[x] < Weight[min_key]}) <= 1
    BY DEF MinKeyNearMinimum
  <2>1. Alive(KeptItems, topn_tree.nnodes, topn, min_key)
    BY KeptAre DEF TopNInv
  <2> QED
    BY <2>1 DEF Alive, NearLeast, Lighter
<1> QED
  BY <1>1, TopNInvariant, PTL

DropsLightest == \A x \in KeptItems : x \notin KeptItems' /\ offered \subseteq offered' =>
                     \A y \in KeptItems : Weight[x] <= Weight[y]

LEMMA InsertDropsLightest ==
    ASSUME TopNInv, TopNInv', NEW k \in Item, TopNInsert(k)
    PROVE  DropsLightest
<1>1. ~nullRead /\ k \notin offered /\ offered' = offered \cup {k} /\ topn' = topn
  BY DEF TopNInsert
<1>2. PICK D, E : D = KeptItems /\ E = KeptItems'
  OBVIOUS
<1>3. D = DOMAIN topn_tree.node
  BY <1>2, KeptAre
<1>4. E = DOMAIN topn_tree'.node
  BY <1>2 DEF TopNInv, Ordered, KeptItems
<1>5. D \subseteq E \/ \E n : Lightest(D, n) /\ D \ {n} \subseteq E
  <2>1. CASE InsertBelowCapacity(k)
    BY <1>1, <1>3, <1>4, <2>1, BelowCapacityKeeps
  <2>2. CASE CompareWithNull \/ RejectSmall(k)
    BY <1>1, <1>3, <1>4, <2>2, NotTakenKeeps
  <2>3. CASE EvictFirst(k)
    BY <1>1, <1>3, <1>4, <2>3, EvictKeeps
  <2> QED
    BY <2>1, <2>2, <2>3 DEF TopNInsert
<1>6. \A x \in D : x \notin E => \A y \in D : Weight[x] <= Weight[y]
  BY <1>5 DEF Lightest
<1> QED
  BY <1>2, <1>6 DEF DropsLightest

\* An insertion drops an item only when no kept item is lighter, although min_key
\* lags behind.
THEOREM EvictionsDropLightest == TopNSpec => EvictsSmallest
<1>1. TopNInv /\ TopNInv' /\ [TopNNext]_topnVars => [DropsLightest]_topnVars
  <2> SUFFICES ASSUME TopNInv, TopNInv', TopNNext PROVE DropsLightest
    BY DEF topnVars
  <2>1. ASSUME NEW k \in Item, TopNInsert(k) PROVE DropsLightest
    BY <2>1, InsertDropsLightest
  <2>2. CASE TopNFree
    <3>1. offered' = {} /\ KeptItems \subseteq offered
      BY <2>2, KeptAre DEF TopNFree, TopNInv, Room
    <3> QED
      BY <3>1 DEF DropsLightest
  <2> QED
    BY <2>1, <2>2 DEF TopNNext
<1> QED
  BY <1>1, TopNInvariant, PTL DEF TopNSpec, EvictsSmallest, DropsLightest

LEMMA DumpFalls ==
    ASSUME NEW t, Ordered(t), NEW D, D = DOMAIN t.node, NEW w, w = ReverseForeach(t)
    PROVE  /\ w \in Seq(D) /\ ToSet(w) = D /\ Len(w) = t.nnodes
           /\ \A i, j \in 1 .. Len(w) : i < j => Weight[w[i]] >= Weight[w[j]]
<1>1. PICK pos : Holds(t, D, pos) /\ Rising(D, pos)
  BY DEF Ordered
<1>2. Falling(w, D, pos) /\ t.nnodes = Cardinality(D)
  BY <1>1, ReverseFalls, HoldsParts
<1>3. w \in Seq(D) /\ ToSet(w) = D /\ Len(w) = t.nnodes
      /\ \A i, j \in 1 .. Len(w) : i < j => pos[w[j]] < pos[w[i]]
  BY <1>2 DEF Falling
<1>4. ASSUME NEW i \in 1 .. Len(w), NEW j \in 1 .. Len(w), i < j PROVE Weight[w[i]] >= Weight[w[j]]
  <2>1. PICK a, b : a = w[i] /\ b = w[j]
    OBVIOUS
  <2>2. a \in D /\ b \in D /\ pos[b] < pos[a]
    BY <1>3, <1>4, <2>1
  <2>3. Weight[b] <= Weight[a] /\ D \subseteq Item
    BY <1>1, <2>2 DEF Rising, Ordered
  <2>4. Weight[a] \in Int /\ Weight[b] \in Int
    BY <2>2, <2>3, WeightAssumption
  <2> QED
    BY <2>1, <2>3, <2>4
<1> QED
  BY <1>3, <1>4

\* topn_foreach shows every kept item once, in descending order of weight,
\* whatever the order of insertion and however many weights are equal.
THEOREM DumpsDescend == TopNSpec => []DumpDescending
<1>1. TopNInv => DumpDescending
  <2> SUFFICES ASSUME TopNInv PROVE DumpDescending
    OBVIOUS
  <2>1. PICK t, D, w : t = topn_tree /\ D = DOMAIN t.node /\ w = ReverseForeach(t)
    OBVIOUS
  <2>2. Ordered(t) /\ KeptItems = D
    BY <2>1, KeptAre DEF TopNInv
  <2>3. /\ w \in Seq(D) /\ ToSet(w) = D /\ Len(w) = t.nnodes
        /\ \A i, j \in 1 .. Len(w) : i < j => Weight[w[i]] >= Weight[w[j]]
    BY <2>1, <2>2, DumpFalls
  <2>4. \A n \in D : t.node[n].key = n
    BY <2>1, <2>2 DEF Ordered
  <2>5. Visited = [i \in 1 .. Len(w) |-> t.node[w[i]].key]
    BY <2>1 DEF Visited
  <2>6. \A i \in 1 .. Len(w) : w[i] \in D /\ t.node[w[i]].key = w[i]
    BY <2>3, <2>4
  <2>7. Visited = w
    <3>1. w = [i \in 1 .. Len(w) |-> w[i]]
      BY <2>3
    <3> QED
      BY <2>5, <2>6, <3>1
  <2>8. DOMAIN w = 1 .. Len(w)
    BY <2>3
  <2> QED
    BY <2>1, <2>2, <2>3, <2>7, <2>8 DEF DumpDescending
<1> QED
  BY <1>1, TopNInvariant, PTL
=============================================================================
