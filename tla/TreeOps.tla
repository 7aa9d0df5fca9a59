------------------------------ MODULE TreeOps ------------------------------
(***************************************************************************)
(* The threaded AVL tree of src/src/tree.cpp as operators on a tree value. *)
(*                                                                         *)
(* t.node maps every allocated node to its fields; t.node[n].left is the   *)
(* left child when left_child holds and the thread to the in-order         *)
(* predecessor when it does not, and likewise on the right.  Reading a     *)
(* node that was freed is an evaluation error.                             *)
(*                                                                         *)
(* The path arrays of the code keep NULL at index 0 below the ancestors;   *)
(* here a path holds the ancestors only, root first, and NULL is the       *)
(* parent that an empty path yields.                                       *)
(***************************************************************************)
EXTENDS TreeBalance, Sequences, FiniteSets, SequencesExt

CONSTANT NULL       \* the null pointer

NewTree == [root |-> NULL, node |-> <<>>, nnodes |-> 0]

NewNode(key, value) ==
    [key |-> key, value |-> value, left |-> NULL, right |-> NULL,
     left_child |-> FALSE, right_child |-> FALSE, balance |-> 0]

-----------------------------------------------------------------------------
(* Walking *)

\* The nodes from n on, each the one that step gives for the one before it.
Follow(step, n) ==
    LET nodes[m \in DOMAIN step] ==
            IF step[m] = NULL THEN <<m>> ELSE <<m>> \o nodes[step[m]]
    IN nodes[n]

\* The nodes from n down, as far as c leads, which is what key_compare says of
\* the key that is sought and the key of each node: negative, zero or positive.
Down(t, c) ==
    [m \in DOMAIN t.node |->
        IF c[m] < 0 /\ t.node[m].left_child THEN t.node[m].left
        ELSE IF c[m] > 0 /\ t.node[m].right_child THEN t.node[m].right
        ELSE NULL]
Way(t, c, n) == Follow(Down(t, c), n)
LeftSpine(t, n) == Way(t, [m \in DOMAIN t.node |-> -1], n)
RightSpine(t, n) == Way(t, [m \in DOMAIN t.node |-> 1], n)
Leftmost(t, n) == Last(LeftSpine(t, n))
Rightmost(t, n) == Last(RightSpine(t, n))

FirstNode(t) == IF t.root = NULL THEN NULL ELSE Leftmost(t, t.root)
LastNode(t) == IF t.root = NULL THEN NULL ELSE Rightmost(t, t.root)

PreviousNode(t, n) ==
    IF t.node[n].left_child THEN Rightmost(t, t.node[n].left)
                            ELSE t.node[n].left
NextNode(t, n) ==
    IF t.node[n].right_child THEN Leftmost(t, t.node[n].right)
                             ELSE t.node[n].right

\* The nodes tree_foreach and tree_reverse_foreach visit when the callback
\* never stops them.
NodesFrom(t, n) ==
    IF n = NULL THEN <<>> ELSE Follow([m \in DOMAIN t.node |-> NextNode(t, m)], n)
Foreach(t) == NodesFrom(t, FirstNode(t))

NodesBackFrom(t, n) ==
    IF n = NULL THEN <<>> ELSE Follow([m \in DOMAIN t.node |-> PreviousNode(t, m)], n)
ReverseForeach(t) == NodesBackFrom(t, LastNode(t))

\* The node at which the search ends, and its ancestors.
Descend(t, c) ==
    LET way == Way(t, c, t.root) IN [node |-> Last(way), path |-> Front(way)]

\* tree_find_node: the match or NULL.
FindNode(t, c) ==
    IF t.root = NULL THEN NULL
    ELSE LET n == Descend(t, c).node IN IF c[n] = 0 THEN n ELSE NULL

TreeHeight(t) ==
    LET height[m \in DOMAIN t.node] ==
            LET h == 1 + (IF t.node[m].balance > 0 THEN t.node[m].balance ELSE 0)
            IN  IF t.node[m].left_child THEN h + height[t.node[m].left] ELSE h
    IN IF t.root = NULL THEN 0 ELSE height[t.root]

-----------------------------------------------------------------------------
(* Rotations: the tree with n's subtree rotated, and the node now on top    *)

RotateLeft(t, n) ==
    LET r == t.node[n].right
        a == t.node[n].balance
        b == t.node[r].balance
    IN [top |-> r,
        tree |-> [t EXCEPT
            !.node[n] = [t.node[n] EXCEPT
                !.right       = IF t.node[r].left_child THEN t.node[r].left ELSE @,
                !.right_child = t.node[r].left_child,
                !.balance     = RotateLeftDown(a, b)],
            !.node[r] = [t.node[r] EXCEPT
                !.left       = n,
                !.left_child = TRUE,
                !.balance    = RotateLeftTop(a, b)]]]

RotateRight(t, n) ==
    LET l == t.node[n].left
        a == t.node[n].balance
        b == t.node[l].balance
    IN [top |-> l,
        tree |-> [t EXCEPT
            !.node[n] = [t.node[n] EXCEPT
                !.left       = IF t.node[l].right_child THEN t.node[l].right ELSE @,
                !.left_child = t.node[l].right_child,
                !.balance    = RotateRightDown(a, b)],
            !.node[l] = [t.node[l] EXCEPT
                !.right       = n,
                !.right_child = TRUE,
                !.balance     = RotateRightTop(a, b)]]]

ParentOf(path) == IF path = <<>> THEN NULL ELSE Last(path)

IsLeftNode(t, n, parent) == parent # NULL /\ n = t.node[parent].left

\* n becomes the child of parent on the given side, or the root.
SetChild(t, n, parent, left_node) ==
    IF parent = NULL THEN [t EXCEPT !.root = n]
    ELSE IF left_node THEN [t EXCEPT !.node[parent].left = n]
    ELSE [t EXCEPT !.node[parent].right = n]

\* tree_node_balance: a double rotation when the heavy child leans the other
\* way.
Balance(t, n) ==
    LET l == t.node[n].left
        r == t.node[n].right
    IN IF t.node[n].balance < -1
       THEN IF t.node[l].balance > 0
            THEN LET x == RotateLeft(t, l)
                 IN  RotateRight(SetChild(x.tree, x.top, n, TRUE), n)
            ELSE RotateRight(t, n)
       ELSE IF t.node[r].balance < 0
            THEN LET x == RotateRight(t, r)
                 IN  RotateLeft(SetChild(x.tree, x.top, n, FALSE), n)
            ELSE RotateLeft(t, n)

Shift(t, n, by) == [t EXCEPT !.node[n].balance = @ + by]

RebalancedUnlinked(t, n, parent) ==  \* mutant: the new top is not linked
    IF Balanced(t.node[n].balance) THEN [top |-> n, tree |-> t] ELSE Balance(t, n)
Rebalanced(t, n, parent) ==
    IF Balanced(t.node[n].balance) THEN [top |-> n, tree |-> t]
    ELSE LET x == Balance(t, n)
         IN [top |-> x.top,
             tree |-> SetChild(x.tree, x.top, parent, IsLeftNode(t, n, parent))]

\* The two loops that restore balance: way leads from the root to a node whose
\* balance has changed.  Its subtree may have grown (by is 1) or become lower
\* (by is -1) by one; the loop goes up while that is so.
Restore(t, way, by) ==
    LET after[k \in 0 .. Len(way)] ==
            IF k = 0 THEN [tree |-> t, done |-> FALSE]
            ELSE LET before == after[k - 1]
                     i      == Len(way) + 1 - k
                     parent == IF i = 1 THEN NULL ELSE way[i - 1]
                     x      == Rebalanced(before.tree, way[i], parent)
                     same   == (x.tree.node[x.top].balance = 0) = (by = 1)
                     left   == IsLeftNode(before.tree, way[i], parent)
                 IN IF before.done THEN before
                    ELSE IF same \/ parent = NULL
                    THEN [tree |-> x.tree, done |-> TRUE]
                    ELSE [tree |-> Shift(x.tree, parent, IF left THEN -by ELSE by),
                          done |-> FALSE]
    IN after[Len(way)].tree

-----------------------------------------------------------------------------
(* tree_insert_internal *)

\* A new leaf below p takes over p's thread and gets one back to p.
AddLeftNoThread(t, new, key, value, p) ==    \* mutant: predecessor thread lost
    [t EXCEPT
        !.node = [x \in DOMAIN t.node \cup {new} |->
            IF x = new
            THEN [NewNode(key, value) EXCEPT !.right = p]
            ELSE IF x = p
            THEN [t.node[p] EXCEPT !.left = new, !.left_child = TRUE,
                                   !.balance = @ - 1]
            ELSE t.node[x]],
        !.nnodes = @ + 1]
AddLeft(t, new, key, value, p) ==
    [t EXCEPT
        !.node = [x \in DOMAIN t.node \cup {new} |->
            IF x = new
            THEN [NewNode(key, value) EXCEPT !.left = t.node[p].left, !.right = p]
            ELSE IF x = p
            THEN [t.node[p] EXCEPT !.left = new, !.left_child = TRUE,
                                   !.balance = @ - 1]
            ELSE t.node[x]],
        !.nnodes = @ + 1]

AddRight(t, new, key, value, p) ==
    [t EXCEPT
        !.node = [x \in DOMAIN t.node \cup {new} |->
            IF x = new
            THEN [NewNode(key, value) EXCEPT !.right = t.node[p].right, !.left = p]
            ELSE IF x = p
            THEN [t.node[p] EXCEPT !.right = new, !.right_child = TRUE,
                                   !.balance = @ + 1]
            ELSE t.node[x]],
        !.nnodes = @ + 1]

\* An equal key is already there: the value is replaced and the old one
\* destroyed; of the two key objects the one not kept is destroyed.
OverwriteFreesStored(t, n, key, value, replace) ==   \* mutant: frees its own key
    [tree  |-> [t EXCEPT !.node[n].value = value,
                         !.node[n].key = IF replace THEN key ELSE @],
     freed |-> {t.node[n].value, t.node[n].key}]
Overwrite(t, n, key, value, replace) ==
    [tree  |-> [t EXCEPT !.node[n].value = value,
                         !.node[n].key = IF replace THEN key ELSE @],
     freed |-> {t.node[n].value, IF replace THEN t.node[n].key ELSE key}]

\* new is the node mem_cache_alloc provides when one is needed.
InsertInternal(t, c, new, key, value, replace) ==
    IF t.root = NULL
    THEN [tree  |-> [root |-> new, node |-> [x \in {new} |-> NewNode(key, value)],
                     nnodes |-> t.nnodes + 1],
          freed |-> {}]
    ELSE LET way   == Way(t, c, t.root)
             n     == Last(way)
             grown == IF c[n] < 0 THEN AddLeft(t, new, key, value, n)
                                  ELSE AddRight(t, new, key, value, n)
         IN IF c[n] = 0
            THEN Overwrite(t, n, key, value, replace)
            ELSE [tree  |-> Restore(grown, way, 1), freed |-> {}]

-----------------------------------------------------------------------------
(* tree_remove_node_internal *)

\* parent's subtree on the side where n was is now one lower.
Lowered(t, n, parent, tree) ==
    IF parent = NULL THEN tree
    ELSE Shift(tree, parent, IF IsLeftNode(t, n, parent) THEN 1 ELSE -1)

\* The four ways to unlink n: the tree without it, still to be rebalanced, and
\* the way to the lowest node whose balance changed, that node included.
UnlinkLeaf(t, n, path) ==
    LET p == ParentOf(path)
        unlinked ==
            IF p = NULL THEN [t EXCEPT !.root = NULL]
            ELSE IF IsLeftNode(t, n, p)
            THEN [t EXCEPT !.node[p] = [t.node[p] EXCEPT !.left = t.node[n].left,
                                                         !.left_child = FALSE]]
            ELSE [t EXCEPT !.node[p] = [t.node[p] EXCEPT !.right = t.node[n].right,
                                                         !.right_child = FALSE]]
    IN [tree |-> Lowered(t, n, p, unlinked), way |-> path]

UnlinkWithRightChild(t, n, path) ==
    LET p   == ParentOf(path)
        tmp == NextNode(t, n)
        threaded == [t EXCEPT !.node[tmp].left = t.node[n].left]
    IN [tree |-> Lowered(t, n, p,
                    SetChild(threaded, t.node[n].right, p, IsLeftNode(t, n, p))),
        way |-> path]

UnlinkWithLeftChild(t, n, path) ==
    LET p   == ParentOf(path)
        tmp == PreviousNode(t, n)
        threaded == [t EXCEPT !.node[tmp].right = t.node[n].right]
    IN [tree |-> Lowered(t, n, p,
                    SetChild(threaded, t.node[n].left, p, IsLeftNode(t, n, p))),
        way |-> path]

\* Both children: the in-order successor next is taken from below nextp and
\* put in the place of n; the thread from the predecessor prev follows.
PrevThreadStays(t, prev, next) == t         \* mutant: the thread leads to n
PrevThread(t, prev, next) == [t EXCEPT !.node[prev].right = next]
UnlinkInner(t, n, path) ==
    LET p     == ParentOf(path)
        spine == LeftSpine(t, t.node[n].right)
        next  == Last(spine)
        prev  == Rightmost(t, t.node[n].left)
        taken ==
            IF Len(spine) = 1
            THEN [t EXCEPT !.node[next].balance = t.node[n].balance - 1]
            ELSE LET nextp == spine[Len(spine) - 1]
                     child == t.node[next].right_child
                 IN [t EXCEPT
                    !.node[nextp] = [t.node[nextp] EXCEPT
                        !.left       = IF child THEN t.node[next].right ELSE @,
                        !.left_child = child,
                        !.balance    = @ + 1],
                    !.node[next] = [t.node[next] EXCEPT
                        !.right       = t.node[n].right,
                        !.right_child = TRUE,
                        !.balance     = t.node[n].balance]]
        placed ==
            [PrevThread(taken, prev, next) EXCEPT
                !.node[next] = [@ EXCEPT !.left = t.node[n].left, !.left_child = TRUE]]
    IN [tree |-> SetChild(placed, next, p, IsLeftNode(t, n, p)),
        way |-> path \o <<next>> \o Front(spine)]
UnlinkNode(t, n, path) ==
    IF ~t.node[n].left_child
    THEN IF ~t.node[n].right_child THEN UnlinkLeaf(t, n, path)
                                   ELSE UnlinkWithRightChild(t, n, path)
    ELSE IF ~t.node[n].right_child THEN UnlinkWithLeftChild(t, n, path)
                                   ELSE UnlinkInner(t, n, path)

\* The tree without n, whose memory goes back to the cache.
Freed(t, n) == [t EXCEPT !.node = Restrict(@, DOMAIN @ \ {n}), !.nnodes = @ - 1]
RemoveNodeNoRebalance(t, n, path) ==    \* mutant: balances are not restored
    Freed(UnlinkNode(t, n, path).tree, n)
RemoveNodeInternal(t, n, path) ==
    LET u == UnlinkNode(t, n, path) IN Freed(Restore(u.tree, u.way, -1), n)

\* tree_remove_internal: found tells whether the key was there.
RemoveInternal(t, c) ==
    LET d == Descend(t, c) IN
    IF t.root = NULL THEN [tree |-> t, found |-> FALSE]
    ELSE IF c[d.node] # 0 THEN [tree |-> t, found |-> FALSE]
    ELSE [tree  |-> RemoveNodeInternal(t, d.node, d.path), found |-> TRUE,
          key   |-> t.node[d.node].key, value |-> t.node[d.node].value]

\* tree_remove_first_node and tree_remove_last_node on a tree that is not
\* empty: temp_node, whose key they return, is NULL when the tree held one node.
RemoveFirstNodePrev(t) ==           \* mutant: looks at the wrong neighbour
    LET spine == LeftSpine(t, t.root) IN
    [tree |-> RemoveNodeInternal(t, Last(spine), Front(spine)),
     removed |-> Last(spine), temp_node |-> PreviousNode(t, Last(spine))]
RemoveFirstNode(t) ==
    LET spine == LeftSpine(t, t.root) IN
    [tree |-> RemoveNodeInternal(t, Last(spine), Front(spine)),
     removed |-> Last(spine), temp_node |-> NextNode(t, Last(spine))]
RemoveLastNode(t) ==
    LET spine == RightSpine(t, t.root) IN
    [tree |-> RemoveNodeInternal(t, Last(spine), Front(spine)),
     removed |-> Last(spine), temp_node |-> PreviousNode(t, Last(spine))]

\* tree_remove_all: every node the walk meets is freed, when its successor has
\* been looked up.
RemoveAllNodes(t) ==
    [root |-> NULL, node |-> Restrict(t.node, DOMAIN t.node \ ToSet(Foreach(t))),
     nnodes |-> 0]

-----------------------------------------------------------------------------
(* What G_TREE_DEBUG's tree_node_check asserts of a tree, and what threads   *)
(* and traversals must show.                                                 *)

Subtree(t, n) ==
    LET below[m \in DOMAIN t.node] ==
            {m} \cup (IF t.node[m].left_child THEN below[t.node[m].left] ELSE {})
                \cup (IF t.node[m].right_child THEN below[t.node[m].right] ELSE {})
    IN below[n]

RealHeight(t, n) ==
    LET height[m \in DOMAIN t.node] ==
            LET l == IF t.node[m].left_child THEN height[t.node[m].left] ELSE 0
                r == IF t.node[m].right_child THEN height[t.node[m].right] ELSE 0
            IN 1 + (IF l > r THEN l ELSE r)
    IN height[n]

BalanceOf(t, n) ==
    (IF t.node[n].right_child THEN RealHeight(t, t.node[n].right) ELSE 0)
    - (IF t.node[n].left_child THEN RealHeight(t, t.node[n].left) ELSE 0)

\* Every allocated node is in the tree, and nnodes counts them.
NodesReachable(t) ==
    /\ DOMAIN t.node = IF t.root = NULL THEN {} ELSE Subtree(t, t.root)
    /\ t.nnodes = Cardinality(DOMAIN t.node)

\* Stored balances are the real ones, within -1 .. 1, and tree_height, which
\* only follows them, returns the real height.
BalancesRight(t) ==
    /\ \A n \in DOMAIN t.node :
          /\ t.node[n].balance = BalanceOf(t, n)
          /\ Balanced(t.node[n].balance)
    /\ TreeHeight(t) = IF t.root = NULL THEN 0 ELSE RealHeight(t, t.root)

\* Where a child is missing the pointer is a thread: the predecessor of a node
\* with a left child has the node as its right thread, and symmetrically; the
\* outermost threads are NULL.
ThreadsRight(t) ==
    /\ \A n \in DOMAIN t.node :
          /\ t.node[n].left_child =>
                LET p == PreviousNode(t, n)
                IN  t.node[p].right = n /\ ~t.node[p].right_child
          /\ t.node[n].right_child =>
                LET q == NextNode(t, n)
                IN  t.node[q].left = n /\ ~t.node[q].left_child
    /\ t.root # NULL => /\ t.node[FirstNode(t)].left = NULL
                        /\ t.node[LastNode(t)].right = NULL
=============================================================================
