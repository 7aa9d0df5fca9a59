-------------------------------- MODULE Tree --------------------------------
(***************************************************************************)
(* tree_t of src/src/tree.cpp under any sequence of calls, one call at a   *)
(* time, with destroy functions for keys and values.  The tree itself is a *)
(* value of TreeOps.  A key object is <<rank, copy>>: key_compare sees the *)
(* rank only, so two objects of a rank are equal keys.                     *)
(***************************************************************************)
EXTENDS TreeOps

CONSTANTS
    Rank,        \* what keys are compared by, a set of integers
    Copy,        \* the different objects with one rank
    Val,         \* values
    FewestNodes  \* tree_remove_first/last_node is called on trees of this
                 \* size and more (and on empty ones): topn_insert, their only
                 \* caller, calls it on a tree of topn nodes

\* The node of a rank, once there is one, has the rank for its name; NULL is
\* none of them.
ASSUME RankAssumption == Rank \subseteq Int /\ NULL \notin Rank

VARIABLES
    tree,     \* the tree_t
    ret,      \* what the last call returned and passed to destroy functions
    crashed   \* the process was killed by a null pointer

vars == <<tree, ret, crashed>>

KeyObject == Rank \X Copy
\* The destroy functions of keys and of values get different objects.
ASSUME ObjectAssumption == Val \cap KeyObject = {}

Compare(a, b) == a[1] - b[1]
Compared(k) == [n \in DOMAIN tree.node |-> Compare(k, tree.node[n].key)]
StoredKeys == {tree.node[n].key : n \in DOMAIN tree.node}

\* Any object of a rank serves to look it up.
Probe(r) == <<r, CHOOSE c \in Copy : TRUE>>

Outcome(done, key, value, freed) ==
    [done |-> done, key |-> key, value |-> value, freed |-> freed]
Nothing == Outcome(FALSE, NULL, NULL, {})

Init ==
    /\ tree = NewTree
    /\ ret = Nothing
    /\ crashed = FALSE

\* tree_insert (replace FALSE) and tree_replace.  The caller passes a key
\* object that the tree does not own yet.
Insert(k, v, replace) ==
    /\ ~crashed
    /\ k \notin StoredKeys
    /\ LET r == InsertInternal(tree, Compared(k), k[1], k, v, replace)
       IN tree' = r.tree /\ ret' = Outcome(TRUE, NULL, NULL, r.freed)
    /\ UNCHANGED crashed

RemoveKey(r) ==
    /\ ~crashed
    /\ LET x == RemoveInternal(tree, Compared(Probe(r)))
       IN /\ tree' = x.tree
          /\ ret' = IF x.found THEN Outcome(TRUE, NULL, NULL, {x.key, x.value})
                               ELSE Nothing
    /\ UNCHANGED crashed

Steal(r) ==
    /\ ~crashed
    /\ LET x == RemoveInternal(tree, Compared(Probe(r)))
       IN /\ tree' = x.tree
          /\ ret' = IF x.found THEN Outcome(TRUE, x.key, x.value, {})
                               ELSE Nothing
    /\ UNCHANGED crashed

LookupExtended(r) ==
    /\ ~crashed
    /\ LET n == FindNode(tree, Compared(Probe(r)))
       IN ret' = IF n = NULL THEN Nothing
                 ELSE Outcome(TRUE, tree.node[n].key, tree.node[n].value, {})
    /\ UNCHANGED <<tree, crashed>>

\* x is RemoveFirstNode or RemoveLastNode of the tree: temp_node->key is read
\* whether or not there is a temp_node.
RemoveEnd(x) ==
    /\ tree' = x.tree
    /\ ret' = Outcome(TRUE,
                      IF x.temp_node = NULL THEN NULL
                      ELSE x.tree.node[x.temp_node].key,
                      NULL,
                      {tree.node[x.removed].key, tree.node[x.removed].value})
    /\ crashed' = (x.temp_node = NULL)

RemoveFirstOrLast ==
    /\ ~crashed
    /\ IF tree.root = NULL
       THEN ret' = Nothing /\ UNCHANGED <<tree, crashed>>
       ELSE /\ tree.nnodes >= FewestNodes
            /\ \/ RemoveEnd(RemoveFirstNode(tree))
               \/ RemoveEnd(RemoveLastNode(tree))

\* tree_remove_all, the body of tree_free, after which the tree can be reused.
RemoveAll ==
    /\ ~crashed
    /\ tree' = RemoveAllNodes(tree)
    /\ ret' = Outcome(TRUE, NULL, NULL,
                 UNION {{tree.node[n].key, tree.node[n].value} :
                           n \in ToSet(Foreach(tree))})
    /\ UNCHANGED crashed

Next ==
    \/ \E k \in KeyObject, v \in Val, replace \in BOOLEAN : Insert(k, v, replace)
    \/ \E r \in Rank : RemoveKey(r) \/ Steal(r) \/ LookupExtended(r)
    \/ RemoveFirstOrLast
    \/ RemoveAll

Spec == Init /\ [][Next]_vars

-----------------------------------------------------------------------------
\* After any sequence of insertions and removals no node is leaked or counted
\* twice.
NothingLost == NodesReachable(tree)

\* tree_node_check's assertion on balances, which the code only evaluates in a
\* G_TREE_DEBUG build: rotations and the two ways up the path keep them exact.
BalancesExact == BalancesRight(tree)

\* tree_node_check's assertions on neighbours: threads survive rotations and
\* the four ways to unlink a node.
ThreadsExact == ThreadsRight(tree)

\* tree.h says that removing the only node returns NULL; the process is never
\* killed by it.
NeverCrashes == ~crashed

Contents ==
    [r \in DOMAIN tree.node |->
        [key |-> tree.node[r].key, value |-> tree.node[r].value]]

Map == INSTANCE OrderedMap WITH map <- Contents

\* The tree is an ordered map: every call changes the entries, returns and
\* passes to the destroy functions exactly what the map says.
ImplementsMap == Map!OSpec
=============================================================================
