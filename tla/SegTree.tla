------------------------------ MODULE SegTree ------------------------------
(***************************************************************************)
(* The interval tree at the end of src/src/tree.cpp: a tree_t whose keys   *)
(* are intervals <<start, end>> that compare as equal when one contains    *)
(* the other.  Like TreeOps a module of operators on a tree value; a node  *)
(* is named by the interval it was created for.                            *)
(***************************************************************************)
EXTENDS TreeOps

key_equalOneWay(v1, v2) ==         \* mutant: one way to contain only
    IF v1[1] <= v2[1] /\ v1[2] >= v2[2] THEN 0
    ELSE IF v1[1] > v2[2] THEN 1
    ELSE -1
\* Intervals that overlap without containing each other compare as less both
\* ways; blocks, the only intervals combiner inserts, never do.
key_equal(v1, v2) ==
    IF v1[1] <= v2[1] /\ v1[2] >= v2[2] THEN 0
    ELSE IF v2[1] <= v1[1] /\ v2[2] >= v1[2] THEN 0
    ELSE IF v2[1] > v1[2] THEN -1
    ELSE IF v1[1] > v2[2] THEN 1
    ELSE -1

Compared(t, key) == [n \in DOMAIN t.node |-> key_equal(key, t.node[n].key)]

Segments(t) == {t.node[n].key : n \in DOMAIN t.node}

\* tree_find_a_node: the match, or the node the search ends at.
FindANode(t, key) == Descend(t, Compared(t, key)).node

\* The nodes of the two ends of an interval that is inserted.
start_node(t, new) == FindANode(t, <<new[1], new[1]>>)
end_node(t, new) == FindANode(t, <<new[2], new[2]>>)
Covers(t, new) == t.root # NULL /\ start_node(t, new) # end_node(t, new)

\* The nodes it covers, from rm_start_node to rm_end_node.  When the search
\* for its end stopped behind it, the last of them is taken to be the one
\* before the first, which is read to find it.
rm_start_node(t, new) ==
    LET n == start_node(t, new)
    IN IF t.node[n].key[2] < new[1] THEN NextNode(t, n) ELSE n
rm_end_node(t, new) ==
    LET n == end_node(t, new)
    IN IF t.node[n].key[1] > new[2] THEN PreviousNode(t, rm_start_node(t, new)) ELSE n

\* A null end is met behind the last node, and its key is read; so is a null
\* start when the end is sought before it.
ReadsNull(t, new) ==
    Covers(t, new) /\ IF rm_start_node(t, new) = NULL
                      THEN t.node[end_node(t, new)].key[1] > new[2]
                      ELSE rm_end_node(t, new) = NULL

\* tree_remove_node: a node, and those behind it up to the end, or up to the
\* last when the end is not among them.
Doomed(t, start, end) ==
    LET nodes == NodesFrom(t, start)
        ends  == {i \in 2 .. Len(nodes) : nodes[i] = end}
    IN IF ends = {} THEN nodes ELSE SubSeq(nodes, 1, CHOOSE i \in ends : TRUE)
tree_remove_node(t, start, end) ==
    LET tree_remove(rest, n) == RemoveInternal(rest, Compared(rest, t.node[n].key)).tree
    IN FoldLeft(tree_remove, t, Doomed(t, start, end))
RemoveCovered(t, new) ==
    IF Covers(t, new) /\ rm_start_node(t, new) # NULL
    THEN tree_remove_node(t, rm_start_node(t, new), rm_end_node(t, new))
    ELSE t

Add(t, new) == InsertInternal(t, Compared(t, new), new, new, NULL, FALSE).tree

ContainedEnd(key, new) == key[2] >= new[2]   \* mutant: forgets the start
Contained(key, new) == key[1] <= new[1] /\ key[2] >= new[2]

\* A new interval that is empty or contained in a stored one is ignored.
Ignored(t, new) ==
    \/ new[1] > new[2]
    \/ /\ t.root # NULL /\ ~Covers(t, new)
       /\ Contained(t.node[start_node(t, new)].key, new)

\* The tree after the call, which kills the program when ReadsNull.
seg_tree_insert(t, new) ==
    IF Ignored(t, new) THEN t
    ELSE IF ReadsNull(t, new) THEN RemoveCovered(t, new)
    ELSE Add(RemoveCovered(t, new), new)
=============================================================================
