-------------------------------- MODULE TopN --------------------------------
(***************************************************************************)
(* src/src/topn.cpp: a bounded sorted container on the tree, with which    *)
(* sort_list (src/src/caches_maps.cpp) orders a record map before it is    *)
(* dumped.  An item is a key the caller inserts once (topn.h: no two keys  *)
(* have the same address); Weight is what key_compare_func compares, the   *)
(* traffic of an address, and different items may have the same weight.    *)
(***************************************************************************)
EXTENDS TreeOps

CONSTANTS
    Item,
    Weight,   \* a function from Item to integers
    Capacity  \* the capacities topn_new is called with

ASSUME CapacityAssumption == Capacity \subseteq Nat
ASSUME WeightAssumption == Weight \in [Item -> Int]
\* A key is no null pointer.
ASSUME ItemAssumption == NULL \notin Item

\* key_compare_func, and my_key_compare_func, which never says that two keys
\* are equal: a tie goes to the left of what is there.
KeyCompare(a, b) == Weight[a] - Weight[b]
MyKeyCompareTies(a, b) == KeyCompare(a, b)     \* mutant: a tie overwrites
MyKeyCompare(a, b) ==
    IF KeyCompare(a, b) = 0 THEN -1 ELSE KeyCompare(a, b)

VARIABLES
    topn,     \* the capacity
    topn_tree,
    min_key,
    offered,  \* the items inserted so far
    nullRead  \* a null pointer was read

topnVars == <<topn, topn_tree, min_key, offered, nullRead>>

ComparedItems(t, k) == [n \in DOMAIN t.node |-> MyKeyCompare(k, t.node[n].key)]
NewItem(t, k) == InsertInternal(t, ComparedItems(t, k), k, k, NULL, FALSE).tree
KeptItems == {topn_tree.node[n].key : n \in DOMAIN topn_tree.node}

TopNInit ==
    /\ topn \in Capacity
    /\ topn_tree = NewTree
    /\ min_key = NULL
    /\ offered = {}
    /\ nullRead = FALSE

Full == ~(topn_tree.nnodes < topn)

InsertBelowCapacity(k) ==
    /\ ~Full
    /\ topn_tree' = NewItem(topn_tree, k)
    /\ min_key' = IF min_key = NULL THEN k
                  ELSE IF KeyCompare(min_key, k) > 0 THEN k ELSE min_key
    /\ UNCHANGED nullRead

\* min_key is compared without a look at whether there is one: in a container
\* of capacity 0 there never is.
CompareWithNull ==
    /\ Full
    /\ min_key = NULL
    /\ nullRead' = TRUE
    /\ UNCHANGED <<topn_tree, min_key>>

RejectSmall(k) ==
    /\ Full
    /\ min_key # NULL
    /\ KeyCompare(min_key, k) >= 0
    /\ UNCHANGED <<topn_tree, min_key, nullRead>>

\* tree_remove_first_node returns the key that is now first, before k is
\* inserted; on a tree of one node it reads a null pointer.
EvictLast(k) ==               \* mutant: evicts from the wrong end
    /\ Full
    /\ min_key # NULL
    /\ KeyCompare(min_key, k) < 0
    /\ LET x == RemoveLastNode(topn_tree) IN
       IF x.temp_node = NULL
       THEN nullRead' = TRUE /\ topn_tree' = x.tree /\ UNCHANGED min_key
       ELSE /\ min_key' = x.tree.node[x.temp_node].key
            /\ topn_tree' = NewItem(x.tree, k)
            /\ UNCHANGED nullRead
EvictUntracked(k) ==          \* mutant: min_key is left as it was
    /\ Full
    /\ min_key # NULL
    /\ KeyCompare(min_key, k) < 0
    /\ topn_tree' = NewItem(RemoveFirstNode(topn_tree).tree, k)
    /\ UNCHANGED <<min_key, nullRead>>
EvictFirst(k) ==
    /\ Full
    /\ min_key # NULL
    /\ KeyCompare(min_key, k) < 0
    /\ LET x == RemoveFirstNode(topn_tree) IN
       IF x.temp_node = NULL
       THEN nullRead' = TRUE /\ topn_tree' = x.tree /\ UNCHANGED min_key
       ELSE /\ min_key' = x.tree.node[x.temp_node].key
            /\ topn_tree' = NewItem(x.tree, k)
            /\ UNCHANGED nullRead

TopNInsert(k) ==
    /\ ~nullRead
    /\ k \notin offered
    /\ offered' = offered \cup {k}
    /\ \/ InsertBelowCapacity(k)
       \/ CompareWithNull
       \/ RejectSmall(k)
       \/ EvictFirst(k)
    /\ UNCHANGED topn

\* topn_free, and topn_new for the next list to sort.
TopNFree ==
    /\ ~nullRead
    /\ topn_tree' = NewTree
    /\ topn' \in Capacity
    /\ min_key' = NULL
    /\ offered' = {}
    /\ UNCHANGED nullRead

TopNNext ==
    \/ \E k \in Item : TopNInsert(k)
    \/ TopNFree

TopNSpec == TopNInit /\ [][TopNNext]_topnVars

-----------------------------------------------------------------------------
\* What topn_foreach visits, in order: the dump of a sorted list.
Visited == [i \in 1 .. Len(ReverseForeach(topn_tree)) |->
                topn_tree.node[ReverseForeach(topn_tree)[i]].key]

\* The dump is in descending order of weight and shows every kept item once,
\* ties included, whatever the order of insertion.
DumpDescending ==
    /\ Len(Visited) = topn_tree.nnodes
    /\ ToSet(Visited) = KeptItems
    /\ \A i, j \in DOMAIN Visited :
          i < j => Weight[Visited[i]] >= Weight[Visited[j]]

\* A container as large as what is put into it loses nothing; this is how
\* sort_list sizes it, and how a list survives the sort before each dump.
NothingDropped == Cardinality(offered) <= topn => KeptItems = offered

\* A null pointer is met only in containers of fewer than two items.
CrashOnlyTiny == nullRead => topn < 2

\* min_key never points to a key that has left the tree and may be destroyed.
MinKeyAlive ==
    ~nullRead => IF KeptItems = {} THEN min_key = NULL ELSE min_key \in KeptItems

\* min_key may lag behind the true minimum, but by one item at most.
MinKeyNearMinimum ==
    ~nullRead /\ min_key # NULL =>
        Cardinality({x \in KeptItems : Weight[x] < Weight[min_key]}) <= 1

\* An insertion drops an item only when no kept item is smaller.
EvictsSmallest ==
    [][\A x \in KeptItems : x \notin KeptItems' /\ offered \subseteq offered' =>
           \A y \in KeptItems : Weight[x] <= Weight[y]]_topnVars

\* topn_insert's comment on its early return: what it refuses is less than
\* the minimum (or equal to it).
RefusesOnlySmaller ==
    [][\A k \in Item :
           k \in offered' \ offered /\ k \notin KeptItems' =>
               \A y \in KeptItems : Weight[k] <= Weight[y]]_topnVars
=============================================================================
