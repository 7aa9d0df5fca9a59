-------------------------------- MODULE List --------------------------------
(***************************************************************************)
(* The doubly linked list of src/src/list.cpp.  Several lists, each with a *)
(* memory cache of its own for its nodes, so that nodes which change lists *)
(* matter.  Data are numbers in the order of the compare function; the     *)
(* destroy function is null, as at the only caller.  Memory that is freed  *)
(* is not handed out again.                                                *)
(***************************************************************************)
EXTENDS Integers, Sequences, FiniteSets, SequencesExt

CONSTANTS
    ListId,
    Data,       \* a set of integers
    NULL,
    MaxNodes    \* bound: nodes ever allocated

ASSUME DataAssumption == Data \subseteq Int
ASSUME NullAssumption == NULL \notin Nat \cup ListId

VARIABLES
    node,       \* in order of allocation: [data, next, prev, mem_cache, freed]
    list,       \* of each list: [head, tail, length, open]
    fault,      \* a list whose call has read a freed node, or NULL
    contents,   \* what list.h says is in each list: a sequence of nodes
    loose,      \* nodes that were the head when list_prepend was called
    bent,       \* lists that may not hold what they should any more
    miscounted  \* lists whose length went wrong

vars == <<node, list, fault, contents, loose, bent, miscounted>>
history == <<loose, bent, miscounted>>

New == Len(node) + 1
Empty == [head |-> NULL, tail |-> NULL, length |-> 0, open |-> TRUE]
Absent == [Empty EXCEPT !.open = FALSE]
Open == {l \in ListId : list[l].open}
\* Bounds: the nodes; a list that went wrong gets no more of them and is not
\* searched, and none is concatenated or duplicated while one is miscounted.
MayGrow(l) == list[l].open /\ New <= MaxNodes /\ l \notin bent

Init ==
    /\ node = <<>>
    /\ list = [l \in ListId |-> Absent]
    /\ fault = NULL
    /\ contents = [l \in ListId |-> <<>>]
    /\ loose = {} /\ bent = {} /\ miscounted = {}

\* Nodes met from n along next, at most all that there are.
From(n) ==
    LET cell[i \in 0 .. Len(node)] ==
            IF i = 0 THEN n
            ELSE IF cell[i - 1] = NULL \/ node[cell[i - 1]].freed THEN NULL
            ELSE node[cell[i - 1]].next
        reached == {i \in 0 .. Len(node) : cell[i] # NULL}
    IN [i \in 1 .. Cardinality(reached) |-> cell[i - 1]]
Walk(l) == From(list[l].head)
Freed(ns) == \E n \in ns \ {NULL} : node[n].freed

\* A call that reads a freed node may do anything; it ends the behaviour.
Reads(l, ns, Effect) ==
    IF Freed(ns) THEN fault' = l /\ UNCHANGED <<node, list, contents, history>>
    ELSE fault' = fault /\ Effect

Allocated(l, data, next, prev) ==
    [data |-> data, next |-> next, prev |-> prev, mem_cache |-> l, freed |-> FALSE]
\* ns with the pointers of one node, which may be null, changed.
SetNext(ns, n, x) == IF n = NULL THEN ns ELSE [ns EXCEPT ![n].next = x]
SetPrev(ns, n, x) == IF n = NULL THEN ns ELSE [ns EXCEPT ![n].prev = x]

\* A list of node n alone, or with n as its new tail, head, and one longer.
Grown(l, head, tail) ==
    list' = [list EXCEPT ![l] = [list[l] EXCEPT !.head = head, !.tail = tail,
                                                !.length = list[l].length + 1]]
Holds(l, seq) == contents' = [contents EXCEPT ![l] = seq]
\* Where a node is among the contents.
Place(l, n) == CHOOSE i \in DOMAIN contents[l] : contents[l][i] = n

-----------------------------------------------------------------------------
list_new(l) ==
    /\ l \notin Open
    /\ list' = [list EXCEPT ![l] = Empty]
    /\ UNCHANGED <<node, fault, contents, history>>

\* The first node of the walk that is one of wanted, else NULL.  A freed node
\* ends the search too: reading it is a fault.  No node behind is read.
Find(l, wanted) ==
    LET walk == Walk(l)
        hits == {i \in DOMAIN walk : node[walk[i]].freed \/ walk[i] \in wanted}
    IN IF hits = {} THEN NULL
       ELSE walk[CHOOSE i \in hits : \A j \in hits : i <= j]

\* list_append, the end of list_append_unique and of list_insert_sorted too.
Append1(l, data) ==
    LET tail == list[l].tail IN
    Reads(l, {tail},
        /\ node' = Append(SetNext(node, tail, New), Allocated(l, data, NULL, tail))
        /\ Grown(l, IF tail = NULL THEN New ELSE list[l].head, New)
        /\ Holds(l, Append(contents[l], New))
        /\ UNCHANGED history)
list_append(l, data) ==
    /\ MayGrow(l)
    /\ Append1(l, data)

list_append_unique(l, data) ==
    /\ MayGrow(l)
    /\ LET n == Find(l, {m \in DOMAIN node : node[m].data = data})
       IN IF n = NULL THEN Append1(l, data)
          ELSE Reads(l, {n}, UNCHANGED <<node, list, contents, history>>)

\* The old head's prev is not set.
list_prepend(l, data) ==
    /\ MayGrow(l)
    /\ LET head == list[l].head
           tail == list[l].tail
       IN /\ node' = Append(node, Allocated(l, data, head, NULL))
          /\ Grown(l, New, IF tail = NULL THEN New ELSE tail)
          /\ Holds(l, <<New>> \o contents[l])
          /\ loose' = loose \cup ({head} \ {NULL})
          /\ UNCHANGED <<fault, bent, miscounted>>

\* A sibling that has lost its prev is taken for the head.
InsertBefore(l, sibling, data) ==
    LET prev == node[sibling].prev IN
    Reads(l, {sibling, prev},
        /\ node' = SetPrev(SetNext(Append(node, Allocated(l, data, sibling, prev)),
                                   prev, New),
                           sibling, New)
        /\ Grown(l, IF prev = NULL THEN New ELSE list[l].head, list[l].tail)
        /\ Holds(l, InsertAt(contents[l], Place(l, sibling), New))
        /\ bent' = bent \cup IF sibling \in loose THEN {l} ELSE {}
        /\ UNCHANGED <<loose, miscounted>>)
list_insert_before(l, sibling, data) ==
    /\ MayGrow(l)
    /\ InsertBefore(l, sibling, data)

InsertAfterOneWay(l, sibling, data) ==     \* mutant: the next node's prev stays
    LET next == node[sibling].next IN
    /\ MayGrow(l)
    /\ Reads(l, {sibling, next},
        /\ node' = SetNext(Append(node, Allocated(l, data, next, sibling)),
                           sibling, New)
        /\ Grown(l, list[l].head, IF next = NULL THEN New ELSE list[l].tail)
        /\ Holds(l, InsertAt(contents[l], Place(l, sibling) + 1, New))
        /\ UNCHANGED history)
list_insert_after(l, sibling, data) ==
    LET next == node[sibling].next IN
    /\ MayGrow(l)
    /\ Reads(l, {sibling, next},
        /\ node' = SetNext(SetPrev(Append(node, Allocated(l, data, next, sibling)),
                                   next, New),
                           sibling, New)
        /\ Grown(l, list[l].head, IF next = NULL THEN New ELSE list[l].tail)
        /\ Holds(l, InsertAt(contents[l], Place(l, sibling) + 1, New))
        /\ loose' = loose \ {next}
        /\ UNCHANGED <<bent, miscounted>>)

SortedHere(data, old) == data > old
list_insert_sorted(l, data) ==
    /\ MayGrow(l)
    /\ LET n == Find(l, {m \in DOMAIN node : SortedHere(data, node[m].data)})
       IN IF n = NULL THEN Append1(l, data) ELSE InsertBefore(l, n, data)

-----------------------------------------------------------------------------
\* mem_cache_free of a node that belongs to another cache only logs an error.
FreeNodes(ns, l, rm) ==
    [n \in DOMAIN ns |-> IF n \in rm /\ ns[n].mem_cache = l
                         THEN [ns[n] EXCEPT !.next = NULL, !.prev = NULL, !.freed = TRUE]
                         ELSE ns[n]]

RemoveTailKept(l, n) == list[l].tail           \* mutant: the tail is not moved
RemovedTail(l, n) ==
    IF node[n].next = NULL THEN node[n].prev ELSE list[l].tail
list_remove_node(l, n) ==
    LET prev == node[n].prev
        next == node[n].next
    IN Reads(l, {n, prev, next},
        /\ node' = FreeNodes(SetPrev(SetNext(node, prev, next), next, prev), l, {n})
        /\ list' = [list EXCEPT ![l] =
                      [list[l] EXCEPT !.head = IF prev = NULL THEN next ELSE list[l].head,
                                      !.tail = RemovedTail(l, n),
                                      !.length = list[l].length - 1]]
        /\ Holds(l, RemoveAt(contents[l], Place(l, n)))
        /\ loose' = loose \ {n, next}
        /\ bent' = bent \cup IF n \in loose THEN {l} ELSE {}
        /\ UNCHANGED miscounted)

list_remove(l, data) ==
    /\ l \in Open \ bent
    /\ LET n == Find(l, {m \in DOMAIN node : node[m].data = data})
       IN IF n = NULL THEN UNCHANGED vars ELSE list_remove_node(l, n)

RemoveAllUncounted(l) == [Empty EXCEPT !.length = list[l].length]   \* mutant
RemovedAll(l) == [Empty EXCEPT !.length = list[l].length - Len(Walk(l))]
list_remove_all(l) ==
    /\ l \in Open
    /\ Reads(l, Range(Walk(l)),
        /\ node' = FreeNodes(node, l, Range(Walk(l)))
        /\ list' = [list EXCEPT ![l] = RemovedAll(l)]
        /\ Holds(l, <<>>)
        /\ bent' = bent \ {l}
        /\ miscounted' = miscounted \cup (bent \cap {l})
        /\ loose' = loose \ Range(Walk(l)))

\* list_remove_all, and the nodes' memory, also of those in other lists.
list_free(l) ==
    /\ l \in Open
    /\ Reads(l, Range(Walk(l)),
        /\ node' = FreeNodes(node, l, DOMAIN node)
        /\ list' = [list EXCEPT ![l] = Absent]
        /\ Holds(l, <<>>)
        /\ bent' = (bent \ {l}) \cup
              {m \in Open \ {l} : \E n \in Range(contents[m]) : node[n].mem_cache = l}
        /\ miscounted' = miscounted \ {l}
        /\ loose' = {n \in loose : node[n].mem_cache # l})

-----------------------------------------------------------------------------
\* The nodes stay in the memory cache of list2, and its length stays.
list_concat(list1, list2) ==
    LET l1 == list[list1]
        l2 == list[list2]
    IN /\ {list1, list2} \subseteq Open /\ list1 # list2 /\ miscounted = {}
       /\ l2.head # NULL
       /\ Reads(IF Freed({l1.tail}) THEN list1 ELSE list2,
                IF l1.head = NULL THEN {} ELSE {l1.tail, l2.head},
           /\ node' = IF l1.head = NULL THEN node
                      ELSE SetPrev(SetNext(node, l1.tail, l2.head), l2.head, l1.tail)
           /\ list' = [list EXCEPT
                ![list1] = IF l1.head = NULL THEN l2
                           ELSE [l2 EXCEPT !.head = l1.head,
                                           !.length = l1.length + l2.length],
                ![list2] = [l2 EXCEPT !.head = NULL, !.tail = NULL]]
           /\ contents' = [contents EXCEPT
                ![list1] = contents[list1] \o contents[list2], ![list2] = <<>>]
           /\ bent' = (bent \ {list2}) \cup IF list2 \in bent THEN {list1} ELSE {}
           /\ miscounted' =
                (IF l1.head = NULL THEN miscounted \ ({list1} \ bent) ELSE miscounted)
                \cup (bent \cap {list1})
                \cup {list2} \cup IF list2 \in miscounted THEN {list1} ELSE {}
           /\ UNCHANGED loose)

\* Only head and tail change places.
list_reverse(l) ==
    /\ l \in Open
    /\ list[l].head # NULL /\ list[l].length # 1
    /\ list' = [list EXCEPT ![l] = [list[l] EXCEPT !.head = list[l].tail,
                                                   !.tail = list[l].head]]
    /\ Holds(l, Reverse(contents[l]))
    /\ bent' = bent \cup IF list[l].head = list[l].tail THEN {} ELSE {l}
    /\ UNCHANGED <<node, fault, loose, miscounted>>

\* The length is copied, and then every node copied counts again.
list_duplicate(l, new_list) ==
    LET walk == Walk(l)
        copy(i) == Len(node) + i
        end == Len(walk)
    IN /\ l \in Open /\ new_list \notin Open /\ miscounted = {}
       /\ Len(node) + end <= MaxNodes
       /\ Reads(l, Range(walk),
           /\ node' = node \o [i \in 1 .. end |->
                Allocated(new_list, node[walk[i]].data,
                          IF i = end THEN NULL ELSE copy(i + 1),
                          IF i = 1 THEN NULL ELSE copy(i - 1))]
           /\ list' = [list EXCEPT ![new_list] =
                [Empty EXCEPT !.head = IF end = 0 THEN NULL ELSE copy(1),
                              !.tail = IF end = 0 THEN NULL ELSE copy(end),
                              !.length = list[l].length + end]]
           /\ Holds(new_list, [i \in 1 .. end |-> copy(i)])
           /\ bent' = bent \cup IF l \in bent THEN {new_list} ELSE {}
           /\ miscounted' = miscounted \cup IF list[l].length = 0 THEN {} ELSE {new_list}
           /\ UNCHANGED loose)

\* list_foreach and a list_find that finds nothing read every node.
list_foreach(l) ==
    /\ l \in Open
    /\ Reads(l, Range(Walk(l)), UNCHANGED <<node, list, contents, history>>)

Next ==
    /\ fault = NULL
    /\ \E l \in ListId :
         \/ list_new(l) \/ list_free(l) \/ list_remove_all(l)
         \/ list_reverse(l) \/ list_foreach(l)
         \/ \E m \in ListId : list_concat(l, m) \/ list_duplicate(l, m)
         \/ \E n \in Range(contents[l]) : list_remove_node(l, n)
         \/ \E data \in Data :
              \/ list_append(l, data) \/ list_append_unique(l, data)
              \/ list_prepend(l, data) \/ list_insert_sorted(l, data)
              \/ list_remove(l, data)
              \/ \E sibling \in Range(contents[l]) :
                    \/ list_insert_before(l, sibling, data)
                    \/ list_insert_after(l, sibling, data)

Spec == Init /\ [][Next]_vars

-----------------------------------------------------------------------------
\* What list.h promises of a list holds: the walk meets what was put in, in
\* that order, the tail is its last, and every prev is right but those that
\* list_prepend forgot; until such a node is removed or inserted before, a list
\* of several nodes is reversed, or list2 of a concatenation is freed.  A list
\* that is made of such a list by list_concat or list_duplicate is excepted too.
KeepsPromise ==
    \A l \in Open \ bent :
        LET seq == contents[l]
            at(i) == IF i \in DOMAIN seq THEN seq[i] ELSE NULL
        IN /\ Walk(l) = seq
           /\ list[l].tail = at(Len(seq))
           /\ \A i \in DOMAIN seq :
                 node[seq[i]].prev = IF seq[i] \in loose THEN NULL ELSE at(i - 1)

\* list_size is right unless the list was list2 of a concatenation, was made by
\* list_duplicate of a list that is not empty, took its nodes from such a list,
\* was bent when it was emptied or concatenated to, or is bent.
LengthExact ==
    \A l \in Open \ bent :
        l \notin miscounted => list[l].length = Len(contents[l])

\* No call reads a freed node of a list that is as it should be (not bent, see
\* KeepsPromise).
FreedNodesUnread == fault # NULL => fault \in bent

\* list.h of list_insert_sorted: a list to which data is only added by it is in
\* ascending order, for the new node goes before the first that is greater.
Ascending(seq, ns) ==
    \A i \in 1 .. Len(seq) - 1 : ns[seq[i]].data <= ns[seq[i + 1]].data
AscendingKept ==
    [][\A l \in Open \ bent, data \in Data :
          Ascending(contents[l], node) /\ list_insert_sorted(l, data)
             => Ascending(contents'[l], node')]_vars

\* What it keeps is the descending order, also of a list that other calls have
\* changed in between: the node goes before the first that is less.
Descending(seq, ns) ==
    \A i \in 1 .. Len(seq) - 1 : ns[seq[i]].data >= ns[seq[i + 1]].data
DescendingKept ==
    [][\A l \in Open \ bent, data \in Data :
          Descending(contents[l], node) /\ list_insert_sorted(l, data)
             => Descending(contents'[l], node')]_vars
=============================================================================
