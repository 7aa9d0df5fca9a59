------------------------------ MODULE Combiner ------------------------------
(***************************************************************************)
(* src/src/combiner.cpp: reads the prefixes of its input files into an     *)
(* interval tree, walks the tree to merge neighbours, and prints the       *)
(* prefixes that make up each merged interval.                             *)
(***************************************************************************)
EXTENDS IpMask, SegTree

CONSTANTS
    Text        \* the first words of the lines of the input files

VARIABLES
    tree,       \* seg_tree
    pc,         \* "read", "walk", "end", or killed by a null pointer: "killed"
                \* in the tree, "no_address" in strncpy
    at,         \* the node the walk has come to
    g_start, g_end,
    out,        \* the prefixes printed
    ip_seg      \* the interval of the last line

vars == <<tree, pc, at, g_start, g_end, out, ip_seg>>

MERGE_RATE == 100

Init ==
    /\ tree = NewTree
    /\ pc = "read" /\ at = NULL
    /\ g_start = 0 /\ g_end = 0
    /\ out = <<>>
    /\ ip_seg = <<0, 0>>

ReadLine(text) ==
    /\ pc = "read"
    /\ ip_seg' \in get_ip_seg_from_mask_str(text)
    /\ tree' = seg_tree_insert(tree, ip_seg')
    /\ pc' = IF ~Ignored(tree, ip_seg') /\ ReadsNull(tree, ip_seg') THEN "killed" ELSE pc
    /\ UNCHANGED <<at, g_start, g_end, out>>

\* Blank lines are skipped, lines of "/" are not.
ReadSlashes(text) ==
    /\ pc = "read"
    /\ text.ip = NOTHING
    /\ pc' = "no_address"
    /\ UNCHANGED <<tree, at, g_start, g_end, out, ip_seg>>

\* The files end: without an interval the program says so and stops.
EndOfInput ==
    /\ pc = "read"
    /\ at' = FirstNode(tree)
    /\ pc' = IF tree.nnodes = 0 THEN "end" ELSE "walk"
    /\ UNCHANGED <<tree, g_start, g_end, out, ip_seg>>

-----------------------------------------------------------------------------
\* output prints ip and mask, which stand for this block.
Printed(start, end) ==
    get_ip_seg_from_ip_mask(start, get_ip_mask_from_ip_seg(<<start, end>>))

\* calc_local: blocks that begin at start_ip grow while they lie within the
\* interval; pre is the last that did.
RECURSIVE Cut(_, _, _, _)
Cut(start_ip, end_ip, mask, pre) ==
    LET seg     == get_ip_seg_from_ip_mask(start_ip, mask)
        here    == (seg[2] - start_ip) % shl[Width]
        left    == (end_ip - start_ip) % shl[Width]
        overlap == IF left > here THEN here ELSE left
        start   == Succ(pre[2])
    IN IF mask < 0 THEN <<>>
       ELSE IF seg = <<start_ip, end_ip>> THEN <<Printed(start_ip, end_ip)>>
       ELSE IF (overlap * 100) \div (seg[2] - seg[1]) >= MERGE_RATE
       THEN Cut(start_ip, end_ip, mask - 1, seg)
       ELSE IF start = end_ip
       THEN <<Printed(pre[1], pre[2]), Printed(start, start)>>
       ELSE <<Printed(pre[1], pre[2])>> \o Cut(start, end_ip, Width - 1, seg)
calc_local(start, end) ==
    IF start = end THEN <<Printed(start, start)>>
    ELSE Cut(start, end, Width - 1, <<start, start>>)

\* calc, called for every node in order.
CalcNeighbours(seg) == g_end # 0 /\ seg[1] = g_end        \* mutant: off by one
Neighbours(seg) == g_end # 0 /\ seg[1] = Succ(g_end)
Calc ==
    /\ pc = "walk" /\ at # NULL
    /\ LET seg == tree.node[at].key IN
       /\ g_start' = IF Neighbours(seg) THEN g_start ELSE seg[1]
       /\ g_end' = seg[2]
       /\ out' = IF g_end = 0 \/ Neighbours(seg) THEN out
                 ELSE out \o calc_local(g_start, g_end)
    /\ at' = NextNode(tree, at)
    /\ UNCHANGED <<tree, pc, ip_seg>>

\* The last merged interval, after the walk.
Finish ==
    /\ pc = "walk" /\ at = NULL
    /\ out' = IF g_end = 0 THEN out ELSE out \o calc_local(g_start, g_end)
    /\ pc' = "end"
    /\ UNCHANGED <<tree, at, g_start, g_end, ip_seg>>

Next ==
    \/ \E text \in Text : ReadLine(text) \/ ReadSlashes(text)
    \/ EndOfInput
    \/ Calc
    \/ Finish

Spec == Init /\ [][Next]_vars

-----------------------------------------------------------------------------
Covered == Addresses(Segments(tree))

\* Whatever was inserted, also when segments were removed in the middle of the
\* tree, segments do not overlap, the walk meets all of them in ascending
\* order, and the tree is balanced and threaded.
SegmentsOrdered ==
    LET walk == Foreach(tree) IN
    /\ NodesReachable(tree) /\ BalancesRight(tree) /\ ThreadsRight(tree)
    /\ Len(walk) = Cardinality(DOMAIN tree.node)
    /\ \A i \in 1 .. Len(walk) - 1 :
          tree.node[walk[i]].key[2] < tree.node[walk[i + 1]].key[1]

\* A prefix adds its addresses, neither more nor less.  Only a prefix that
\* contains a segment stored earlier, and is not that segment, may fail to:
\* segments behind it are lost then, or it is not stored itself, or the
\* program is killed; even then no address appears that was not read.
InsertExact ==
    [][pc = "read" /\ pc' \in {"read", "killed"} =>
          LET exact == Covered \cup ip_seg'[1] .. ip_seg'[2]
          IN /\ Covered' \subseteq exact
             /\ \/ Covered' = exact /\ pc' = "read"
                \/ \E s \in Segments(tree) : Inside(s, ip_seg') /\ s # ip_seg']_vars

\* What is printed are the largest prefixes within the addresses of the tree,
\* each once, so that no shorter list says the same; but address 0 is lost
\* when it is a segment of its own, since g_end = 0 stands for no segment.
PrintsLargestPrefixes ==
    LET kept    == Covered \ IF <<0, 0>> \in Segments(tree) THEN {0} ELSE {}
        within  == {b \in Block : b[1] .. b[2] \subseteq kept}
        largest == {b \in within : \A c \in within : Inside(b, c) => b = c}
    IN pc = "end" => ToSet(out) = largest /\ Len(out) = Cardinality(largest)
=============================================================================
