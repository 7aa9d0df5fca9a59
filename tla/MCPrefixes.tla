----------------------------- MODULE MCPrefixes -----------------------------
(* TLC instance of the two readers of prefixes, Combiner and AddrLists: one *)
(* of the two programs runs.                                                *)
EXTENDS Combiner, AddrLists

TextOf(ip0, mask) == [ip |-> ip0, mask |-> mask]

\* Every block once, written with its first address; an address within its
\* block, without a mask and with one that is too long; a line that is not an
\* address, and one without any.
MCText ==
    {TextOf(b[1], get_ip_mask_from_ip_seg(b)) : b \in Block}
    \cup {TextOf(Top - 2, 1), TextOf(Top, MISSING), TextOf(3, Width + 1),
          TextOf(MISSING, MISSING), TextOf(NOTHING, MISSING)}
\* Fewer for the lists, which remember what they read.
MCListText == {text \in MCText : text.ip \in {0, 3, 5, Top, MISSING, NOTHING}}

VARIABLE program
MCInit == program \in {"combiner", "analyzer"} /\ Init /\ ListsInit
MCNext ==
    /\ \/ program = "combiner" /\ Next /\ UNCHANGED listsVars
       \/ program = "analyzer" /\ ListsNext /\ UNCHANGED vars
    /\ UNCHANGED program
MCSpec == MCInit /\ [][MCNext]_<<vars, listsVars, program>> /\ ListsFairness
=============================================================================
