------------------------------ MODULE AddrLists ------------------------------
(***************************************************************************)
(* The lists of addresses that analyzer loads before it reads the log      *)
(* (src/src/caches_maps.cpp): every address of w.list and b.list goes into *)
(* a hash table, one by one, and the intervals of a.list into a list that  *)
(* is searched for each address.                                           *)
(***************************************************************************)
EXTENDS IpMask, Sequences

CONSTANTS
    ListText,   \* the lines that occur in the files, texts of IpMask
    MaxSegs     \* bound: intervals of a.list

ASSUME TextAssumption ==
    \A text \in ListText : /\ text.ip \in Word \cup {MISSING, NOTHING}
                           /\ text.mask \in Int \cup {MISSING}

VARIABLES
    loading,    \* the file that is being read: "w", "b", "a", or "done";
                \* "killed" when strncpy was given a null pointer
    looping,    \* build_wb_list is going over the addresses of ipseg
    ipseg, ip,  \* its locals
    wb_list_map,    \* the keys of the table
    a_list,
    wb_named, a_named,  \* history: the addresses that the lines read stand for
    wb_sure, a_sure     \* history: those of lines read without reading garbage

lineHistory == <<wb_named, a_named, wb_sure, a_sure>>
listsVars == <<loading, looping, ipseg, ip, wb_list_map, a_list, lineHistory>>

ListsInit ==
    /\ loading = "w" /\ looping = FALSE
    /\ ipseg = <<0, 0>> /\ ip = 0
    /\ wb_list_map = {} /\ a_list = <<>>
    /\ wb_named = {} /\ a_named = {} /\ wb_sure = {} /\ a_sure = {}

\* What a line is to say: the addresses that agree with it in the first mask
\* bits.  A line that is malformed says nothing, nor does 0.0.0.0/32.
Named(text) ==
    LET mask == MaskOf(text) IN
    IF text.ip \in {MISSING, NOTHING} \/ mask \notin 0 .. Width
       \/ (text.ip = 0 /\ mask = Width)
    THEN {}
    ELSE {x \in Word : x \div BlockSize(mask) = text.ip \div BlockSize(mask)}
Sure(text) == IF text.ip \in Long THEN {} ELSE Named(text)

SkippedStart(seg) == seg[1] = 0         \* mutant: looks at the wrong end
Skipped(seg) == seg[2] = 0

\* build_wb_list: a line, and one round of its loop after another.
ReadWBLine(text) ==
    /\ loading \in {"w", "b"} /\ ~looping
    /\ ipseg' \in get_ip_seg_from_mask_str(text)
    /\ ip' = ipseg'[1]
    /\ looping' = ~Skipped(ipseg')
    /\ wb_named' = wb_named \cup Named(text)
    /\ wb_sure' = wb_sure \cup Sure(text)
    /\ UNCHANGED <<loading, wb_list_map, a_list, a_named, a_sure>>

InRangeStart(seg, x) == x >= seg[1]     \* mutant: compares with the wrong end
InRange(seg, x) == x <= seg[2]
InsertAddress ==
    /\ looping
    /\ wb_list_map' = wb_list_map \cup {ip}
    /\ ip' = Succ(ip)
    /\ looping' = InRange(ipseg, ip')
    /\ UNCHANGED <<loading, ipseg, a_list, lineHistory>>

\* build_a_list
ReadALine(text) ==
    /\ loading = "a"
    /\ Len(a_list) < MaxSegs
    /\ \E seg \in get_ip_seg_from_mask_str(text) :
          a_list' = IF Skipped(seg) THEN a_list ELSE Append(a_list, seg)
    /\ a_named' = a_named \cup Named(text)
    /\ a_sure' = a_sure \cup Sure(text)
    /\ UNCHANGED <<loading, looping, ipseg, ip, wb_list_map, wb_named, wb_sure>>

\* A line without an address, a blank one among them, is passed on like any
\* other, and ends the program.
ReadNothing(text) ==
    /\ loading \in {"w", "b", "a"} /\ ~looping
    /\ text.ip = NOTHING
    /\ loading' = "killed"
    /\ UNCHANGED <<looping, ipseg, ip, wb_list_map, a_list, lineHistory>>

\* A file ends, or is absent.
NextFile ==
    /\ ~looping
    /\ loading \in {"w", "b", "a"}
    /\ loading' = CASE loading = "w" -> "b" [] loading = "b" -> "a"
                    [] loading = "a" -> "done"
    /\ UNCHANGED <<looping, ipseg, ip, wb_list_map, a_list, lineHistory>>

ListsNext ==
    \/ \E text \in ListText : ReadWBLine(text) \/ ReadALine(text) \/ ReadNothing(text)
    \/ InsertAddress
    \/ NextFile

\* The program runs on in its loop.
ListsFairness == WF_listsVars(InsertAddress)
ListsSpec == ListsInit /\ [][ListsNext]_listsVars /\ ListsFairness

-----------------------------------------------------------------------------
ip_in_wb_list(x) == x \in wb_list_map

\* list_find with ipseg_compare, which is 0 within the interval.
ip_in_a_list(x) == \E i \in DOMAIN a_list : a_list[i][1] <= x /\ x <= a_list[i][2]

\* Between two lines, after loading, and when a line without an address has
\* killed the program, the two look-ups know no address that no line stands
\* for, and every address of a line whose own is shorter than fifteen
\* characters, however blocks overlap.  A line with a longer one is taken or
\* refused, as the stack has it.
ListsExact ==
    ~looping => \A x \in Word :
        /\ (x \in wb_sure => ip_in_wb_list(x)) /\ (ip_in_wb_list(x) => x \in wb_named)
        /\ (x \in a_sure => ip_in_a_list(x)) /\ (ip_in_a_list(x) => x \in a_named)

\* The loop over the addresses of a line of w.list or b.list ends, unless the
\* last of them is the last address there is: the counter wraps and the loop
\* goes on for ever.
LoadingEnds == looping ~> ~looping \/ ipseg[2] = Top
=============================================================================
