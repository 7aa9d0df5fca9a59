------------------------------ MODULE Analyzer ------------------------------
(***************************************************************************)
(* src/src/analyzer.cpp run again and again in one directory: each run     *)
(* loads the four lists into the record maps (clist_parser.cpp,            *)
(* caches_maps.cpp), adds the lines of a connection log to them, and       *)
(* replaces the lists, keeping the old ones as .orig until all four are    *)
(* written.  The process may be killed at any point, and every call on a   *)
(* file may fail.  Lists have their default names, as in the scripts.  A   *)
(* list is named by its port type.                                         *)
(***************************************************************************)
EXTENDS NatLog, Touch, FiniteSets

CONSTANTS
    Addr,
    Line,           \* the lines that occur in connection logs
    WBList,         \* the addresses of w.list and b.list
    Answer,         \* of each address to connect, see is_addr_reachable
    TimeoutOption,  \* arguments of -o in milliseconds, ABSENT if not given
    MAX_LINE_COUNT,
    MaxRuns,        \* bound: runs of the program
    MaxFaults,      \* bound: kills, and calls on files that fail silently
    ABSENT

ASSUME PeerAssumption ==
    /\ Answer \in [Addr -> Nat \cup {NEVER}]
    /\ \A line \in Line : {line.src, line.dst} \subseteq Addr
ASSUME OptionAssumption == TimeoutOption \subseteq Nat \cup {ABSENT}
ASSUME TrafficAssumption == \A line \in Line : TrafficOf(line) \in Nat

\* A list is a function from addresses to what a line of it says.
Entry == [mb : Nat, count : Nat, flag : SUBSET Nat]
ASSUME AbsentAssumption == \A S \in SUBSET Addr : ABSENT \notin [S -> Entry]

VARIABLES
    file, orig,       \* the lists and their .orig, ABSENT or [address -> entry]
    map,              \* the record maps, [type -> [address -> record]]
    pc, step,         \* where main is, and how many lists it has dealt with
    timeout_value,
    line_count,
    runs, faults,
    unbacked,         \* lists that this run could not rename to .orig,
    unrestored,       \* those it could not rename back or was killed over
    fresh,            \* the sum of the lines this run has kept, by address
    committed,        \* the lists as of the last time all four were written
    total, outputs,   \* the sum of the lines, and the runs, that went into them
    spoilt,           \* lists that were written in part by the last output that
                      \* counted as complete, or were out of their place by a
                      \* fault when the program was started again
    harm              \* "done" once there was such a list, else "safe"

counters == <<runs, faults>>
unmoved == <<unbacked, unrestored>>
history == <<committed, total, outputs, spoilt, harm>>
vars == <<file, orig, map, pc, step, timeout_value, line_count, runs, faults,
          unbacked, unrestored, fresh, committed, total, outputs, spoilt, harm>>

NoRecord == [count |-> 0, bytes |-> 0, flag |-> {}]
RecordAt(m, a) == IF a \in DOMAIN m THEN m[a] ELSE NoRecord
NoLines == [a \in Addr |-> NoRecord]
Added(m, a, rec) ==
    [x \in DOMAIN m \cup {a} |-> IF x = a THEN Sum(RecordAt(m, a), rec) ELSE m[x]]

BackupOrder == <<"ALL", "80", "443", "8080">>
DumpOrder == <<"80", "443", "8080", "ALL">>

Init ==
    /\ file = [l \in Types |-> ABSENT]
    /\ orig = [l \in Types |-> ABSENT]
    /\ map = [t \in Types |-> <<>>]
    /\ pc = "idle" /\ step = 1
    /\ timeout_value = 0
    /\ line_count = 0
    /\ runs = 0 /\ faults = 0 /\ unbacked = {} /\ unrestored = {}
    /\ committed = file
    /\ fresh = NoLines
    /\ total = NoLines
    /\ outputs = 0
    /\ spoilt = {} /\ harm = "safe"

Harm == harm' = IF spoilt' = {} THEN harm ELSE "done"

\* A process ends.
Exit ==
    /\ pc' = "idle"
    /\ step' = 1
    /\ map' = [t \in Types |-> <<>>]
    /\ line_count' = 0
    /\ fresh' = NoLines

-----------------------------------------------------------------------------
\* main up to check_files: an absent list is created empty.
CheckFiles(option) ==
    /\ pc = "idle"
    /\ runs < MaxRuns
    /\ runs' = runs + 1
    /\ timeout_value' = IF option = ABSENT THEN 0 ELSE option
    /\ file' = [l \in Types |-> IF file[l] = ABSENT THEN <<>> ELSE file[l]]
    /\ committed' = [l \in Types |-> IF committed[l] = ABSENT THEN file'[l]
                                     ELSE committed[l]]
    /\ spoilt' = spoilt \cup {l \in unbacked \cup unrestored :
                               committed[l] \notin {ABSENT, file[l]}}
    /\ Harm
    /\ pc' = "build"
    /\ unbacked' = {} /\ unrestored' = {}
    /\ UNCHANGED <<orig, map, step, line_count, faults, fresh, total, outputs>>

\* build_map_from_c_list of the four lists.
BuildMaps ==
    /\ pc = "build"
    /\ map' = [t \in Types |-> [a \in DOMAIN file[t] |-> ReadBack(file[t][a])]]
    /\ pc' = "log"
    /\ UNCHANGED <<file, orig, step, timeout_value, line_count, counters, unmoved,
                   fresh, history>>

\* A file cannot be opened: exit(-1) before anything was renamed.
GiveUp ==
    /\ pc \in {"build", "log"}
    /\ line_count = 0
    /\ Exit
    /\ UNCHANGED <<file, orig, timeout_value, counters, unmoved, history>>

\* The peer is asked for the three web ports only, and if there is a time-out.
WantedAnyway(line) ==         \* mutant: the answer does not count
    IsRelevant(line) /\ Foreign(line) \notin WBList
Wanted(line) ==
    /\ IsRelevant(line)
    /\ Foreign(line) \notin WBList
    /\ timeout_value # 0 /\ TypeOf(line) \in TcpTypes
          => is_addr_reachable(Answer[Foreign(line)], timeout_value)

\* One round of process_logfile, of a line that is kept or ignored.
ProcessLineTypeOnly(line) ==  \* mutant: the common map is forgotten
    /\ pc = "log"
    /\ line_count + 1 < MAX_LINE_COUNT
    /\ line_count' = line_count + 1
    /\ IF Wanted(line)
       THEN LET a == Foreign(line) IN
            /\ map' = [map EXCEPT ![TypeOf(line)] = Added(@, a, RecordOf(line))]
            /\ fresh' = [fresh EXCEPT ![a] = Sum(@, RecordOf(line))]
       ELSE UNCHANGED <<map, fresh>>
    /\ UNCHANGED <<file, orig, pc, step, timeout_value, counters, unmoved, history>>
ProcessLine(line) ==
    /\ pc = "log"
    /\ line_count + 1 < MAX_LINE_COUNT
    /\ line_count' = line_count + 1
    /\ IF Wanted(line)
       THEN LET a == Foreign(line) IN
            /\ map' = [t \in Types |-> IF t \in {TypeOf(line), "ALL"}
                                       THEN Added(map[t], a, RecordOf(line))
                                       ELSE map[t]]
            /\ fresh' = [fresh EXCEPT ![a] = Sum(@, RecordOf(line))]
       ELSE UNCHANGED <<map, fresh>>
    /\ UNCHANGED <<file, orig, pc, step, timeout_value, counters, unmoved, history>>

\* The log ends, or is longer than MAX_LINE_COUNT.
EndOfLog ==
    /\ pc = "log"
    /\ pc' = "backup"
    /\ UNCHANGED <<file, orig, map, step, timeout_value, line_count, counters,
                   unmoved, fresh, history>>

-----------------------------------------------------------------------------
\* output, one system call at a time.  After the last list comes the phase next.
Proceed(next) ==
    IF step < 4 THEN step' = step + 1 /\ UNCHANGED pc
                ELSE step' = 1 /\ pc' = next

Backup(l) ==
    IF file[l] = ABSENT THEN UNCHANGED <<file, orig>>
    ELSE /\ orig' = [orig EXCEPT ![l] = file[l]]
         /\ file' = [file EXCEPT ![l] = ABSENT]
BackupStep ==
    /\ pc = "backup"
    /\ Backup(BackupOrder[step])
    /\ Proceed("dump")
    /\ UNCHANGED <<map, timeout_value, line_count, counters, unmoved, fresh, history>>

\* The results of the renames and removals are ignored.
Fault == faults < MaxFaults /\ faults' = faults + 1
BackupFails ==
    /\ pc = "backup" /\ Fault
    /\ unbacked' = unbacked \cup {BackupOrder[step]}
    /\ Proceed("dump")
    /\ UNCHANGED <<file, orig, map, timeout_value, line_count, runs, unrestored,
                   fresh, history>>

\* dump_list of a list that can be opened: every record, in the order of
\* sort_list (see TopN), greatest traffic first (ip_compare), of which only a
\* kill in between shows, or a disk that gets full: dump_record stops the
\* traversal, and dump_list reports success.
Dumped(m) == [a \in DOMAIN m |-> Written(m[a])]
Greater(r, s) == r.bytes > s.bytes \/ (r.bytes = s.bytes /\ r.count > s.count)
CutShort(m) ==
    {Dumped(Restrict(m, S)) : S \in
        {S \in SUBSET DOMAIN m :
            \A a \in S, b \in DOMAIN m \ S : ~Greater(m[b], m[a])}}

Write(content) ==
    /\ file' = [file EXCEPT ![DumpOrder[step]] = content]
    /\ Proceed("commit")
    /\ IF step < 4 THEN UNCHANGED <<committed, total, outputs>>
       ELSE /\ committed' = [t \in Types |-> Dumped(map[t])]
            /\ total' = [a \in Addr |-> Sum(total[a], fresh[a])]
            /\ outputs' = outputs + 1
    /\ spoilt' = IF step = 4 THEN {l \in Types : file'[l] # committed'[l]} ELSE spoilt
    /\ Harm
    /\ UNCHANGED <<orig, map, timeout_value, line_count, runs, unmoved, fresh>>
DumpStep ==
    /\ pc = "dump"
    /\ Write(Dumped(map[DumpOrder[step]]))
    /\ UNCHANGED faults
DumpShort ==
    /\ pc = "dump" /\ Fault
    /\ \E content \in CutShort(map[DumpOrder[step]]) : Write(content)

\* dump_list fails to open the list; the lists after it are not tried.
DumpFailsGivingUp ==          \* mutant: the old lists are not brought back
    /\ pc = "dump"
    /\ Exit
    /\ UNCHANGED <<file, orig, timeout_value, counters, unmoved, history>>
DumpFails ==
    /\ pc = "dump"
    /\ pc' = "restore" /\ step' = 1
    /\ UNCHANGED <<file, orig, map, timeout_value, line_count, counters, unmoved,
                   fresh, history>>

\* After the last list the program exits.
NextOrExit ==
    IF step < 4 THEN step' = step + 1 /\ UNCHANGED <<pc, map, line_count, fresh>>
    ELSE Exit

\* The .orig of one list is removed.
CommitStep ==
    /\ pc = "commit"
    /\ orig' = [orig EXCEPT ![BackupOrder[step]] = ABSENT]
    /\ NextOrExit
    /\ UNCHANGED <<file, timeout_value, counters, unmoved, history>>

\* rename back; what the lines of this run added was in vain.
RestoreMissing(l) ==          \* mutant: a list that was rewritten is kept
    IF orig[l] = ABSENT \/ file[l] # ABSENT THEN UNCHANGED <<file, orig>>
    ELSE /\ file' = [file EXCEPT ![l] = orig[l]]
         /\ orig' = [orig EXCEPT ![l] = ABSENT]
Restore(l) ==
    IF orig[l] = ABSENT THEN UNCHANGED <<file, orig>>
    ELSE /\ file' = [file EXCEPT ![l] = orig[l]]
         /\ orig' = [orig EXCEPT ![l] = ABSENT]
RestoreStep ==
    /\ pc = "restore"
    /\ Restore(BackupOrder[step])
    /\ NextOrExit
    /\ UNCHANGED <<timeout_value, counters, unmoved, history>>

\* A removal, or a rename back, that fails.
CallFails ==
    /\ pc \in {"commit", "restore"} /\ Fault
    /\ unrestored' = unrestored \cup IF pc = "restore" THEN {BackupOrder[step]} ELSE {}
    /\ NextOrExit
    /\ UNCHANGED <<file, orig, timeout_value, runs, unbacked, history>>

\* The process is killed.  A list being written then has some of its records.
Crash ==
    /\ pc # "idle" /\ Fault
    /\ \/ UNCHANGED file
       \/ /\ pc = "dump"
          /\ \E content \in CutShort(map[DumpOrder[step]]) :
                file' = [file EXCEPT ![DumpOrder[step]] = content]
    /\ unrestored' = {l \in Types : committed[l] \notin {ABSENT, file'[l]}}
    /\ Exit
    /\ UNCHANGED <<orig, timeout_value, runs, unbacked, history>>

Next ==
    \/ \E option \in TimeoutOption : CheckFiles(option)
    \/ BuildMaps
    \/ GiveUp
    \/ \E line \in Line : ProcessLine(line)
    \/ EndOfLog
    \/ BackupStep \/ BackupFails
    \/ DumpStep \/ DumpShort \/ DumpFails
    \/ CommitStep
    \/ RestoreStep
    \/ CallFails
    \/ Crash

Spec == Init /\ [][Next]_vars

-----------------------------------------------------------------------------
\* Every list that was once complete exists, under its own name or as .orig:
\* through renames, writes, removals, failing calls and the kill itself, and
\* whatever has become of the other lists.  Three things only are beyond it: a
\* list that could not be renamed is rewritten in its place; a list was not
\* written to its end, and counted as if it were; and a list that a fault had
\* left out of its place when the program was started again, which rewrites it;
\* the latter two until the next output that is complete.
NothingLost ==
    \A l \in Types \ (unbacked \cup spoilt) :
        committed[l] # ABSENT => committed[l] \in {file[l], orig[l]}

\* An output that fails leaves every list as if the program had not run, but
\* for those that could not be renamed; a .orig left by an earlier run, which
\* was killed while it removed them, does not come back.  Said
\* of runs in which, as in those before, no list was spoilt.
FailureRestores ==
    [][harm = "safe" /\ pc = "restore" /\ pc' = "idle" /\ faults' = faults =>
          \A l \in Types \ (unbacked \cup unrestored) :
              file'[l] = committed[l] /\ orig'[l] = ABSENT]_vars

\* A peer whose web port did not answer within the time-out (below a second;
\* of longer ones the whole seconds are waited twice) is not entered in the list
\* of that port.
Deadline(ms) == 1000 * ms + 1000000 * (ms \div 1000)
PeersAnswered ==
    pc = "log" /\ timeout_value # 0 =>
        \A t \in TcpTypes : \A a \in DOMAIN map[t] \ DOMAIN file[t] :
            Answer[a] # NEVER /\ Answer[a] < Deadline(timeout_value)

\* However often it is loaded, added to and written, and while no list was
\* spoilt, the common list counts every connection once, and of the traffic of
\* an address less than one megabyte is lost with each rewriting.
HistoryAccounted ==
    harm = "safe" /\ outputs > 0 =>
        \A a \in Addr :
            IF a \notin DOMAIN committed["ALL"] THEN total[a].count = 0
            ELSE LET e == committed["ALL"][a] IN
                 /\ e.count = total[a].count
                 /\ e.mb * BytesPerMB <= total[a].bytes
                 /\ total[a].bytes < e.mb * BytesPerMB + outputs * BytesPerMB

\* What the lists of single ports say of an address never adds up to more than
\* the common list says, although each list is cut to megabytes by itself, while
\* none was spoilt.
PortSum(m, a) ==
    LET at(type) == RecordAt(m[type], a)
    IN [count |-> at("80").count + at("443").count + at("8080").count,
        bytes |-> at("80").bytes + at("443").bytes + at("8080").bytes]
CommonDominates ==
    harm = "safe" =>
        \A a \in Addr :
            /\ PortSum(map, a).count <= RecordAt(map["ALL"], a).count
            /\ PortSum(map, a).bytes <= RecordAt(map["ALL"], a).bytes

\* parse_c_list's comment on the field: it indicates TCP or UDP.
FlagIsProtocol ==
    \A t \in Types : \A a \in DOMAIN map[t] :
        map[t][a].flag \in {PROTOCOL_TCP, PROTOCOL_UDP, PROTOCOL_TCP \cup PROTOCOL_UDP}
=============================================================================
