--------------------------- MODULE AnalyzerProofs ---------------------------
(***************************************************************************)
(* Safety of the analyzer for any addresses, lines, time-outs and answers, *)
(* and for any number of runs, kills and failing calls; and, below, that   *)
(* the lists of addresses that analyzer loads say what their lines do, for *)
(* addresses of any width.                                                 *)
(***************************************************************************)
EXTENDS Analyzer, AddrLists, Numbers, TLAPS

(***************************************************************************)
(* The wait for a peer.                                                    *)
(***************************************************************************)

\* However long the time-out, select waits for no more than it and its seconds.
LEMMA WaitBounded ==
    ASSUME NEW t \in Nat
    PROVE  Wait(t) \in Nat /\ Wait(t) <= Deadline(t)
<1>1. t \div 1000 \in Nat
  OBVIOUS
<1>2. (1000 * t) % UINT_LIMIT \in Nat /\ (1000 * t) % UINT_LIMIT <= 1000 * t
  <2> DEFINE n == 1000 * t
  <2>1. n \in Nat
    OBVIOUS
  <2> HIDE DEF n
  <2>2. n % UINT_LIMIT \in Nat /\ n % UINT_LIMIT <= n
    BY <2>1, LimitAssumption
  <2> QED
    BY <2>2 DEF n
<1> QED
  BY <1>1, <1>2 DEF Wait, Deadline

\* A time-out that fits into 32 bits as microseconds is waited for in full, and
\* at most twice; one below a second exactly.
THEOREM WaitInFull ==
    ASSUME NEW t \in Nat, 1000 * t < UINT_LIMIT
    PROVE  /\ 1000 * t <= Wait(t) /\ Wait(t) <= 2000 * t
           /\ t < 1000 => Wait(t) = 1000 * t
<1>1. t \div 1000 \in Nat /\ 1000 * (t \div 1000) <= t /\ (t < 1000 => t \div 1000 = 0)
  OBVIOUS
<1>2. (1000 * t) % UINT_LIMIT = 1000 * t
  BY LimitAssumption
<1> QED
  BY <1>1, <1>2 DEF Wait

(***************************************************************************)
(* Peers that are not reached.                                             *)
(***************************************************************************)

\* The maps, and the time-out once main has read its options.
Shapes ==
    /\ DOMAIN map = Types /\ DOMAIN file = Types /\ DOMAIN orig = Types
    /\ timeout_value \in Nat
    /\ step \in 1 .. 4

LEMMA ShapesInit == Init => Shapes
BY DEF Init, Shapes

LEMMA ShapesStep == Shapes /\ [Next]_vars => Shapes'
<1> SUFFICES ASSUME Shapes, [Next]_vars PROVE Shapes'
  OBVIOUS
<1> USE DEF Shapes, Exit, Proceed, NextOrExit, counters, unmoved, history
<1>1. CASE \E option \in TimeoutOption : CheckFiles(option)
  BY <1>1, OptionAssumption DEF CheckFiles
<1>2. CASE BuildMaps
  BY <1>2 DEF BuildMaps
<1>3. CASE GiveUp
  BY <1>3 DEF GiveUp
<1>4. CASE \E line \in Line : ProcessLine(line)
  BY <1>4 DEF ProcessLine
<1>5. CASE EndOfLog
  BY <1>5 DEF EndOfLog
<1>6. CASE BackupStep
  BY <1>6 DEF BackupStep, Backup
<1>7. CASE BackupFails
  BY <1>7 DEF BackupFails
<1>8. CASE DumpStep
  BY <1>8 DEF DumpStep, Write
<1>9. CASE DumpShort
  BY <1>9 DEF DumpShort, Write
<1>10. CASE DumpFails
  BY <1>10 DEF DumpFails
<1>11. CASE CommitStep
  BY <1>11 DEF CommitStep
<1>12. CASE RestoreStep
  BY <1>12 DEF RestoreStep, Restore
<1>13. CASE CallFails
  BY <1>13 DEF CallFails
<1>14. CASE Crash
  BY <1>14 DEF Crash
<1>15. CASE UNCHANGED vars
  BY <1>15 DEF vars
<1> QED
  BY <1>1, <1>2, <1>3, <1>4, <1>5, <1>6, <1>7, <1>8, <1>9, <1>10, <1>11, <1>12, <1>13,
     <1>14, <1>15 DEF Next

\* The line of an address whose peer must answer is kept only if it does.
LEMMA WantedAnswered ==
    ASSUME Shapes, NEW line \in Line, Wanted(line), timeout_value # 0,
           TypeOf(line) \in TcpTypes
    PROVE  LET a == Foreign(line) IN
           Answer[a] # NEVER /\ Answer[a] < Deadline(timeout_value)
<1> DEFINE a == Foreign(line)
<1>1. a \in Addr
  BY PeerAssumption DEF Foreign
<1>2. is_addr_reachable(Answer[a], timeout_value)
  BY DEF Wanted
<1>3. Answer[a] # NEVER /\ Answer[a] \in Nat
  BY <1>1, <1>2, PeerAssumption DEF is_addr_reachable
<1>4. Wait(timeout_value) \in Nat /\ Wait(timeout_value) <= Deadline(timeout_value)
  BY WaitBounded DEF Shapes
<1>5. timeout_value \in Nat \ {0} /\ Deadline(timeout_value) \in Nat \ {0}
  <2>1. timeout_value \in Nat \ {0}
    BY DEF Shapes
  <2>2. timeout_value \div 1000 \in Nat
    BY <2>1
  <2> QED
    BY <2>1, <2>2 DEF Deadline
<1>6. Answer[a] < Deadline(timeout_value)
  BY <1>2, <1>3, <1>4, <1>5 DEF is_addr_reachable
<1> QED
  BY <1>3, <1>6

LEMMA PeersStep == Shapes /\ PeersAnswered /\ [Next]_vars => PeersAnswered'
<1> SUFFICES ASSUME Shapes, PeersAnswered, [Next]_vars, pc' = "log", timeout_value' # 0,
                    NEW t \in TcpTypes, NEW a \in DOMAIN map'[t] \ DOMAIN file'[t]
             PROVE  Answer[a] # NEVER /\ Answer[a] < Deadline(timeout_value')
  BY DEF PeersAnswered
<1>1. CASE BuildMaps
  BY <1>1 DEF BuildMaps, TcpTypes
<1>2. ASSUME NEW line \in Line, ProcessLine(line)
      PROVE  Answer[a] # NEVER /\ Answer[a] < Deadline(timeout_value')
  <2>1. UNCHANGED <<file, timeout_value, pc>> /\ timeout_value # 0 /\ pc = "log"
    BY <1>2 DEF ProcessLine
  <2>2. CASE a \in DOMAIN map[t]
    BY <2>1, <2>2 DEF PeersAnswered
  <2>3. CASE a \notin DOMAIN map[t]
    <3>1. Wanted(line) /\ t = TypeOf(line) /\ a = Foreign(line)
      <4>1. Wanted(line)
        BY <1>2, <2>3 DEF ProcessLine
      <4> DEFINE b == Foreign(line)
      <4>2. map'[t] = IF t = TypeOf(line) THEN Added(map[t], b, RecordOf(line)) ELSE map[t]
        BY <1>2, <4>1 DEF ProcessLine, TcpTypes
      <4>3. DOMAIN Added(map[t], b, RecordOf(line)) = DOMAIN map[t] \cup {b}
        BY DEF Added
      <4> QED
        BY <2>3, <4>1, <4>2, <4>3
    <3> QED
      BY <2>1, <3>1, WantedAnswered
  <2> QED
    BY <2>2, <2>3
<1>3. CASE UNCHANGED <<pc, map, file, timeout_value>>
  BY <1>3 DEF PeersAnswered
<1>4. BuildMaps \/ (\E line \in Line : ProcessLine(line)) \/ UNCHANGED vars
  BY DEF Next, CheckFiles, GiveUp, EndOfLog, BackupStep, BackupFails, DumpStep, DumpShort,
         DumpFails, CommitStep, RestoreStep, CallFails, Crash, Write, Exit, Proceed,
         NextOrExit
<1> QED
  BY <1>1, <1>2, <1>3, <1>4 DEF vars

\* touch.cpp and process_logfile: the record of a peer that did not answer
\* before the deadline of its time-out is not made, for any time-out and any log.
THEOREM UnansweredLeftOut == Spec => []PeersAnswered
<1>1. Init => PeersAnswered
  BY DEF Init, PeersAnswered
<1> QED
  BY <1>1, ShapesInit, ShapesStep, PeersStep, PTL DEF Spec

(***************************************************************************)
(* The lists through output.                                               *)
(***************************************************************************)

InPlace(l) == committed[l] \in {ABSENT, file[l]}
Kept(l) == committed[l] \in {ABSENT, orig[l]}
Dealt(l) == \E i \in 1 .. step - 1 : BackupOrder[i] = l

\* Where list l as of the last complete output is, in each phase of main.
Placed(l) ==
    /\ pc = "idle" /\ l \notin unbacked \cup unrestored => InPlace(l)
    /\ pc = "idle" /\ l \in unrestored \ unbacked => InPlace(l) \/ Kept(l)
    /\ pc \in {"build", "log", "commit"} => InPlace(l)
    /\ pc = "backup" => IF Dealt(l) THEN l \in unbacked \/ Kept(l) ELSE InPlace(l)
    /\ pc = "dump" => l \in unbacked \/ Kept(l)
    /\ pc = "restore" =>
          \/ l \in unbacked
          \/ IF Dealt(l) THEN InPlace(l) \/ (l \in unrestored /\ Kept(l)) ELSE Kept(l)
ListsPlaced ==
    /\ \A l \in Types \ spoilt : Placed(l)
    /\ harm = "safe" => spoilt = {}

Phases == {"idle", "build", "log", "backup", "dump", "commit", "restore"}
PhaseOK == pc \in Phases /\ (pc \in {"idle", "build", "log"} => step = 1)
FilesInv == Shapes /\ PhaseOK /\ ListsPlaced

LEMMA PhasesStep == Shapes /\ PhaseOK /\ [Next]_vars => PhaseOK'
BY DEF PhaseOK, Phases, Next, vars, CheckFiles, BuildMaps, GiveUp, ProcessLine, EndOfLog, BackupStep,
       BackupFails, DumpStep, DumpShort, DumpFails, CommitStep, RestoreStep, CallFails,
       Crash, Write, Exit, Proceed, NextOrExit

\* The order in which lists are renamed reaches every list.
LEMMA OrderComplete ==
    /\ \A i \in 1 .. 4 : BackupOrder[i] \in Types /\ DumpOrder[i] \in Types
    /\ \A l \in Types : \E i \in 1 .. 4 : BackupOrder[i] = l
BY DEF BackupOrder, DumpOrder, Types

\* How far a phase has got when it goes on to the next list, or is done.
LEMMA DealtNext ==
    ASSUME Shapes, NEW l \in Types
    PROVE  /\ step < 4 /\ step' = step + 1 => (Dealt(l)' <=> Dealt(l) \/ l = BackupOrder[step])
           /\ step = 4 => (Dealt(l) \/ l = BackupOrder[step])
           /\ step' = 1 => ~Dealt(l)'
<1>1. step \in 1 .. 4
  BY DEF Shapes
<1>2. ASSUME step < 4, step' = step + 1
      PROVE  Dealt(l)' <=> Dealt(l) \/ l = BackupOrder[step]
  <2>1. 1 .. step' - 1 = (1 .. step - 1) \cup {step}
    BY <1>1, <1>2
  <2> QED
    BY <2>1 DEF Dealt
<1>3. ASSUME step = 4
      PROVE  Dealt(l) \/ l = BackupOrder[step]
  <2>1. \A i \in 1 .. 4 : i \in 1 .. step - 1 \/ i = step
    BY <1>3
  <2> QED
    BY <2>1, OrderComplete DEF Dealt
<1>4. step' = 1 => ~Dealt(l)'
  BY DEF Dealt
<1> QED
  BY <1>2, <1>3, <1>4

\* A new run begins with a list in its place, or spoils it.
LEMMA CheckFilesPlaced ==
    ASSUME FilesInv, NEW option, CheckFiles(option), NEW l \in Types \ spoilt'
    PROVE  Placed(l)'
<1>1. Placed(l) /\ pc = "idle" /\ pc' = "build"
  BY DEF CheckFiles, FilesInv, ListsPlaced
<1>2. l \in unbacked \cup unrestored => InPlace(l)
  BY <1>1 DEF CheckFiles, InPlace
<1>3. InPlace(l)
  BY <1>1, <1>2 DEF Placed
<1>4. InPlace(l)'
  BY <1>3 DEF InPlace, CheckFiles
<1> QED
  BY <1>1, <1>4 DEF Placed

\* Renaming the lists leaves those it has dealt with as .orig.
LEMMA BackupPlaced ==
    ASSUME Shapes, NEW l \in Types, Placed(l), BackupStep \/ BackupFails
    PROVE  Placed(l)'
<1> DEFINE b == BackupOrder[step]
<1>1. /\ pc = "backup" /\ committed' = committed /\ b \in Types
      /\ IF step < 4 THEN step' = step + 1 /\ pc' = pc ELSE step' = 1 /\ pc' = "dump"
  BY OrderComplete DEF Shapes, BackupStep, BackupFails, Proceed, history
<1>2. /\ DOMAIN file = Types /\ DOMAIN orig = Types /\ step \in 1 .. 4
      /\ unbacked \subseteq unbacked'
  BY DEF Shapes, BackupStep, BackupFails, unmoved
<1>3. CASE l = b
  <2>0. ~Dealt(l)
    BY <1>2, <1>3 DEF Dealt, BackupOrder
  <2>1. l \in unbacked' \/ Kept(l)'
    <3>1. CASE BackupFails
      BY <1>3, <3>1 DEF BackupFails
    <3>2. CASE BackupStep /\ file[b] = ABSENT
      <4>1. file' = file /\ orig' = orig /\ unbacked' = unbacked
        BY <3>2 DEF BackupStep, Backup, unmoved
      <4> QED
        BY <1>1, <1>3, <2>0, <3>2, <4>1 DEF Placed, InPlace, Kept
    <3>3. CASE BackupStep /\ file[b] # ABSENT
      <4>1. orig'[l] = file[l]
        BY <1>1, <1>2, <1>3, <3>3 DEF BackupStep, Backup
      <4>2. unbacked' = unbacked
        BY <3>3 DEF BackupStep, unmoved
      <4> QED
        BY <1>1, <1>3, <2>0, <3>3, <4>1, <4>2 DEF Placed, InPlace, Kept
    <3> QED
      BY <3>1, <3>2, <3>3
  <2> QED
    BY <1>1, <1>2, <1>3, <2>1, DealtNext DEF Placed
<1>4. CASE l # b
  <2>1. file'[l] = file[l] /\ orig'[l] = orig[l]
    BY <1>2, <1>4 DEF BackupStep, BackupFails, Backup
  <2>2. (InPlace(l)' <=> InPlace(l)) /\ (Kept(l)' <=> Kept(l))
    BY <1>1, <2>1 DEF InPlace, Kept
  <2> QED
    BY <1>1, <1>2, <1>4, <2>2, DealtNext DEF Placed
<1> QED
  BY <1>3, <1>4

\* Writing the lists: the last write replaces what is to be kept.
LEMMA WritePlaced ==
    ASSUME Shapes, NEW l \in Types \ spoilt', pc = "dump", NEW content, Write(content),
           l \notin spoilt => Placed(l)
    PROVE  Placed(l)'
<1>1. step \in 1 .. 4 /\ UNCHANGED <<orig, unbacked>>
  BY DEF Shapes, Write, unmoved
<1>2. CASE step < 4
  <2>1. pc' = "dump" /\ UNCHANGED <<committed, spoilt>>
    BY <1>1, <1>2 DEF Write, Proceed
  <2> QED
    BY <1>1, <2>1 DEF Placed, Kept
<1>3. CASE step = 4
  <2>1. pc' = "commit" /\ file'[l] = committed'[l]
    BY <1>3 DEF Write, Proceed
  <2> QED
    BY <2>1 DEF Placed, InPlace
<1> QED
  BY <1>1, <1>2, <1>3

\* Bringing the lists back.
LEMMA RestorePlaced ==
    ASSUME Shapes, NEW l \in Types, Placed(l), pc = "restore", NextOrExit,
           committed' = committed, unbacked' = unbacked,
           \/ /\ Restore(BackupOrder[step])
              /\ unrestored' = unrestored
           \/ /\ UNCHANGED <<file, orig>>
              /\ unrestored' = unrestored \cup {BackupOrder[step]}
    PROVE  Placed(l)'
<1> DEFINE b == BackupOrder[step]
<1>1. /\ b \in Types /\ DOMAIN file = Types /\ DOMAIN orig = Types /\ step \in 1 .. 4
      /\ IF step < 4 THEN step' = step + 1 /\ pc' = pc ELSE step' = 1 /\ pc' = "idle"
  BY OrderComplete DEF Shapes, NextOrExit, Exit
<1>2. CASE l = b
  <2>1. ~Dealt(l)
    BY <1>1, <1>2 DEF Dealt, BackupOrder
  <2>2. l \in unbacked \/ Kept(l)
    BY <2>1 DEF Placed
  <2>3. l \in unbacked' \/ InPlace(l)' \/ (l \in unrestored' /\ Kept(l)')
    <3>1. CASE l \in unbacked
      BY <3>1
    <3>2. CASE Kept(l) /\ orig[l] # ABSENT /\ Restore(b)
      <4>1. file'[l] = orig[l]
        BY <1>1, <1>2, <3>2 DEF Restore
      <4> QED
        BY <3>2, <4>1 DEF Kept, InPlace
    <3>3. CASE Kept(l) /\ orig[l] = ABSENT /\ Restore(b)
      BY <3>3 DEF Kept, InPlace
    <3>4. CASE Kept(l) /\ UNCHANGED <<file, orig>> /\ b \in unrestored'
      BY <1>2, <3>4 DEF Kept
    <3> QED
      BY <2>2, <3>1, <3>2, <3>3, <3>4
  <2> QED
    BY <1>1, <1>2, <2>3, DealtNext DEF Placed
<1>3. CASE l # b
  <2>1. file'[l] = file[l] /\ orig'[l] = orig[l]
    BY <1>1, <1>3 DEF Restore
  <2>2. (InPlace(l)' <=> InPlace(l)) /\ (Kept(l)' <=> Kept(l)) /\ unrestored \subseteq unrestored'
    BY <2>1 DEF InPlace, Kept
  <2>3. step < 4 => (Dealt(l)' <=> Dealt(l))
    BY <1>1, <1>3, DealtNext
  <2>4. step = 4 => Dealt(l)
    BY <1>1, <1>3, DealtNext
  <2>5. unbacked' = unbacked /\ (l \in unrestored' <=> l \in unrestored)
    BY <1>3
  <2> QED
    BY <1>1, <2>2, <2>3, <2>4, <2>5 DEF Placed
<1> QED
  BY <1>2, <1>3

\* A kill: what is not in its place after it is remembered.
LEMMA CrashPlaced ==
    ASSUME FilesInv, NEW l \in Types, Placed(l), Crash
    PROVE  Placed(l)'
<1>1. /\ pc' = "idle" /\ UNCHANGED <<orig, unbacked, committed>>
      /\ l \in unrestored' <=> ~InPlace(l)'
      /\ pc # "idle" /\ (file' = file \/ pc = "dump")
  BY DEF Crash, Exit, InPlace, history
<1>2. l \in unrestored' \ unbacked' => Kept(l)'
  BY <1>1 DEF FilesInv, PhaseOK, Phases, Placed, InPlace, Kept
<1> QED
  BY <1>1, <1>2 DEF Placed

\* Harm is not undone, and is there when a list is spoilt.
LEMMA SafeStep ==
    ListsPlaced /\ [Next]_vars => (harm' = "safe" => harm = "safe" /\ spoilt' = {})
BY DEF ListsPlaced, Next, vars, CheckFiles, BuildMaps, GiveUp, ProcessLine, EndOfLog,
       BackupStep, BackupFails, DumpStep, DumpShort, DumpFails, CommitStep, RestoreStep,
       CallFails, Crash, Write, Harm, history

\* Every step leaves a list where its phase has it, or spoils it.
LEMMA PlacedStep == FilesInv /\ [Next]_vars => ListsPlaced'
<1> SUFFICES ASSUME FilesInv, [Next]_vars, NEW l \in Types \ spoilt'
             PROVE  Placed(l)'
  BY SafeStep DEF ListsPlaced, FilesInv
<1>1. Shapes /\ PhaseOK
  BY DEF FilesInv
<1>2. CASE \E option \in TimeoutOption : CheckFiles(option)
  BY <1>2, CheckFilesPlaced
<1>3. CASE DumpStep \/ DumpShort
  <2>1. l \notin spoilt => Placed(l)
    BY DEF FilesInv, ListsPlaced
  <2> QED
    BY <1>1, <1>3, <2>1, WritePlaced DEF DumpStep, DumpShort
<1> DEFINE Other == \/ BuildMaps \/ GiveUp \/ (\E line \in Line : ProcessLine(line)) \/ EndOfLog
                    \/ BackupStep \/ BackupFails \/ DumpFails \/ CommitStep \/ RestoreStep
                    \/ CallFails \/ Crash \/ UNCHANGED vars
<1>4. ASSUME Other PROVE Placed(l)
  <2>1. spoilt' = spoilt
    BY <1>4 DEF vars, BuildMaps, GiveUp, ProcessLine, EndOfLog, BackupStep, BackupFails,
           DumpFails, CommitStep, RestoreStep, CallFails, Crash, history
  <2> QED
    BY <2>1 DEF FilesInv, ListsPlaced
<1>5. CASE BuildMaps \/ GiveUp \/ (\E line \in Line : ProcessLine(line)) \/ EndOfLog
  <2>1. /\ UNCHANGED <<file, committed>>
        /\ pc \in {"build", "log"} /\ pc' \in {"idle", "log", "backup"}
        /\ pc' = "backup" => step' = 1
    BY <1>1, <1>5 DEF BuildMaps, GiveUp, ProcessLine, EndOfLog, Exit, history, PhaseOK
  <2>2. Placed(l)
    BY <1>4, <1>5
  <2> QED
    BY <1>1, <2>1, <2>2, DealtNext DEF Placed, InPlace
<1>6. CASE BackupStep \/ BackupFails
  BY <1>1, <1>4, <1>6, BackupPlaced
<1>7. CASE DumpFails
  <2>1. UNCHANGED <<orig, committed, unbacked>> /\ pc = "dump" /\ pc' = "restore" /\ step' = 1
    BY <1>7 DEF DumpFails, unmoved, history
  <2>2. ~Dealt(l)'
    BY <1>1, <2>1, DealtNext
  <2>3. Placed(l)
    BY <1>4, <1>7
  <2> QED
    BY <2>1, <2>2, <2>3 DEF Placed, Kept
<1>8. CASE CommitStep \/ (CallFails /\ pc = "commit")
  <2>1. UNCHANGED <<file, committed>> /\ pc = "commit" /\ pc' \in {"commit", "idle"}
    BY <1>8 DEF CommitStep, CallFails, NextOrExit, Exit, history
  <2>2. Placed(l)
    BY <1>4, <1>8
  <2> QED
    BY <2>1, <2>2 DEF Placed, InPlace
<1>9. CASE RestoreStep \/ (CallFails /\ pc = "restore")
  BY <1>1, <1>4, <1>9, RestorePlaced DEF RestoreStep, CallFails, history, unmoved
<1>10. CASE Crash
  BY <1>4, <1>10, CrashPlaced
<1>11. CASE UNCHANGED vars
  <2>1. Dealt(l)' <=> Dealt(l)
    BY <1>11 DEF vars, Dealt
  <2>2. Placed(l)
    BY <1>4, <1>11
  <2> QED
    BY <1>11, <2>1, <2>2 DEF vars, Placed, InPlace, Kept
<1> QED
  BY <1>2, <1>3, <1>5, <1>6, <1>7, <1>8, <1>9, <1>10, <1>11 DEF Next, CallFails

LEMMA FilesInit == Init => FilesInv
<1>1. Init => Shapes /\ PhaseOK
  BY DEF Init, Shapes, PhaseOK, Phases
<1>2. Init => ListsPlaced
  BY DEF Init, ListsPlaced, Placed, InPlace
<1> QED
  BY <1>1, <1>2 DEF FilesInv

LEMMA FilesStep == FilesInv /\ [Next]_vars => FilesInv'
BY ShapesStep, PhasesStep, PlacedStep DEF FilesInv

\* analyzer.cpp's output, for any number of runs, kills and failing calls: a list
\* that was complete is there under its own name or as .orig, but for one that
\* this run could not rename and one spoilt by a short write that counted or by
\* starting the program over what a fault had left, until the next full output.
THEOREM ListsKept == Spec => []NothingLost
<1>1. FilesInv => NothingLost
  BY DEF FilesInv, PhaseOK, Phases, ListsPlaced, Placed, InPlace, Kept, NothingLost
<1> QED
  BY <1>1, FilesInit, FilesStep, PTL DEF Spec

(***************************************************************************)
(* The lists when an output has failed.                                    *)
(***************************************************************************)

\* What has been dealt with has no .orig any more.
Undone ==
    pc = "restore" => \A l \in Types \ unrestored : Dealt(l) => orig[l] = ABSENT

(***************************************************************************)
(* What the lists say.                                                     *)
(***************************************************************************)

Record == [count : Nat, bytes : Nat, flag : SUBSET Nat]
IsAddrMap(f, V) == DOMAIN f \subseteq Addr /\ f \in [DOMAIN f -> V]

\* The lists as they are read by the next run.
LoadedFrom(list) == [a \in DOMAIN list |-> ReadBack(list[a])]
Loaded == [t \in Types |-> LoadedFrom(committed[t])]
Old(a) == RecordAt(Loaded["ALL"], a)
MapNow(a) == RecordAt(map["ALL"], a)

\* The common list against the sum of all lines that went into it.
Ledger(a) ==
    /\ Old(a).count = total[a].count
    /\ Old(a).bytes <= total[a].bytes
    /\ IF a \in DOMAIN committed["ALL"]
       THEN total[a].bytes < Old(a).bytes + outputs * BytesPerMB
       ELSE total[a].bytes = 0

\* The common map: what was loaded, and the lines of this run.
Merged(a) ==
    /\ MapNow(a).count = Old(a).count + fresh[a].count
    /\ MapNow(a).bytes = Old(a).bytes + fresh[a].bytes
    /\ a \in DOMAIN committed["ALL"] => a \in DOMAIN map["ALL"]

Dominates(m, a) ==
    /\ PortSum(m, a).count <= RecordAt(m["ALL"], a).count
    /\ PortSum(m, a).bytes <= RecordAt(m["ALL"], a).bytes

NoMaps == [t \in Types |-> <<>>]
NoLists == [t \in Types |-> ABSENT]

\* Before the first run.
Unused == /\ pc = "idle" /\ file = NoLists /\ committed = NoLists
          /\ total = NoLines /\ outputs = 0
\* After its check_files.
InUse ==
    /\ \A l \in Types : IsAddrMap(committed[l], Entry)
    /\ \A a \in Addr : Ledger(a) /\ Dominates(Loaded, a)
    /\ pc \in {"log", "backup", "dump"} => \A a \in Addr : Merged(a)

Books ==
    /\ \A t \in Types : IsAddrMap(map[t], Record)
    /\ \A a \in Addr : Dominates(map, a)
    /\ pc \in {"idle", "build"} => map = NoMaps /\ fresh = NoLines
    /\ Unused \/ InUse
BooksInv ==
    /\ outputs \in Nat /\ faults \in Nat /\ DOMAIN committed = Types
    /\ fresh \in [Addr -> Record] /\ total \in [Addr -> Record]
    /\ harm = "safe" => Books

(***************************************************************************)
(* Numbers cut to megabytes.                                               *)
(***************************************************************************)

\* What is left of traffic that is written and read back.
Cut(n) == (n \div BytesPerMB) * BytesPerMB

LEMMA CutBounds ==
    ASSUME NEW n \in Nat
    PROVE  /\ n \div BytesPerMB \in Nat
           /\ Cut(n) \in Nat /\ Cut(n) <= n /\ n < Cut(n) + BytesPerMB
<1>1. PICK b \in Nat \ {0} : b = BytesPerMB
  BY MBAssumption
<1>2. /\ n \div b \in Nat
      /\ b * (n \div b) <= n /\ n < b * (n \div b) + b
  OBVIOUS
<1>3. PICK q \in Nat : q = n \div b
  BY <1>2
<1>4. q * b = b * q /\ q * b \in Nat
  OBVIOUS
<1> QED
  BY <1>1, <1>2, <1>3, <1>4 DEF Cut

\* A product with the megabyte grows with its factor, and tells its size.
LEMMA MBOrder ==
    ASSUME NEW p \in Nat, NEW q \in Nat
    PROVE  /\ p * BytesPerMB \in Nat
           /\ p <= q => p * BytesPerMB <= q * BytesPerMB
           /\ p < q => p * BytesPerMB + BytesPerMB <= q * BytesPerMB
<1>1. PICK b \in Nat \ {0} : b = BytesPerMB
  BY MBAssumption
<1>2. p * b \in Nat /\ q * b \in Nat
  OBVIOUS
<1>3. ASSUME p < q
      PROVE  p * b + b <= q * b
  <2>1. PICK d \in Nat : q = p + 1 + d
    <3>1. q - p - 1 \in Nat
      BY <1>3
    <3> QED
      BY <3>1
  <2>2. q * b = p * b + b + d * b
    BY <2>1
  <2>3. d * b \in Nat
    OBVIOUS
  <2>4. PICK x \in Nat, y \in Nat, z \in Nat : x = p * b /\ y = q * b /\ z = d * b
    BY <1>2, <2>3
  <2> QED
    BY <2>2, <2>4
<1>4. p = q => p * b = q * b
  OBVIOUS
<1>5. PICK x \in Nat, y \in Nat : x = p * b /\ y = q * b
  BY <1>2
<1>6. p * b \in Nat
  BY <1>2
<1>7. ASSUME p < q
      PROVE  p * b <= q * b
  <2>1. x + b <= y
    BY <1>3, <1>5, <1>7
  <2> QED
    BY <1>5, <2>1
<1>8. ASSUME p <= q
      PROVE  p * b <= q * b
  <2>1. p < q \/ p = q
    BY <1>8
  <2>2. CASE p = q
    <3>1. x = y
      BY <1>4, <1>5, <2>2
    <3> QED
      BY <1>5, <3>1
  <2> QED
    BY <1>7, <2>1, <2>2
<1> QED
  BY <1>1, <1>3, <1>6, <1>8

\* Three parts that are cut one by one are not more than the whole, cut.
LEMMA CutParts ==
    ASSUME NEW x \in Nat, NEW y \in Nat, NEW z \in Nat, NEW n \in Nat, x + y + z <= n
    PROVE  Cut(x) + Cut(y) + Cut(z) <= Cut(n)
<1>1. /\ x \div BytesPerMB \in Nat /\ y \div BytesPerMB \in Nat
      /\ z \div BytesPerMB \in Nat /\ n \div BytesPerMB \in Nat
  BY CutBounds
<1>2. PICK p \in Nat, q \in Nat, r \in Nat, s \in Nat :
          /\ p = x \div BytesPerMB /\ q = y \div BytesPerMB
          /\ r = z \div BytesPerMB /\ s = n \div BytesPerMB
  BY <1>1
<1>3. Cut(x) = p * BytesPerMB /\ Cut(y) = q * BytesPerMB /\ Cut(z) = r * BytesPerMB
      /\ Cut(n) = s * BytesPerMB
  BY <1>2 DEF Cut
<1>4. PICK b \in Nat \ {0} : b = BytesPerMB
  BY MBAssumption
<1>5. p * b + q * b + r * b = (p + q + r) * b
  OBVIOUS
<1>6. p + q + r \in Nat
  OBVIOUS
<1>7. PICK k \in Nat : k = p + q + r
  BY <1>6
<1>8. Cut(x) + Cut(y) + Cut(z) = k * BytesPerMB
  BY <1>3, <1>4, <1>5, <1>7
<1>9. ~(s < k)
  <2> SUFFICES ASSUME s < k PROVE FALSE
    OBVIOUS
  <2>1. Cut(n) + BytesPerMB <= Cut(x) + Cut(y) + Cut(z)
    BY <1>3, <1>8, MBOrder
  <2>2. /\ Cut(x) \in Nat /\ Cut(y) \in Nat /\ Cut(z) \in Nat /\ Cut(n) \in Nat
        /\ Cut(x) <= x /\ Cut(y) <= y /\ Cut(z) <= z /\ n < Cut(n) + BytesPerMB
    BY CutBounds
  <2> QED
    BY <1>4, <2>1, <2>2
<1>10. k <= s
  BY <1>9
<1> QED
  BY <1>3, <1>8, <1>10, MBOrder

(***************************************************************************)
(* Records.                                                                *)
(***************************************************************************)

LEMMA RecordAtType ==
    ASSUME NEW m, IsAddrMap(m, Record), NEW a
    PROVE  RecordAt(m, a) \in Record
<1>1. NoRecord \in Record
  BY DEF NoRecord, Record
<1>2. a \in DOMAIN m => m[a] \in Record
  BY DEF IsAddrMap
<1> QED
  BY <1>1, <1>2 DEF RecordAt

LEMMA SumType ==
    ASSUME NEW r \in Record, NEW s \in Record
    PROVE  /\ Sum(r, s) \in Record
           /\ Sum(r, s).count = r.count + s.count
           /\ Sum(r, s).bytes = r.bytes + s.bytes
BY DEF Sum, Record

\* What the map says once the line of an address has been added.
LEMMA AddedFacts ==
    ASSUME NEW m, IsAddrMap(m, Record), NEW a \in Addr, NEW rec \in Record
    PROVE  /\ IsAddrMap(Added(m, a, rec), Record)
           /\ DOMAIN Added(m, a, rec) = DOMAIN m \cup {a}
           /\ \A x : RecordAt(Added(m, a, rec), x) =
                        IF x = a THEN Sum(RecordAt(m, a), rec) ELSE RecordAt(m, x)
<1>1. PICK new : new = Sum(RecordAt(m, a), rec)
  OBVIOUS
<1>2. new \in Record
  BY <1>1, RecordAtType, SumType
<1>3. PICK f : f = Added(m, a, rec)
  OBVIOUS
<1>4. f = [x \in DOMAIN m \cup {a} |-> IF x = a THEN new ELSE m[x]]
  BY <1>1, <1>3 DEF Added
<1>5. DOMAIN f = DOMAIN m \cup {a}
      /\ \A x \in DOMAIN f : f[x] = IF x = a THEN new ELSE m[x]
  BY <1>4
<1>6. IsAddrMap(f, Record)
  <2>1. \A x \in DOMAIN f : f[x] \in Record
    BY <1>2, <1>5 DEF IsAddrMap
  <2> QED
    BY <1>4, <1>5, <2>1 DEF IsAddrMap
<1>7. \A x : RecordAt(f, x) = IF x = a THEN new ELSE RecordAt(m, x)
  BY <1>5 DEF RecordAt
<1> QED
  BY <1>1, <1>3, <1>5, <1>6, <1>7

LEMMA WrittenType ==
    ASSUME NEW r \in Record
    PROVE  /\ Written(r) \in Entry
           /\ Written(r).mb = r.bytes \div BytesPerMB /\ Written(r).count = r.count
<1>1. r.bytes \in Nat /\ r.count \in Nat /\ r.flag \in SUBSET Nat
  BY DEF Record
<1>2. r.bytes \div BytesPerMB \in Nat
  BY <1>1, CutBounds
<1> QED
  BY <1>1, <1>2 DEF Written, Entry

LEMMA ReadBackType ==
    ASSUME NEW e \in Entry
    PROVE  /\ ReadBack(e) \in Record
           /\ ReadBack(e).count = e.count /\ ReadBack(e).bytes = e.mb * BytesPerMB
<1>1. e.mb \in Nat /\ e.count \in Nat /\ e.flag \in SUBSET Nat
  BY DEF Entry
<1>2. e.mb * BytesPerMB \in Nat
  BY <1>1, MBOrder
<1>3. FlagRead(e) \in SUBSET Nat
  <2>1. \A n : BitsOf(n) \in SUBSET Nat
    BY DEF BitsOf
  <2>2. FlagRead(e) = e.flag \/ \E n : FlagRead(e) = BitsOf(n)
    BY DEF FlagRead
  <2> QED
    BY <1>1, <2>1, <2>2
<1> QED
  BY <1>1, <1>2, <1>3 DEF ReadBack, Record

LEMMA LoadedType ==
    ASSUME NEW list, IsAddrMap(list, Entry)
    PROVE  /\ IsAddrMap(LoadedFrom(list), Record)
           /\ DOMAIN LoadedFrom(list) = DOMAIN list
<1>1. PICK f : f = LoadedFrom(list)
  OBVIOUS
<1>2. f = [a \in DOMAIN list |-> ReadBack(list[a])]
  BY <1>1 DEF LoadedFrom
<1>3. \A a \in DOMAIN list : list[a] \in Entry /\ ReadBack(list[a]) \in Record
  BY ReadBackType DEF IsAddrMap
<1> QED
  BY <1>1, <1>2, <1>3 DEF IsAddrMap

\* A map that is written and read again has lost parts of a megabyte only.
LEMMA DumpedFacts ==
    ASSUME NEW m, IsAddrMap(m, Record)
    PROVE  /\ IsAddrMap(Dumped(m), Entry) /\ DOMAIN Dumped(m) = DOMAIN m
           /\ \A a : /\ RecordAt(LoadedFrom(Dumped(m)), a).count = RecordAt(m, a).count
                     /\ RecordAt(LoadedFrom(Dumped(m)), a).bytes = Cut(RecordAt(m, a).bytes)
<1>1. PICK d : d = Dumped(m)
  OBVIOUS
<1>2. d = [a \in DOMAIN m |-> Written(m[a])]
  BY <1>1 DEF Dumped
<1>3. \A a \in DOMAIN m : m[a] \in Record /\ Written(m[a]) \in Entry
  BY WrittenType DEF IsAddrMap
<1>4. IsAddrMap(d, Entry) /\ DOMAIN d = DOMAIN m
  BY <1>2, <1>3 DEF IsAddrMap
<1>5. DOMAIN LoadedFrom(d) = DOMAIN m
      /\ \A a \in DOMAIN m : LoadedFrom(d)[a] = ReadBack(Written(m[a]))
  BY <1>2 DEF LoadedFrom
<1>6. ASSUME NEW a
      PROVE  /\ RecordAt(LoadedFrom(d), a).count = RecordAt(m, a).count
             /\ RecordAt(LoadedFrom(d), a).bytes = Cut(RecordAt(m, a).bytes)
  <2>1. CASE a \in DOMAIN m
    <3>1. RecordAt(LoadedFrom(d), a) = ReadBack(Written(m[a])) /\ RecordAt(m, a) = m[a]
      BY <1>5, <2>1 DEF RecordAt
    <3>2. PICK r \in Record : r = m[a]
      BY <1>3, <2>1
    <3>3. /\ Written(r) \in Entry /\ Written(r).mb = r.bytes \div BytesPerMB
          /\ Written(r).count = r.count
      BY WrittenType
    <3>4. ReadBack(Written(r)).count = r.count /\ ReadBack(Written(r)).bytes = Cut(r.bytes)
      BY <3>3, ReadBackType DEF Cut
    <3> QED
      BY <3>1, <3>2, <3>4
  <2>2. CASE a \notin DOMAIN m
    <3>1. RecordAt(LoadedFrom(d), a) = NoRecord /\ RecordAt(m, a) = NoRecord
      BY <1>5, <2>2 DEF RecordAt
    <3>2. Cut(0) = 0
      <4>1. 0 \in Nat /\ Cut(0) \in Nat /\ Cut(0) <= 0
        BY CutBounds
      <4> QED
        BY <4>1
    <3> QED
      BY <3>1, <3>2 DEF NoRecord
  <2> QED
    BY <2>1, <2>2
<1> QED
  BY <1>1, <1>4, <1>6

(***************************************************************************)
(* How the books are kept, step by step.                                   *)
(***************************************************************************)

LEMMA EmptyMap ==
    /\ DOMAIN <<>> = {}
    /\ \A V : IsAddrMap(<<>>, V)
    /\ \A a : RecordAt(<<>>, a) = NoRecord
    /\ LoadedFrom(<<>>) = <<>>
    /\ <<>> # ABSENT
<1>1. DOMAIN <<>> = {}
  OBVIOUS
<1>2. \A V : <<>> \in [{} -> V]
  OBVIOUS
<1>3. LoadedFrom(<<>>) = <<>>
  BY <1>1 DEF LoadedFrom
<1>4. <<>> # ABSENT
  BY <1>2, AbsentAssumption
<1> QED
  BY <1>1, <1>2, <1>3, <1>4 DEF IsAddrMap, RecordAt

\* A list that is loaded is not ABSENT.
LEMMA ListThere ==
    ASSUME NEW list, IsAddrMap(list, Entry)
    PROVE  list # ABSENT
<1>1. DOMAIN list \in SUBSET Addr /\ list \in [DOMAIN list -> Entry]
  BY DEF IsAddrMap
<1> QED
  BY <1>1, AbsentAssumption

LEMMA EmptyDominates ==
    ASSUME NEW a
    PROVE  Dominates(NoMaps, a)
<1>1. \A t \in Types : RecordAt(NoMaps[t], a) = NoRecord
  BY EmptyMap DEF NoMaps
<1>2. "ALL" \in Types /\ "80" \in Types /\ "443" \in Types /\ "8080" \in Types
  BY DEF Types
<1>3. /\ RecordAt(NoMaps["ALL"], a) = NoRecord /\ RecordAt(NoMaps["80"], a) = NoRecord
      /\ RecordAt(NoMaps["443"], a) = NoRecord /\ RecordAt(NoMaps["8080"], a) = NoRecord
  BY <1>1, <1>2
<1> QED
  BY <1>3 DEF Dominates, PortSum, NoRecord

LEMMA NoLinesType == NoLines \in [Addr -> Record] /\ \A a \in Addr : NoLines[a] = NoRecord
<1>1. NoRecord \in Record
  BY DEF NoRecord, Record
<1> QED
  BY <1>1 DEF NoLines

\* The record of a line that is kept, and whose it is.
LEMMA LineFacts ==
    ASSUME NEW line \in Line, Wanted(line)
    PROVE  /\ Foreign(line) \in Addr /\ TypeOf(line) \in Types
           /\ RecordOf(line) \in Record
<1>1. Foreign(line) \in Addr
  BY PeerAssumption DEF Foreign
<1>2. TypeOf(line) \in Types
  BY DEF TypeOf, PortType, Types
<1>3. line.protocol \in SUBSET Nat
  BY DEF Wanted, IsRelevant, PROTOCOL_TCP, PROTOCOL_UDP
<1>4. RecordOf(line) \in Record
  BY <1>3, TrafficAssumption DEF RecordOf, Record
<1> QED
  BY <1>1, <1>2, <1>4

LEMMA TypesStep ==
    ASSUME BooksInv, [Next]_vars
    PROVE  /\ outputs' \in Nat /\ faults' \in Nat /\ DOMAIN committed' = Types
           /\ fresh' \in [Addr -> Record] /\ total' \in [Addr -> Record]
<1> USE DEF BooksInv, counters, history, unmoved
<1>1. ASSUME NEW line \in Line, ProcessLine(line), Wanted(line)
      PROVE  fresh' \in [Addr -> Record]
  <2>1. PICK a \in Addr : a = Foreign(line)
    BY <1>1, LineFacts
  <2>2. PICK rec \in Record : rec = Sum(fresh[a], RecordOf(line))
    BY <1>1, LineFacts, SumType
  <2>3. fresh' = [fresh EXCEPT ![a] = rec]
    BY <1>1, <2>1, <2>2 DEF ProcessLine
  <2> QED
    BY <2>3
<1>2. fresh' \in [Addr -> Record]
  <2>1. fresh' = fresh \/ fresh' = NoLines \/ \E line \in Line : ProcessLine(line) /\ Wanted(line)
    BY DEF Next, vars, CheckFiles, BuildMaps, GiveUp, ProcessLine, EndOfLog, BackupStep,
           BackupFails, DumpStep, DumpShort, DumpFails, CommitStep, RestoreStep, CallFails,
           Crash, Write, Exit, NextOrExit
  <2> QED
    BY <1>1, <2>1, NoLinesType
<1>3. total' = total \/ total' = [a \in Addr |-> Sum(total[a], fresh[a])]
  BY DEF Next, vars, CheckFiles, BuildMaps, GiveUp, ProcessLine, EndOfLog, BackupStep,
         BackupFails, DumpStep, DumpShort, DumpFails, CommitStep, RestoreStep, CallFails,
         Crash, Write
<1>4. total' \in [Addr -> Record]
  <2>1. \A a \in Addr : Sum(total[a], fresh[a]) \in Record
    BY SumType
  <2> QED
    BY <1>3, <2>1
<1>5. outputs' \in Nat /\ faults' \in Nat /\ DOMAIN committed' = Types
  BY DEF Next, vars, CheckFiles, BuildMaps, GiveUp, ProcessLine, EndOfLog, BackupStep,
         BackupFails, DumpStep, DumpShort, DumpFails, CommitStep, RestoreStep, CallFails,
         Crash, Write, Fault
<1> QED
  BY <1>2, <1>4, <1>5

\* check_files of the first run makes four empty lists; of a later one, none.
LEMMA CheckFilesBooks ==
    ASSUME FilesInv, BooksInv, FilesInv', BooksInv => Books,
           NEW option, CheckFiles(option), harm' = "safe"
    PROVE  Books'
<1>1. Books /\ pc = "idle" /\ pc' = "build"
  BY DEF CheckFiles
<1>2. UNCHANGED <<map, fresh, total, outputs>>
  BY DEF CheckFiles
<1>3. map' = NoMaps /\ fresh' = NoLines
  BY <1>1, <1>2 DEF Books
<1>4. CASE Unused
  <2>1. /\ DOMAIN committed' = Types /\ \A l \in Types : committed'[l] = <<>>
        /\ total' = NoLines /\ outputs' = 0
    BY <1>2, <1>4 DEF CheckFiles, Unused, NoLists
  <2>2. Loaded' = NoMaps
    BY <2>1, EmptyMap DEF Loaded, NoMaps
  <2>3. "ALL" \in Types
    BY DEF Types
  <2>4. \A a \in Addr : Old(a)' = NoRecord
    BY <2>2, <2>3, EmptyMap DEF Old, NoMaps
  <2>5. \A a \in Addr : Ledger(a)'
    BY <2>1, <2>3, <2>4, EmptyMap, NoLinesType DEF Ledger, NoRecord
  <2>6. \A a \in Addr : Dominates(Loaded, a)'
    BY <2>2, EmptyDominates DEF Dominates, PortSum
  <2>7. InUse'
    BY <1>1, <2>1, <2>5, <2>6, EmptyMap DEF InUse
  <2> QED
    BY <1>1, <1>2, <1>3, <2>7 DEF Books, Dominates, PortSum
<1>5. CASE InUse
  <2>1. \A l \in Types : committed[l] # ABSENT
    BY <1>5, ListThere DEF InUse
  <2>2. \A l \in Types : committed'[l] = committed[l]
    BY <2>1 DEF CheckFiles
  <2>3. Loaded' = Loaded /\ "ALL" \in Types
    BY <2>2 DEF Loaded, Types
  <2>4. InUse'
    BY <1>1, <1>2, <1>5, <2>2, <2>3 DEF InUse, Ledger, Old, Dominates, PortSum
  <2> QED
    BY <1>1, <1>2, <1>3, <2>4 DEF Books, Dominates, PortSum
<1> QED
  BY <1>1, <1>4, <1>5 DEF Books

\* build_map_from_c_list: the maps are the lists of the last output.
LEMMA BuildMapsBooks ==
    ASSUME FilesInv, BooksInv, Books, harm = "safe", BuildMaps
    PROVE  Books'
<1>1. pc = "build" /\ pc' = "log" /\ UNCHANGED <<fresh, committed, total, outputs>>
  BY DEF BuildMaps, history
<1>2. InUse /\ fresh = NoLines
  BY <1>1 DEF Books, Unused
<1>3. \A l \in Types : file[l] = committed[l]
  <2>1. \A l \in Types : committed[l] # ABSENT
    BY <1>2, ListThere DEF InUse
  <2> QED
    BY <1>1, <2>1 DEF FilesInv, ListsPlaced, Placed, InPlace
<1>4. map' = Loaded
  BY <1>3 DEF BuildMaps, Loaded, LoadedFrom
<1>5. Loaded' = Loaded
  BY <1>1 DEF Loaded
<1>6. \A t \in Types : IsAddrMap(map'[t], Record) /\ DOMAIN map'[t] = DOMAIN committed[t]
  <2>1. \A t \in Types : map'[t] = LoadedFrom(committed[t])
    BY <1>4 DEF Loaded
  <2> QED
    BY <1>2, <2>1, LoadedType DEF InUse
<1>7. \A a \in Addr : Dominates(Loaded, a)
  BY <1>2 DEF InUse
<1>8. \A a \in Addr : Dominates(map, a)'
  BY <1>4, <1>7 DEF Dominates, PortSum
<1>9. "ALL" \in Types
  BY DEF Types
<1>10. ASSUME NEW a \in Addr
       PROVE  Merged(a)'
  <2>1. MapNow(a)' = Old(a) /\ Old(a)' = Old(a)
    BY <1>4, <1>5 DEF MapNow, Old
  <2>2. Old(a) \in Record
    BY <1>4, <1>6, <1>9, RecordAtType DEF Old
  <2>3. fresh'[a] = NoRecord
    BY <1>1, <1>2, NoLinesType
  <2> QED
    BY <1>1, <1>6, <1>9, <2>1, <2>2, <2>3 DEF Merged, NoRecord, Record
<1>11. InUse'
  BY <1>1, <1>2, <1>5, <1>7, <1>10 DEF InUse, Ledger, Old, Dominates, PortSum
<1> QED
  BY <1>1, <1>6, <1>8, <1>11 DEF Books

\* The end of a process, at any point.
LEMMA ExitBooks ==
    ASSUME Books, pc # "idle", Exit, UNCHANGED <<committed, total, outputs>>
    PROVE  Books'
<1>1. pc' = "idle" /\ map' = NoMaps /\ fresh' = NoLines
  BY DEF Exit, NoMaps
<1>2. InUse
  BY DEF Books, Unused
<1>3. InUse'
  BY <1>1, <1>2 DEF InUse, Ledger, Old, Loaded, Dominates, PortSum
<1>4. \A a \in Addr : Dominates(map, a)'
  BY <1>1, EmptyDominates DEF Dominates, PortSum
<1>5. \A t \in Types : IsAddrMap(map'[t], Record)
  BY <1>1, EmptyMap DEF NoMaps
<1> QED
  BY <1>1, <1>3, <1>4, <1>5 DEF Books

\* Steps that neither read a list nor complete one.
LEMMA QuietBooks ==
    ASSUME Books, pc \notin {"idle", "build"}, pc' \notin {"idle", "build"},
           pc' \in {"log", "backup", "dump"} => pc \in {"log", "backup", "dump"},
           UNCHANGED <<map, fresh, committed, total, outputs>>
    PROVE  Books'
<1>1. InUse
  BY DEF Books, Unused
<1>2. InUse'
  BY <1>1 DEF InUse, Ledger, Old, Loaded, Merged, MapNow, Dominates, PortSum
<1> QED
  BY <1>2 DEF Books, Dominates, PortSum

\* A line that is kept goes into the map of its port and into the common one.
LEMMA LineBooks ==
    ASSUME BooksInv, Books, NEW line \in Line, ProcessLine(line)
    PROVE  Books'
<1>1. /\ pc = "log" /\ pc' = "log" /\ UNCHANGED <<committed, total, outputs>>
      /\ InUse /\ Loaded' = Loaded
  BY DEF ProcessLine, history, Books, Unused, Loaded
<1>2. CASE ~Wanted(line)
  <2>1. UNCHANGED <<map, fresh>>
    BY <1>2 DEF ProcessLine
  <2> QED
    BY <1>1, <2>1, QuietBooks
<1>3. CASE Wanted(line)
  <2>1. PICK a \in Addr, type \in Types, rec \in Record :
            a = Foreign(line) /\ type = TypeOf(line) /\ rec = RecordOf(line)
    BY <1>3, LineFacts
  <2>2. /\ \A t \in Types : map'[t] = IF t \in {type, "ALL"} THEN Added(map[t], a, rec) ELSE map[t]
        /\ fresh' = [fresh EXCEPT ![a] = Sum(@, rec)]
    BY <1>3, <2>1 DEF ProcessLine
  <2>3. "ALL" \in Types /\ "80" \in Types /\ "443" \in Types /\ "8080" \in Types
    BY DEF Types
  <2>4. \A t \in Types : IsAddrMap(map[t], Record)
    BY DEF Books
  <2>5. ASSUME NEW t \in Types
        PROVE  /\ IsAddrMap(map'[t], Record) /\ DOMAIN map[t] \subseteq DOMAIN map'[t]
               /\ \A x : RecordAt(map'[t], x) = IF t \in {type, "ALL"} /\ x = a
                                                 THEN Sum(RecordAt(map[t], a), rec)
                                                 ELSE RecordAt(map[t], x)
    <3>1. CASE t \in {type, "ALL"}
      <4>1. PICK m : m = map[t]
        OBVIOUS
      <4>2. IsAddrMap(m, Record) /\ map'[t] = Added(m, a, rec)
        BY <2>2, <2>4, <3>1, <4>1
      <4>3. /\ IsAddrMap(Added(m, a, rec), Record)
            /\ DOMAIN Added(m, a, rec) = DOMAIN m \cup {a}
            /\ \A x : RecordAt(Added(m, a, rec), x) = IF x = a THEN Sum(RecordAt(m, a), rec)
                                                       ELSE RecordAt(m, x)
        BY <4>2, AddedFacts
      <4> QED
        BY <3>1, <4>1, <4>2, <4>3
    <3>2. CASE t \notin {type, "ALL"}
      BY <2>2, <2>4, <3>2
    <3> QED
      BY <3>1, <3>2
  <2>6. \A t \in Types : \A x : RecordAt(map[t], x) \in Record
    BY <2>4, RecordAtType
  <2>7. \A r \in Record : /\ Sum(r, rec).count = r.count + rec.count
                          /\ Sum(r, rec).bytes = r.bytes + rec.bytes
    BY SumType
  <2>8. ASSUME NEW x \in Addr
        PROVE  Dominates(map, x)'
    <3>1. Dominates(map, x)
      BY DEF Books
    <3>2. CASE x # a
      <4>1. \A t \in Types : RecordAt(map'[t], x) = RecordAt(map[t], x)
        BY <2>5, <3>2
      <4> QED
        BY <2>3, <3>1, <4>1 DEF Dominates, PortSum
    <3>3. CASE x = a
      <4>1. PICK r \in Record, r80 \in Record, r443 \in Record, r8080 \in Record :
                /\ r = RecordAt(map["ALL"], x) /\ r80 = RecordAt(map["80"], x)
                /\ r443 = RecordAt(map["443"], x) /\ r8080 = RecordAt(map["8080"], x)
        BY <2>3, <2>6
      <4>2. /\ r80.count + r443.count + r8080.count <= r.count
            /\ r80.bytes + r443.bytes + r8080.bytes <= r.bytes
        BY <3>1, <4>1 DEF Dominates, PortSum
      <4>3. /\ RecordAt(map'["ALL"], x) = Sum(r, rec)
            /\ RecordAt(map'["80"], x) = IF type = "80" THEN Sum(r80, rec) ELSE r80
            /\ RecordAt(map'["443"], x) = IF type = "443" THEN Sum(r443, rec) ELSE r443
            /\ RecordAt(map'["8080"], x) = IF type = "8080" THEN Sum(r8080, rec) ELSE r8080
        BY <2>3, <2>5, <3>3, <4>1
      <4>4. /\ \A s \in {r, r80, r443, r8080} : s.count \in Nat /\ s.bytes \in Nat
            /\ rec.count \in Nat /\ rec.bytes \in Nat
        BY DEF Record
      <4>5. ASSUME NEW s \in {r80, r443, r8080}, NEW new, NEW yes \in BOOLEAN,
                   new = IF yes THEN Sum(s, rec) ELSE s
            PROVE  /\ new.count = s.count + (IF yes THEN rec.count ELSE 0)
                   /\ new.bytes = s.bytes + (IF yes THEN rec.bytes ELSE 0)
        BY <2>7, <4>4, <4>5
      <4>6. PICK n80, n443, n8080 :
                /\ n80 = RecordAt(map'["80"], x) /\ n443 = RecordAt(map'["443"], x)
                /\ n8080 = RecordAt(map'["8080"], x)
        OBVIOUS
      <4>7. /\ n80.count = r80.count + (IF type = "80" THEN rec.count ELSE 0)
            /\ n443.count = r443.count + (IF type = "443" THEN rec.count ELSE 0)
            /\ n8080.count = r8080.count + (IF type = "8080" THEN rec.count ELSE 0)
            /\ n80.bytes = r80.bytes + (IF type = "80" THEN rec.bytes ELSE 0)
            /\ n443.bytes = r443.bytes + (IF type = "443" THEN rec.bytes ELSE 0)
            /\ n8080.bytes = r8080.bytes + (IF type = "8080" THEN rec.bytes ELSE 0)
        BY <4>3, <4>5, <4>6
      <4>8. n80.count + n443.count + n8080.count <= r.count + rec.count
        BY <4>2, <4>4, <4>7
      <4>9. n80.bytes + n443.bytes + n8080.bytes <= r.bytes + rec.bytes
        BY <4>2, <4>4, <4>7
      <4>10. /\ RecordAt(map'["ALL"], x).count = r.count + rec.count
             /\ RecordAt(map'["ALL"], x).bytes = r.bytes + rec.bytes
        BY <2>7, <4>3
      <4> QED
        BY <4>6, <4>8, <4>9, <4>10 DEF Dominates, PortSum
    <3> QED
      BY <3>2, <3>3
  <2>9. ASSUME NEW x \in Addr
        PROVE  Merged(x)'
    <3>1. Merged(x) /\ Old(x)' = Old(x)
      BY <1>1 DEF InUse, Old
    <3>2. MapNow(x)' = IF x = a THEN Sum(MapNow(x), rec) ELSE MapNow(x)
      BY <2>3, <2>5 DEF MapNow
    <3>3. fresh'[x] = IF x = a THEN Sum(fresh[x], rec) ELSE fresh[x]
      BY <2>2 DEF BooksInv
    <3>4. MapNow(x) \in Record /\ fresh[x] \in Record
      BY <2>3, <2>6 DEF MapNow, BooksInv
    <3>5. IsAddrMap(LoadedFrom(committed["ALL"]), Record) /\ Old(x) \in Record
      <4>1. IsAddrMap(LoadedFrom(committed["ALL"]), Record)
        BY <1>1, <2>3, LoadedType DEF InUse
      <4>2. Old(x) = RecordAt(LoadedFrom(committed["ALL"]), x)
        BY <2>3 DEF Old, Loaded
      <4> QED
        BY <4>1, <4>2, RecordAtType
    <3>6. PICK m \in Record, f \in Record, o \in Record : m = MapNow(x) /\ f = fresh[x] /\ o = Old(x)
      BY <3>4, <3>5
    <3>7. /\ m.count = o.count + f.count /\ m.bytes = o.bytes + f.bytes
          /\ \A s \in {m, f, o, rec} : s.count \in Nat /\ s.bytes \in Nat
      BY <3>1, <3>6 DEF Merged, Record
    <3>8. /\ MapNow(x)'.count = Old(x)'.count + fresh'[x].count
          /\ MapNow(x)'.bytes = Old(x)'.bytes + fresh'[x].bytes
      <4>1. CASE x = a
        <5>1. MapNow(x)' = Sum(m, rec) /\ fresh'[x] = Sum(f, rec) /\ Old(x)' = o
          BY <3>1, <3>2, <3>3, <3>6, <4>1
        <5> QED
          BY <2>7, <3>7, <5>1
      <4>2. CASE x # a
        BY <3>1, <3>2, <3>3, <3>6, <3>7, <4>2
      <4> QED
        BY <4>1, <4>2
    <3> QED
      BY <1>1, <2>3, <2>5, <3>1, <3>8 DEF Merged
  <2>10. InUse'
    BY <1>1, <2>9 DEF InUse, Ledger, Old, Dominates, PortSum
  <2> QED
    BY <1>1, <2>5, <2>8, <2>10 DEF Books
<1> QED
  BY <1>2, <1>3

\* The last list is written: the maps become the lists of this output.
LEMMA OutputBooks ==
    ASSUME BooksInv, Books, pc = "dump", step = 4, NEW content, Write(content)
    PROVE  Books'
<1>1. /\ pc' = "commit" /\ UNCHANGED <<map, fresh>> /\ InUse
      /\ committed' = [t \in Types |-> Dumped(map[t])]
      /\ total' = [a \in Addr |-> Sum(total[a], fresh[a])]
      /\ outputs' = outputs + 1
  BY DEF Write, Proceed, Books, Unused
<1>2. "ALL" \in Types /\ "80" \in Types /\ "443" \in Types /\ "8080" \in Types
  BY DEF Types
<1>3. \A t \in Types : IsAddrMap(map[t], Record)
  BY DEF Books
<1>4. ASSUME NEW t \in Types
      PROVE  /\ IsAddrMap(committed'[t], Entry) /\ DOMAIN committed'[t] = DOMAIN map[t]
             /\ \A a : /\ RecordAt(Loaded'[t], a).count = RecordAt(map[t], a).count
                       /\ RecordAt(Loaded'[t], a).bytes = Cut(RecordAt(map[t], a).bytes)
  <2>1. PICK m : m = map[t]
    OBVIOUS
  <2>2. IsAddrMap(m, Record)
    BY <1>3, <2>1
  <2>3. /\ IsAddrMap(Dumped(m), Entry) /\ DOMAIN Dumped(m) = DOMAIN m
        /\ \A a : /\ RecordAt(LoadedFrom(Dumped(m)), a).count = RecordAt(m, a).count
                  /\ RecordAt(LoadedFrom(Dumped(m)), a).bytes = Cut(RecordAt(m, a).bytes)
    BY <2>2, DumpedFacts
  <2>4. committed'[t] = Dumped(m) /\ Loaded'[t] = LoadedFrom(Dumped(m))
    BY <1>1, <2>1 DEF Loaded
  <2> QED
    BY <2>1, <2>3, <2>4
<1>5. ASSUME NEW a \in Addr
      PROVE  Dominates(Loaded, a)'
  <2>1. PICK r \in Record, r80 \in Record, r443 \in Record, r8080 \in Record :
            /\ r = RecordAt(map["ALL"], a) /\ r80 = RecordAt(map["80"], a)
            /\ r443 = RecordAt(map["443"], a) /\ r8080 = RecordAt(map["8080"], a)
    BY <1>2, <1>3, RecordAtType
  <2>2. /\ r80.count + r443.count + r8080.count <= r.count
        /\ r80.bytes + r443.bytes + r8080.bytes <= r.bytes
    BY <2>1 DEF Books, Dominates, PortSum
  <2>3. /\ r.bytes \in Nat /\ r80.bytes \in Nat /\ r443.bytes \in Nat /\ r8080.bytes \in Nat
    BY DEF Record
  <2>4. Cut(r80.bytes) + Cut(r443.bytes) + Cut(r8080.bytes) <= Cut(r.bytes)
    BY <2>2, <2>3, CutParts
  <2>5. /\ RecordAt(Loaded'["ALL"], a).count = r.count
        /\ RecordAt(Loaded'["80"], a).count = r80.count
        /\ RecordAt(Loaded'["443"], a).count = r443.count
        /\ RecordAt(Loaded'["8080"], a).count = r8080.count
        /\ RecordAt(Loaded'["ALL"], a).bytes = Cut(r.bytes)
        /\ RecordAt(Loaded'["80"], a).bytes = Cut(r80.bytes)
        /\ RecordAt(Loaded'["443"], a).bytes = Cut(r443.bytes)
        /\ RecordAt(Loaded'["8080"], a).bytes = Cut(r8080.bytes)
    BY <1>2, <1>4, <2>1
  <2> QED
    BY <2>2, <2>4, <2>5 DEF Dominates, PortSum
<1>6. ASSUME NEW a \in Addr
      PROVE  Ledger(a)'
  <2>1. IsAddrMap(LoadedFrom(committed["ALL"]), Record)
    BY <1>1, <1>2, LoadedType DEF InUse
  <2>2. Old(a) = RecordAt(LoadedFrom(committed["ALL"]), a)
    BY <1>2 DEF Old, Loaded
  <2>3. PICK m \in Record, f \in Record, o \in Record, s \in Record :
            m = MapNow(a) /\ f = fresh[a] /\ o = Old(a) /\ s = total[a]
    BY <1>2, <1>3, <2>1, <2>2, RecordAtType DEF MapNow, BooksInv
  <2>4. \A x \in {m, f, o, s} : x.count \in Nat /\ x.bytes \in Nat
    BY DEF Record
  <2>5. m.count = o.count + f.count /\ m.bytes = o.bytes + f.bytes
    BY <1>1, <2>3 DEF InUse, Merged
  <2>6. o.count = s.count /\ o.bytes <= s.bytes
    BY <1>1, <2>3 DEF InUse, Ledger
  <2>7. total'[a].count = s.count + f.count /\ total'[a].bytes = s.bytes + f.bytes
    BY <1>1, <2>3, SumType
  <2>8. Old(a)'.count = m.count /\ Old(a)'.bytes = Cut(m.bytes)
    BY <1>2, <1>4, <2>3 DEF Old, MapNow
  <2>9. PICK c \in Nat : c = Cut(m.bytes) /\ c <= m.bytes /\ m.bytes < c + BytesPerMB
    BY <2>4, CutBounds
  <2>10. PICK k \in Nat, b \in Nat : k = outputs * BytesPerMB /\ b = BytesPerMB
    BY MBAssumption, MBOrder DEF BooksInv
  <2>11. outputs' * BytesPerMB = k + b
    BY <1>1, <2>10, MBAssumption DEF BooksInv
  <2>12. Old(a)'.count = total'[a].count
    BY <2>4, <2>5, <2>6, <2>7, <2>8
  <2>13. Old(a)'.bytes <= total'[a].bytes
    BY <2>4, <2>5, <2>6, <2>7, <2>8, <2>9
  <2>14. a \in DOMAIN committed'["ALL"] <=> a \in DOMAIN map["ALL"]
    BY <1>2, <1>4
  <2>15. s.bytes < o.bytes + k \/ (s.bytes = 0 /\ a \notin DOMAIN committed["ALL"])
    BY <1>1, <2>3, <2>10 DEF InUse, Ledger
  <2>16. total'[a].bytes < Old(a)'.bytes + outputs' * BytesPerMB
    BY <2>4, <2>5, <2>7, <2>8, <2>9, <2>10, <2>11, <2>15
  <2>17. ASSUME a \notin DOMAIN map["ALL"]
         PROVE  total'[a].bytes = 0
    <3>1. m = NoRecord /\ a \notin DOMAIN committed["ALL"]
      BY <1>1, <2>3, <2>17 DEF MapNow, RecordAt, InUse, Merged
    <3>2. m.bytes = 0
      BY <3>1 DEF NoRecord
    <3>3. s.bytes = 0
      BY <1>1, <2>3, <3>1 DEF InUse, Ledger
    <3> QED
      BY <2>4, <2>5, <2>7, <3>2, <3>3
  <2> QED
    BY <2>12, <2>13, <2>14, <2>16, <2>17 DEF Ledger
<1>7. InUse'
  BY <1>1, <1>4, <1>5, <1>6 DEF InUse
<1> QED
  BY <1>1, <1>7 DEF Books, Dominates, PortSum

LEMMA BooksStep == FilesInv /\ BooksInv /\ FilesInv' /\ [Next]_vars => BooksInv'
<1> SUFFICES ASSUME FilesInv, BooksInv, FilesInv', [Next]_vars, harm' = "safe"
             PROVE  Books'
  BY TypesStep DEF BooksInv
<1>1. harm = "safe"
  BY SafeStep DEF FilesInv
<1>2. Books
  BY <1>1 DEF BooksInv
<1>3. CASE \E option \in TimeoutOption : CheckFiles(option)
  BY <1>2, <1>3, CheckFilesBooks
<1>4. CASE BuildMaps
  BY <1>1, <1>2, <1>4, BuildMapsBooks
<1>5. CASE \E line \in Line : ProcessLine(line)
  BY <1>2, <1>5, LineBooks
<1>6. CASE GiveUp \/ Crash \/ ((CommitStep \/ RestoreStep \/ CallFails) /\ ~(step < 4))
  <2>1. pc # "idle" /\ Exit /\ UNCHANGED <<committed, total, outputs>>
    BY <1>6 DEF GiveUp, Crash, CommitStep, RestoreStep, CallFails, NextOrExit, history
  <2> QED
    BY <1>2, <2>1, ExitBooks
<1>7. CASE (DumpStep \/ DumpShort) /\ ~(step < 4)
  <2>1. pc = "dump" /\ step = 4 /\ \E content : Write(content)
    BY <1>7 DEF DumpStep, DumpShort, FilesInv, Shapes
  <2> QED
    BY <1>2, <2>1, OutputBooks
<1>8. CASE \/ EndOfLog \/ BackupStep \/ BackupFails \/ DumpFails
           \/ ((DumpStep \/ DumpShort \/ CommitStep \/ RestoreStep \/ CallFails) /\ step < 4)
  <2>1. /\ UNCHANGED <<map, fresh, committed, total, outputs>>
        /\ pc \notin {"idle", "build"} /\ pc' \notin {"idle", "build"}
        /\ pc' \in {"log", "backup", "dump"} => pc \in {"log", "backup", "dump"}
    BY <1>8 DEF EndOfLog, BackupStep, BackupFails, DumpFails, DumpStep, DumpShort, Write,
                CommitStep, RestoreStep, CallFails, NextOrExit, Proceed, history
  <2> QED
    BY <1>2, <2>1, QuietBooks
<1>9. CASE UNCHANGED vars
  BY <1>2, <1>9 DEF vars, Books, Unused, InUse, Ledger, Merged, MapNow, Old, Loaded,
                    Dominates, PortSum
<1> QED
  BY <1>3, <1>4, <1>5, <1>6, <1>7, <1>8, <1>9 DEF Next

LEMMA BooksInit == Init => BooksInv
<1> SUFFICES ASSUME Init PROVE BooksInv
  OBVIOUS
<1>1. /\ map = NoMaps /\ fresh = NoLines /\ Unused /\ outputs = 0 /\ faults = 0
      /\ DOMAIN committed = Types
  BY DEF Init, NoMaps, Unused, NoLists
<1>2. \A t \in Types : IsAddrMap(map[t], Record)
  BY <1>1, EmptyMap DEF NoMaps
<1>3. \A a \in Addr : Dominates(map, a)
  BY <1>1, EmptyDominates
<1> QED
  BY <1>1, <1>2, <1>3, NoLinesType DEF BooksInv, Books, Unused

LEMMA UndoneStep == FilesInv /\ Undone /\ [Next]_vars => Undone'
<1> SUFFICES ASSUME FilesInv, Undone, [Next]_vars, pc' = "restore",
                    NEW l \in Types \ unrestored', Dealt(l)'
             PROVE  orig'[l] = ABSENT
  BY DEF Undone
<1>1. Shapes /\ DOMAIN orig = Types /\ step \in 1 .. 4
  BY DEF FilesInv, Shapes
<1>2. CASE DumpFails
  <2>1. step' = 1
    BY <1>2 DEF DumpFails
  <2> QED
    BY <1>1, <2>1, DealtNext
<1>3. CASE RestoreStep \/ CallFails
  <2> DEFINE b == BackupOrder[step]
  <2>1. pc = "restore" /\ step < 4 /\ step' = step + 1 /\ b \in Types
    BY <1>1, <1>3, OrderComplete DEF RestoreStep, CallFails, NextOrExit, Exit
  <2>2. Dealt(l) \/ l = b
    BY <1>1, <2>1, DealtNext
  <2>3. CASE l = b
    <3>1. RestoreStep
      BY <1>3, <2>1, <2>3 DEF CallFails
    <3> QED
      BY <1>1, <2>1, <2>3, <3>1 DEF RestoreStep, Restore
  <2>4. CASE l # b
    <3>1. orig'[l] = orig[l]
      BY <1>1, <1>3, <2>1, <2>4 DEF RestoreStep, Restore, CallFails
    <3>2. l \notin unrestored
      BY <1>3 DEF RestoreStep, CallFails, unmoved
    <3> QED
      BY <2>1, <2>2, <2>4, <3>1, <3>2 DEF Undone
  <2> QED
    BY <2>3, <2>4
<1>4. CASE UNCHANGED vars
  BY <1>4 DEF vars, Undone, Dealt
<1> QED
  BY <1>2, <1>3, <1>4 DEF Next, CheckFiles, BuildMaps, GiveUp, ProcessLine, EndOfLog,
         BackupStep, BackupFails, DumpStep, DumpShort, CommitStep, Crash, Write, Exit,
         Proceed, NextOrExit, FilesInv, PhaseOK, Phases

\* The last list of an output that failed is renamed back.
LEMMA RestoreEnds ==
    ASSUME FilesInv, BooksInv, Undone, [Next]_vars, harm = "safe",
           pc = "restore", pc' = "idle", faults' = faults,
           NEW l \in Types \ (unbacked \cup unrestored)
    PROVE  file'[l] = committed[l] /\ orig'[l] = ABSENT
<1> DEFINE b == BackupOrder[step]
<1>1. /\ DOMAIN file = Types /\ DOMAIN orig = Types /\ step \in 1 .. 4 /\ b \in Types
      /\ Shapes /\ faults \in Nat
  BY OrderComplete DEF FilesInv, Shapes, BooksInv
<1>2. RestoreStep
  BY <1>1 DEF Next, vars, CheckFiles, BuildMaps, GiveUp, ProcessLine, EndOfLog, BackupStep,
         BackupFails, DumpStep, DumpShort, DumpFails, CommitStep, CallFails, Crash, Write,
         Fault
<1>3. step = 4
  BY <1>1, <1>2 DEF RestoreStep, NextOrExit
<1>4. committed[l] # ABSENT
  <2>1. InUse
    BY DEF BooksInv, Books, Unused
  <2> QED
    BY <2>1, ListThere DEF InUse
<1>5. Placed(l)
  BY DEF FilesInv, ListsPlaced
<1>6. CASE l = b
  <2>1. ~Dealt(l)
    BY <1>1, <1>6 DEF Dealt, BackupOrder
  <2>2. orig[l] = committed[l]
    BY <1>4, <1>5, <2>1 DEF Placed, Kept
  <2> QED
    BY <1>1, <1>2, <1>4, <1>6, <2>2 DEF RestoreStep, Restore
<1>7. CASE l # b
  <2>1. Dealt(l)
    BY <1>1, <1>3, <1>7, DealtNext
  <2>2. file[l] = committed[l]
    BY <1>4, <1>5, <2>1 DEF Placed, InPlace
  <2>3. orig[l] = ABSENT
    BY <2>1 DEF Undone
  <2>4. file'[l] = file[l] /\ orig'[l] = orig[l]
    BY <1>1, <1>2, <1>7 DEF RestoreStep, Restore
  <2> QED
    BY <2>2, <2>3, <2>4
<1> QED
  BY <1>6, <1>7

(***************************************************************************)
(* The theorems about output, and about what the lists say.                *)
(***************************************************************************)

\* The inductive invariant: where each list is, and what it says.
AnalyzerInv == FilesInv /\ BooksInv /\ Undone
THEOREM AnalyzerInvariant == Spec => []AnalyzerInv
<1>1. Init => AnalyzerInv
  <2>1. Init => Undone
    BY DEF Init, Undone
  <2> QED
    BY <2>1, FilesInit, BooksInit DEF AnalyzerInv
<1>2. AnalyzerInv /\ [Next]_vars => AnalyzerInv'
  BY FilesStep, BooksStep, UndoneStep DEF AnalyzerInv
<1> QED
  BY <1>1, <1>2, PTL DEF Spec

\* analyzer.cpp's output when a list cannot be written: the lists that were
\* renamed are there again as they were, and no .orig is left.
THEOREM FailedOutputUndone == Spec => FailureRestores
<1>1. AnalyzerInv /\ [Next]_vars
         => [harm = "safe" /\ pc = "restore" /\ pc' = "idle" /\ faults' = faults =>
                \A l \in Types \ (unbacked \cup unrestored) :
                   file'[l] = committed[l] /\ orig'[l] = ABSENT]_vars
  BY RestoreEnds DEF AnalyzerInv
<1> QED
  BY <1>1, AnalyzerInvariant, PTL DEF Spec, FailureRestores

\* record2map, dump_record and parse_c_list over any number of runs: the common
\* list counts every connection, and loses of an address's traffic less than
\* one megabyte a run.
THEOREM BooksBalance == Spec => []HistoryAccounted
<1>1. AnalyzerInv => HistoryAccounted
  <2> SUFFICES ASSUME AnalyzerInv, harm = "safe", outputs > 0, NEW a \in Addr
               PROVE  IF a \notin DOMAIN committed["ALL"] THEN total[a].count = 0
                      ELSE LET e == committed["ALL"][a] IN
                           /\ e.count = total[a].count
                           /\ e.mb * BytesPerMB <= total[a].bytes
                           /\ total[a].bytes < e.mb * BytesPerMB + outputs * BytesPerMB
    BY DEF HistoryAccounted
  <2>1. InUse
    BY DEF AnalyzerInv, BooksInv, Books, Unused
  <2>2. Ledger(a) /\ "ALL" \in Types
    BY <2>1 DEF InUse, Types
  <2>3. Old(a) = IF a \in DOMAIN committed["ALL"] THEN ReadBack(committed["ALL"][a])
                 ELSE NoRecord
    BY <2>2 DEF Old, Loaded, LoadedFrom, RecordAt
  <2>4. CASE a \in DOMAIN committed["ALL"]
    <3>1. committed["ALL"][a] \in Entry
      BY <2>1, <2>2, <2>4 DEF InUse, IsAddrMap
    <3>2. /\ Old(a).count = committed["ALL"][a].count
          /\ Old(a).bytes = committed["ALL"][a].mb * BytesPerMB
      BY <2>3, <2>4, <3>1, ReadBackType
    <3> QED
      BY <2>2, <2>4, <3>2 DEF Ledger
  <2>5. CASE a \notin DOMAIN committed["ALL"]
    BY <2>2, <2>3, <2>5 DEF Ledger, NoRecord
  <2> QED
    BY <2>4, <2>5
<1> QED
  BY <1>1, AnalyzerInvariant, PTL

\* process_logfile and dump_list: rounding, list by list and run by run, never
\* makes the ports of an address add up to more than its common record.
THEOREM CommonCoversPorts == Spec => []CommonDominates
<1>1. AnalyzerInv => CommonDominates
  BY DEF AnalyzerInv, BooksInv, Books, Dominates, CommonDominates
<1> QED
  BY <1>1, AnalyzerInvariant, PTL

(***************************************************************************)
(* Blocks.                                                                 *)
(***************************************************************************)

\* The powers of two that the shifts stand for.
LEMMA ShlPowers == IsPowers(shl, Width)
<1>1. Width \in Nat
  BY WidthAssumption
<1>2. Doubles(shl, Width)
  <2>1. \E f : f = [n \in 0 .. Width |-> IF n = 0 THEN 1 ELSE 2 * f[n - 1]]
    BY <1>1, DoublesExists DEF Doubles
  <2> QED
    BY <2>1 DEF shl, Doubles
<1> QED
  BY <1>1, <1>2, DoublesPowers

LEMMA ShlFacts ==
    /\ Width \in Nat \ {0}
    /\ shl[0] = 1
    /\ \A n \in 0 .. Width : shl[n] \in Nat \ {0}
    /\ \A n \in 1 .. Width : shl[n] = 2 * shl[n - 1]
BY ShlPowers, WidthAssumption DEF IsPowers

\* A power of two divides the greater ones.
LEMMA ShlMultiple ==
    ASSUME NEW i \in 0 .. Width
    PROVE  \A j \in i .. Width : \E k \in Nat \ {0} : shl[j] = shl[i] * k
<1> DEFINE S == {d \in Nat : i + d <= Width => \E k \in Nat \ {0} : shl[i + d] = shl[i] * k}
<1>1. 0 \in S
  <2>1. shl[i] = shl[i] * 1 /\ i + 0 = i
    BY ShlFacts
  <2> QED
    BY <2>1
<1>2. ASSUME NEW d \in Nat, d \in S
      PROVE  d + 1 \in S
  <2> SUFFICES ASSUME i + (d + 1) <= Width
               PROVE  \E k \in Nat \ {0} : shl[i + (d + 1)] = shl[i] * k
    OBVIOUS
  <2>1. PICK k \in Nat \ {0} : shl[i + d] = shl[i] * k
    BY <1>2, WidthAssumption
  <2>2. i + (d + 1) \in 1 .. Width /\ (i + (d + 1)) - 1 = i + d
    BY WidthAssumption
  <2>3. shl[i + (d + 1)] = 2 * shl[i + d]
    BY <2>2, ShlFacts
  <2>4. shl[i] \in Nat
    BY ShlFacts
  <2>5. shl[i + (d + 1)] = shl[i] * (2 * k)
    BY <2>1, <2>3, <2>4
  <2> QED
    BY <2>5
<1>3. \A d \in Nat : d \in S
  <2> HIDE DEF S
  <2> QED
    BY <1>1, <1>2, Induction
<1> SUFFICES ASSUME NEW j \in i .. Width PROVE \E k \in Nat \ {0} : shl[j] = shl[i] * k
  OBVIOUS
<1>4. j - i \in Nat /\ i + (j - i) = j /\ j <= Width
  BY WidthAssumption
<1>5. j - i \in S
  BY <1>3, <1>4
<1> QED
  BY <1>4, <1>5

LEMMA Words ==
    /\ Top \in Nat /\ 0 \in Word /\ Top \in Word /\ Top = shl[Width] - 1
    /\ \A x : x \in Word <=> x \in Nat /\ x < shl[Width]
    /\ \A x \in Word : Succ(x) = IF x = Top THEN 0 ELSE x + 1
<1>1. PICK s \in Nat \ {0} : s = shl[Width]
  BY ShlFacts
<1>2. Top = s - 1 /\ Top \in Nat
  BY <1>1 DEF Top
<1>3. ASSUME NEW x \in 0 .. s - 1
      PROVE  (x + 1) % s = IF x = s - 1 THEN 0 ELSE x + 1
  <2>1. CASE x = s - 1
    BY <2>1
  <2>2. CASE x # s - 1
    <3>1. x + 1 \in 0 .. s - 1
      BY <2>2
    <3> QED
      BY <2>2, <3>1
  <2> QED
    BY <2>1, <2>2
<1> QED
  BY <1>1, <1>2, <1>3 DEF Word, Succ

\* The block of an address: what has the same quotient by its size.
LEMMA BlockFacts ==
    ASSUME NEW addr \in Word, NEW mask \in 0 .. Width
    PROVE  LET seg == get_ip_seg_from_ip_mask(addr, mask) IN
           /\ seg[1] \in Word /\ seg[2] \in Word
           /\ seg[1] <= addr /\ addr <= seg[2] /\ seg[2] = seg[1] + BlockSize(mask) - 1
           /\ \A x \in Nat : x \in seg[1] .. seg[2] <=> x \div BlockSize(mask) = addr \div BlockSize(mask)
<1> DEFINE n == Width - mask
<1>1. n \in 0 .. Width
  BY WidthAssumption
<1>2. PICK s \in Nat \ {0} : s = BlockSize(mask)
  BY <1>1, ShlFacts DEF BlockSize
<1>3. PICK q \in Nat : q = addr \div s
  BY Words, Quotient
<1>4. s * q \in Nat /\ s * q <= addr /\ addr < s * q + s /\ addr - (addr % s) = s * q /\ addr \in Nat
  BY <1>3, Words, Quotient
<1>5. PICK low \in Nat : low = s * q
  BY <1>4
<1>6. get_ip_seg_from_ip_mask(addr, mask) = <<low, low + s - 1>>
  BY <1>2, <1>4, <1>5 DEF get_ip_seg_from_ip_mask
<1>7. low + s <= shl[Width]
  <2>1. PICK k \in Nat : shl[Width] = s * k
    <3>1. Width \in n .. Width
      BY <1>1, WidthAssumption
    <3>2. \E k \in Nat \ {0} : shl[Width] = shl[n] * k
      BY <1>1, <3>1, ShlMultiple
    <3> QED
      BY <1>2, <3>2 DEF BlockSize
  <2>2. addr < s * k
    BY <2>1, Words
  <2>3. ~(k <= q)
    <3>1. k <= q => s * k <= s * q
      BY ProductOrder
    <3>2. s * k \in Nat
      BY ProductOrder
    <3> QED
      BY <1>4, <2>2, <3>1, <3>2
  <2>4. q < k
    BY <2>3
  <2>5. s * q + s <= s * k
    BY <2>4, ProductOrder
  <2> QED
    BY <1>5, <2>1, <2>5
<1>8. low \in Word /\ low + s - 1 \in Word
  <2>1. shl[Width] \in Nat
    BY ShlFacts, WidthAssumption
  <2> QED
    BY <1>7, <2>1, Words
<1>9. ASSUME NEW x \in Nat
      PROVE  x \in low .. low + s - 1 <=> x \div s = q
  <2>1. ASSUME x \in low .. low + s - 1
        PROVE  x \div s = q
    <3>1. s * q <= x /\ x < s * q + s
      BY <1>5, <2>1
    <3> QED
      BY <3>1, QuotientUnique
  <2>2. ASSUME x \div s = q
        PROVE  x \in low .. low + s - 1
    <3>1. s * q <= x /\ x < s * q + s
      BY <2>2, Quotient
    <3> QED
      BY <1>5, <3>1
  <2> QED
    BY <2>1, <2>2
<1>10. low <= addr /\ addr <= low + s - 1
  BY <1>4, <1>5
<1> QED
  BY <1>2, <1>3, <1>6, <1>8, <1>9, <1>10

(***************************************************************************)
(* From a prefix to its block and back.                                    *)
(***************************************************************************)

\* A coarser shift agrees where a finer one does; the widest always does.
LEMMA AgreeUp ==
    ASSUME NEW seg \in Word \X Word, NEW i \in 0 .. Width, NEW j \in i .. Width,
           AgreeFrom(seg, i)
    PROVE  AgreeFrom(seg, j)
<1>1. PICK k \in Nat \ {0} : shl[j] = shl[i] * k
  BY ShlMultiple
<1>2. PICK s \in Nat \ {0} : s = shl[i]
  BY ShlFacts
<1>3. \A x \in Nat : x \div (s * k) = (x \div s) \div k
  BY QuotientTwice
<1>4. seg[1] \in Nat /\ seg[2] \in Nat
  BY Words
<1> QED
  BY <1>1, <1>2, <1>3, <1>4 DEF AgreeFrom

LEMMA AgreeTop ==
    ASSUME NEW seg \in Word \X Word
    PROVE  AgreeFrom(seg, Width)
<1>1. PICK s \in Nat \ {0} : s = shl[Width]
  BY ShlFacts
<1>2. \A x \in Word : x \in Nat /\ s * 0 <= x /\ x < s * 0 + s
  BY <1>1, Words
<1>3. \A x \in Word : x \div s = 0
  BY <1>2, QuotientUnique
<1> QED
  BY <1>1, <1>3 DEF AgreeFrom

\* What the binary search computes: one round, and that it is defined.
Ranges == (0 .. Width) \X (0 .. Width)
Round(seg, f, r) ==
    LET mid == (r[1] + r[2]) \div 2 IN
    IF r[2] - r[1] <= 1 THEN r
    ELSE IF AgreeFrom(seg, mid) THEN f[<<r[1], mid>>] ELSE f[<<mid, r[2]>>]

LEMMA RoundShrinks ==
    ASSUME NEW r \in Ranges, r[2] - r[1] > 1
    PROVE  LET mid == (r[1] + r[2]) \div 2 IN
           /\ mid \in 0 .. Width /\ r[1] < mid /\ mid < r[2]
           /\ <<r[1], mid>> \in Ranges /\ <<mid, r[2]>> \in Ranges
<1>1. r[1] \in 0 .. Width /\ r[2] \in 0 .. Width
  BY DEF Ranges
<1>2. PICK b \in Nat, e \in Nat : b = r[1] /\ e = r[2] /\ e <= Width
  BY <1>1
<1>3. e - b > 1
  BY <1>2
<1>4. PICK mid \in Nat : mid = (b + e) \div 2 /\ b < mid /\ mid < e
  BY <1>3
<1>5. mid \in 0 .. Width
  BY <1>2, <1>4, WidthAssumption
<1> QED
  BY <1>1, <1>2, <1>4, <1>5 DEF Ranges

LEMMA SearchExists ==
    ASSUME NEW seg
    PROVE  \E f : f = [r \in Ranges |-> Round(seg, f, r)]
<1> DEFINE D(k) == {r \in Ranges : r[2] - r[1] <= k}
           F(f, k) == f = [r \in D(k) |-> Round(seg, f, r)]
           S == {k \in Nat : \E f : F(f, k)}
<1>1. 0 \in S
  <2> DEFINE f == [r \in D(0) |-> r]
  <2>1. \A r \in D(0) : f[r] = Round(seg, f, r)
    <3> SUFFICES ASSUME NEW r \in D(0) PROVE f[r] = Round(seg, f, r)
      OBVIOUS
    <3>1. r[1] \in Int /\ r[2] \in Int /\ r[2] - r[1] <= 0
      BY DEF Ranges
    <3>2. r[2] - r[1] <= 1
      BY <3>1
    <3> QED
      BY <3>2 DEF Round
  <2>2. f = [r \in D(0) |-> f[r]]
    OBVIOUS
  <2>3. F(f, 0)
    BY <2>1, <2>2
  <2> HIDE DEF f, F
  <2> QED
    BY <2>3
<1>2. ASSUME NEW k \in Nat, k \in S
      PROVE  k + 1 \in S
  <2>1. PICK f : F(f, k)
    BY <1>2
  <2> DEFINE g == [r \in D(k + 1) |-> Round(seg, f, r)]
  <2>2. \A r \in D(k) : r \in D(k + 1) /\ g[r] = f[r]
    <3> SUFFICES ASSUME NEW r \in D(k) PROVE r \in D(k + 1) /\ g[r] = f[r]
      OBVIOUS
    <3>1. r \in D(k + 1)
      BY DEF Ranges
    <3>2. f[r] = Round(seg, f, r)
      BY <2>1
    <3> QED
      BY <3>1, <3>2
  <2>3. \A r \in D(k + 1) : Round(seg, g, r) = Round(seg, f, r)
    <3> SUFFICES ASSUME NEW r \in D(k + 1) PROVE Round(seg, g, r) = Round(seg, f, r)
      OBVIOUS
    <3>1. CASE r[2] - r[1] <= 1
      BY <3>1 DEF Round
    <3>2. CASE r[2] - r[1] > 1
      <4>1. PICK mid : mid = (r[1] + r[2]) \div 2
        OBVIOUS
      <4>2. /\ mid \in 0 .. Width /\ r[1] < mid /\ mid < r[2]
            /\ <<r[1], mid>> \in Ranges /\ <<mid, r[2]>> \in Ranges
        BY <3>2, <4>1, RoundShrinks
      <4>3. r[1] \in Nat /\ r[2] \in Nat /\ mid \in Nat /\ r[2] - r[1] <= k + 1
        BY <4>2 DEF Ranges
      <4>4. mid - r[1] <= k /\ r[2] - mid <= k
        BY <4>2, <4>3
      <4>5. <<r[1], mid>> \in D(k) /\ <<mid, r[2]>> \in D(k)
        BY <4>2, <4>4
      <4>6. g[<<r[1], mid>>] = f[<<r[1], mid>>] /\ g[<<mid, r[2]>>] = f[<<mid, r[2]>>]
        BY <2>2, <4>5
      <4> HIDE DEF g, D
      <4> QED
        BY <3>2, <4>1, <4>6 DEF Round
    <3>3. r[2] - r[1] <= 1 \/ r[2] - r[1] > 1
      BY DEF Ranges
    <3> QED
      BY <3>1, <3>2, <3>3
  <2>4. F(g, k + 1)
    BY <2>3
  <2> HIDE DEF F, g
  <2> QED
    BY <2>4
<1>3. \A k \in Nat : k \in S
  <2> HIDE DEF S
  <2> QED
    BY <1>1, <1>2, Induction
<1>4. PICK f : F(f, Width)
  BY <1>3, WidthAssumption
<1>5. D(Width) = Ranges
  <2> SUFFICES ASSUME NEW r \in Ranges PROVE r[2] - r[1] <= Width
    OBVIOUS
  <2> QED
    BY WidthAssumption DEF Ranges
<1> QED
  BY <1>4, <1>5

LEMMA HalveRound ==
    ASSUME NEW seg
    PROVE  \A r \in Ranges :
              LET mid == (r[1] + r[2]) \div 2 IN
              Halve(seg, r) = IF r[2] - r[1] <= 1 THEN r
                              ELSE IF AgreeFrom(seg, mid) THEN Halve(seg, <<r[1], mid>>)
                              ELSE Halve(seg, <<mid, r[2]>>)
<1> DEFINE search == CHOOSE f : f = [r \in Ranges |-> Round(seg, f, r)]
<1>1. search = [r \in Ranges |-> Round(seg, search, r)]
  BY SearchExists
<1>2. \A r : Halve(seg, r) = search[r]
  BY DEF Halve, Ranges, Round
<1> HIDE DEF search
<1>3. \A r \in Ranges : search[r] = Round(seg, search, r)
  BY <1>1
<1> QED
  BY <1>2, <1>3 DEF Round

\* The search keeps what it looks for in its range.
Bracket(seg, r) ==
    /\ r \in Ranges /\ r[1] < r[2]
    /\ AgreeFrom(seg, r[2])
    /\ r[1] = 0 \/ ~AgreeFrom(seg, r[1])

LEMMA SearchNarrows ==
    ASSUME NEW seg
    PROVE  \A r \in Ranges : Bracket(seg, r) =>
              LET h == Halve(seg, r) IN Bracket(seg, h) /\ h[2] = h[1] + 1
<1> DEFINE P(r) == Bracket(seg, Halve(seg, r)) /\ Halve(seg, r)[2] = Halve(seg, r)[1] + 1
           S == {k \in Nat : \A r \in Ranges : Bracket(seg, r) /\ r[2] - r[1] <= k => P(r)}
<1>1. 0 \in S
  <2> SUFFICES ASSUME NEW r \in Ranges, Bracket(seg, r), r[2] - r[1] <= 0 PROVE FALSE
    OBVIOUS
  <2> QED
    BY DEF Bracket, Ranges
<1>2. ASSUME NEW k \in Nat, k \in S
      PROVE  k + 1 \in S
  <2> SUFFICES ASSUME NEW r \in Ranges, Bracket(seg, r), r[2] - r[1] <= k + 1
               PROVE  P(r)
    OBVIOUS
  <2>1. CASE r[2] - r[1] <= 1
    <3>1. Halve(seg, r) = r
      BY <2>1, HalveRound
    <3>2. r[1] \in Nat /\ r[2] \in Nat /\ r[1] < r[2]
      BY DEF Ranges, Bracket
    <3>3. r[2] = r[1] + 1
      BY <2>1, <3>2
    <3> QED
      BY <3>1, <3>3
  <2>2. CASE r[2] - r[1] > 1
    <3>1. PICK mid : mid = (r[1] + r[2]) \div 2
      OBVIOUS
    <3>2. /\ mid \in 0 .. Width /\ r[1] < mid /\ mid < r[2]
          /\ <<r[1], mid>> \in Ranges /\ <<mid, r[2]>> \in Ranges
      BY <2>2, <3>1, RoundShrinks
    <3>3. r[1] \in Nat /\ r[2] \in Nat /\ mid \in Nat
      BY <3>2 DEF Ranges
    <3>4. mid - r[1] <= k /\ r[2] - mid <= k /\ ~(r[2] - r[1] <= 1)
      BY <2>2, <3>2, <3>3
    <3>5. Halve(seg, r) = IF AgreeFrom(seg, mid) THEN Halve(seg, <<r[1], mid>>)
                                                 ELSE Halve(seg, <<mid, r[2]>>)
      BY <3>1, <3>4, HalveRound
    <3>6. CASE AgreeFrom(seg, mid)
      <4>1. PICK l \in Ranges : l = <<r[1], mid>>
        BY <3>2
      <4>2. Bracket(seg, l) /\ l[2] - l[1] <= k
        BY <3>2, <3>4, <3>6, <4>1 DEF Bracket
      <4>3. P(l)
        BY <1>2, <4>2
      <4> QED
        BY <3>5, <3>6, <4>1, <4>3
    <3>7. CASE ~AgreeFrom(seg, mid)
      <4>1. PICK l \in Ranges : l = <<mid, r[2]>>
        BY <3>2
      <4>2. Bracket(seg, l) /\ l[2] - l[1] <= k
        BY <3>2, <3>4, <3>7, <4>1 DEF Bracket
      <4>3. P(l)
        BY <1>2, <4>2
      <4> QED
        BY <3>5, <3>7, <4>1, <4>3
    <3> QED
      BY <3>6, <3>7
  <2>3. r[2] - r[1] <= 1 \/ r[2] - r[1] > 1
    BY DEF Ranges
  <2> QED
    BY <2>1, <2>2, <2>3
<1>3. \A k \in Nat : k \in S
  <2> HIDE DEF S
  <2> QED
    BY <1>1, <1>2, Induction
<1> SUFFICES ASSUME NEW r \in Ranges, Bracket(seg, r) PROVE P(r)
  OBVIOUS
<1>4. r[2] - r[1] \in Nat /\ r[2] - r[1] <= r[2] - r[1]
  BY DEF Ranges, Bracket
<1>5. r[2] - r[1] \in S
  BY <1>3, <1>4
<1> QED
  BY <1>4, <1>5

\* get_ip_mask_from_ip_seg: of any two addresses, the longest prefix they share.
THEOREM MaskLongest ==
    ASSUME NEW seg \in Word \X Word
    PROVE  LET mask == get_ip_mask_from_ip_seg(seg) IN
           /\ mask \in 0 .. Width
           /\ AgreeFrom(seg, Width - mask)
           /\ \A n \in 0 .. Width : AgreeFrom(seg, n) => n >= Width - mask
<1>1. PICK r : r = <<0, Width>>
  OBVIOUS
<1>2. r \in Ranges /\ Bracket(seg, r)
  BY <1>1, AgreeTop, WidthAssumption DEF Ranges, Bracket
<1>3. PICK h : h = Halve(seg, r)
  OBVIOUS
<1>4. Bracket(seg, h) /\ h[2] = h[1] + 1
  BY <1>2, <1>3, SearchNarrows
<1>5. PICK b \in Nat, e \in Nat :
          /\ b = h[1] /\ e = h[2] /\ e = b + 1 /\ e <= Width
          /\ AgreeFrom(seg, e) /\ (b = 0 \/ ~AgreeFrom(seg, b))
  BY <1>4 DEF Bracket, Ranges
<1>6. PICK n \in Nat : n = IF AgreeFrom(seg, b) THEN b ELSE e
  OBVIOUS
<1>7. n \in 0 .. Width /\ AgreeFrom(seg, n) /\ n <= e
  BY <1>5, <1>6, WidthAssumption
<1>8. PICK mask : mask = get_ip_mask_from_ip_seg(seg)
  OBVIOUS
<1>9. mask = Width - n
  BY <1>1, <1>3, <1>5, <1>6, <1>8 DEF get_ip_mask_from_ip_seg
<1>10. mask \in 0 .. Width /\ Width - mask = n
  BY <1>7, <1>9, WidthAssumption
<1>11. ASSUME NEW m \in 0 .. Width, AgreeFrom(seg, m)
       PROVE  m >= n
  <2>1. CASE AgreeFrom(seg, b)
    BY <1>5, <1>6, <2>1
  <2>2. CASE ~AgreeFrom(seg, b)
    <3>1. ~(m <= b)
      <4>1. m <= b => b \in m .. Width
        BY <1>5, WidthAssumption
      <4> QED
        BY <1>11, <2>2, <4>1, AgreeUp
    <3> QED
      BY <1>5, <1>6, <2>2, <3>1
  <2> QED
    BY <2>1, <2>2
<1> QED
  BY <1>7, <1>8, <1>10, <1>11

\* What is printed of a block is read as the same block, for every mask.
THEOREM PrefixRoundTrip ==
    ASSUME NEW addr \in Word, NEW mask \in 0 .. Width
    PROVE  get_ip_mask_from_ip_seg(get_ip_seg_from_ip_mask(addr, mask)) = mask
<1>1. PICK seg : seg = get_ip_seg_from_ip_mask(addr, mask)
  OBVIOUS
<1>2. PICK n \in 0 .. Width : n = Width - mask
  BY WidthAssumption
<1>3. PICK s \in Nat \ {0} : s = shl[n] /\ s = BlockSize(mask)
  BY <1>2, ShlFacts DEF BlockSize
<1>4. /\ seg[1] \in Word /\ seg[2] \in Word
      /\ seg[1] <= addr /\ addr <= seg[2] /\ seg[2] = seg[1] + s - 1
      /\ \A x \in Nat : x \in seg[1] .. seg[2] <=> x \div s = addr \div s
  BY <1>1, <1>3, BlockFacts
<1>5. seg \in Word \X Word
  BY <1>1, <1>4 DEF get_ip_seg_from_ip_mask
<1>6. PICK low \in Nat, high \in Nat : low = seg[1] /\ high = seg[2] /\ high = low + s - 1
  BY <1>4, Words
<1>7. AgreeFrom(seg, n)
  <2>1. low \in low .. high /\ high \in low .. high
    BY <1>6
  <2>2. low \div s = addr \div s /\ high \div s = addr \div s
    BY <1>4, <1>6, <2>1
  <2> QED
    BY <1>3, <1>6, <2>2 DEF AgreeFrom
<1>8. ASSUME NEW m \in 0 .. Width, m < n
      PROVE  ~AgreeFrom(seg, m)
  <2>0. n \in 1 .. Width /\ n - 1 \in 0 .. Width /\ n - 1 \in m .. Width
    BY <1>8, WidthAssumption
  <2>1. PICK k \in Nat \ {0} : shl[n - 1] = shl[m] * k
    BY <2>0, ShlMultiple
  <2>2. PICK u \in Nat \ {0}, v \in Nat \ {0} : u = shl[m] /\ v = shl[n - 1] /\ s = 2 * v
    <3>1. shl[n] = 2 * shl[n - 1] /\ shl[m] \in Nat \ {0} /\ shl[n - 1] \in Nat \ {0}
      BY <2>0, ShlFacts
    <3> QED
      BY <1>3, <3>1
  <2>3. u <= v
    <3>1. 1 <= k => u * 1 <= u * k
      BY ProductOrder
    <3> QED
      BY <2>1, <2>2, <3>1
  <2>4. SUFFICES ASSUME low \div u = high \div u PROVE FALSE
    BY <1>6, <2>2 DEF AgreeFrom
  <2>5. PICK q \in Nat : q = low \div u /\ q = high \div u
    BY <2>4, Quotient
  <2>6. PICK y \in Nat : y = u * q
    OBVIOUS
  <2>7. y <= low /\ high < y + u
    BY <2>5, <2>6, Quotient
  <2> QED
    BY <1>6, <2>2, <2>3, <2>7
<1>9. PICK r : r = get_ip_mask_from_ip_seg(seg)
  OBVIOUS
<1>10. r \in 0 .. Width /\ AgreeFrom(seg, Width - r)
       /\ \A m \in 0 .. Width : AgreeFrom(seg, m) => m >= Width - r
  BY <1>5, <1>9, MaskLongest
<1>11. PICK m \in 0 .. Width : m = Width - r
  BY <1>10, WidthAssumption
<1>12. m <= n /\ ~(m < n)
  BY <1>7, <1>8, <1>10, <1>11
<1>13. m = n
  BY <1>12
<1> QED
  BY <1>1, <1>2, <1>9, <1>10, <1>11, <1>13, WidthAssumption

(***************************************************************************)
(* Loading.                                                                *)
(***************************************************************************)

\* A line that is skipped names nothing, or was read with garbage behind it;
\* another names its block.
LEMMA LineBlock ==
    ASSUME NEW text \in ListText, NEW read \in get_ip_seg_from_mask_str(text)
    PROVE  /\ read \in Word \X Word /\ read[1] <= read[2]
           /\ Skipped(read) => Sure(text) = {}
           /\ ~Skipped(read) => Named(text) = read[1] .. read[2]
<1> DEFINE mask == MaskOf(text)
<1>0. /\ text.ip # NOTHING
      /\ \/ read = <<0, 0>> /\ (text.ip = MISSING \/ text.ip \in Long)
         \/ read = get_ip_seg_from_ip_mask(text.ip, mask) /\ text.ip # MISSING
  BY DEF get_ip_seg_from_mask_str
<1>1. CASE read = <<0, 0>> /\ (text.ip = MISSING \/ text.ip \in Long)
  <2>1. Sure(text) = {}
    BY <1>1 DEF Sure, Named
  <2> QED
    BY <1>1, <2>1, Words DEF Skipped
<1>2. CASE /\ read = get_ip_seg_from_ip_mask(text.ip, mask)
           /\ mask \notin 0 .. Width
  <2>1. read = <<0, 0>>
    BY <1>2 DEF get_ip_seg_from_ip_mask
  <2>2. Sure(text) = {}
    BY <1>2 DEF Sure, Named
  <2> QED
    BY <2>1, <2>2, Words DEF Skipped
<1>3. CASE /\ read = get_ip_seg_from_ip_mask(text.ip, mask)
           /\ text.ip # MISSING /\ mask \in 0 .. Width
  <2>1. PICK ip0 \in Word, m \in 0 .. Width : ip0 = text.ip /\ m = mask
    BY <1>0, <1>3, TextAssumption
  <2> HIDE DEF mask
  <2>2. PICK n \in 0 .. Width : n = Width - m
    BY WidthAssumption
  <2>3. PICK s \in Nat \ {0} : s = BlockSize(m) /\ s = shl[n]
    BY <2>2, ShlFacts DEF BlockSize
  <2>4. PICK seg : seg = get_ip_seg_from_ip_mask(ip0, m)
    OBVIOUS
  <2>5. read = seg
    BY <1>3, <2>1, <2>4
  <2>6. /\ seg[1] \in Word /\ seg[2] \in Word
        /\ seg[1] <= ip0 /\ ip0 <= seg[2] /\ seg[2] = seg[1] + s - 1
        /\ \A x \in Nat : x \in seg[1] .. seg[2] <=> x \div s = ip0 \div s
    <3>1. /\ seg[1] \in Word /\ seg[2] \in Word
          /\ seg[1] <= ip0 /\ ip0 <= seg[2] /\ seg[2] = seg[1] + BlockSize(m) - 1
          /\ \A x \in Nat : x \in seg[1] .. seg[2] <=> x \div BlockSize(m) = ip0 \div BlockSize(m)
      BY <2>4, BlockFacts
    <3> QED
      BY <2>3, <3>1
  <2>7. seg \in Word \X Word
    BY <2>4, <2>6 DEF get_ip_seg_from_ip_mask
  <2>8. PICK low \in Nat, high \in Nat, a \in Nat :
            /\ low = seg[1] /\ high = seg[2] /\ a = ip0
            /\ low <= a /\ a <= high /\ high = low + s - 1 /\ high <= Top
    <3>1. seg[1] \in Nat /\ seg[2] \in Nat /\ ip0 \in Nat /\ seg[2] <= Top
      BY <2>6, Words DEF Word
    <3> QED
      BY <2>6, <3>1, Zenon
  <2>9. Skipped(seg) <=> ip0 = 0 /\ m = Width
    <3>1. s = 1 <=> n = 0
      <4>1. n # 0 => shl[n] = 2 * shl[n - 1] /\ shl[n - 1] \in Nat
        <5>1. n # 0 => n \in 1 .. Width /\ n - 1 \in 0 .. Width
          BY WidthAssumption
        <5> QED
          BY <5>1, ShlFacts
      <4>2. n # 0 => s # 1
        BY <2>3, <4>1
      <4> QED
        BY <2>3, <4>2, ShlFacts
    <3>2. n = 0 <=> m = Width
      BY <2>2, WidthAssumption
    <3>3. high = 0 <=> a = 0 /\ s = 1
      BY <2>8
    <3> QED
      BY <2>8, <3>1, <3>2, <3>3 DEF Skipped
  <2>10. Named(text) = IF ip0 = 0 /\ m = Width THEN {}
                       ELSE {x \in Word : x \div s = ip0 \div s}
    BY <1>0, <1>3, <2>1, <2>3 DEF Named, mask
  <2>11. {x \in Word : x \div s = ip0 \div s} = seg[1] .. seg[2]
    <3>1. \A x \in seg[1] .. seg[2] : x \in Word /\ x \in Nat
      <4>1. Top \in Nat /\ \A x \in low .. high : x \in Nat /\ x <= Top
        BY <2>8, Words
      <4> QED
        BY <2>8, <4>1 DEF Word
    <3>2. \A x \in Word : x \in Nat
      BY Words
    <3> QED
      BY <2>6, <3>1, <3>2
  <2>12. /\ Skipped(seg) => Named(text) = {}
         /\ ~Skipped(seg) => Named(text) = seg[1] .. seg[2]
    BY <2>9, <2>10, <2>11
  <2>13. seg[1] <= seg[2]
    BY <2>8
  <2>14. Named(text) = {} => Sure(text) = {}
    BY DEF Sure
  <2> QED
    BY <2>5, <2>7, <2>12, <2>13, <2>14
<1> QED
  BY <1>0, <1>1, <1>2, <1>3

LEMMA SureNamed ==
    ASSUME NEW text
    PROVE  Sure(text) \subseteq Named(text)
  BY DEF Sure

\* While the loop runs: the rest of the block is still to come, unless it ends
\* at the last address, and the loop never does.
Pending ==
    /\ ip \in Word /\ ipseg \in Word \X Word
    /\ \/ ipseg[2] = Top
       \/ /\ ip <= ipseg[2]
          /\ \A x \in Word :
                /\ x \in wb_sure => x \in wb_list_map \/ x \in ip .. ipseg[2]
                /\ x \in wb_list_map \/ x \in ip .. ipseg[2] => x \in wb_named

WBExact == \A x \in Word : /\ x \in wb_sure => x \in wb_list_map
                           /\ x \in wb_list_map => x \in wb_named
AExact == \A x \in Word : /\ x \in a_sure => ip_in_a_list(x)
                          /\ ip_in_a_list(x) => x \in a_named

ListsInv ==
    /\ looping \in BOOLEAN
    /\ loading \in {"a", "done"} => ~looping
    /\ looping => Pending
    /\ ~looping => WBExact
    /\ a_list \in Seq(Word \X Word)
    /\ AExact

LEMMA ReadWBInv ==
    ASSUME ListsInv, NEW text \in ListText, ReadWBLine(text)
    PROVE  ListsInv'
<1>1. PICK seg \in get_ip_seg_from_mask_str(text) : seg = ipseg'
  BY DEF ReadWBLine
<1>2. /\ seg \in Word \X Word /\ seg[1] <= seg[2]
      /\ Skipped(seg) => Sure(text) = {}
      /\ ~Skipped(seg) => Named(text) = seg[1] .. seg[2]
      /\ Sure(text) \subseteq Named(text)
  BY LineBlock, SureNamed
<1>3. /\ ~looping /\ loading \in {"w", "b"}
      /\ ipseg' = seg /\ ip' = seg[1] /\ looping' = ~Skipped(seg)
      /\ wb_named' = wb_named \cup Named(text) /\ wb_sure' = wb_sure \cup Sure(text)
      /\ UNCHANGED <<loading, wb_list_map, a_list, a_named, a_sure>>
  BY <1>1 DEF ReadWBLine
<1>4. WBExact
  BY <1>3 DEF ListsInv
<1>5. looping' => Pending'
  BY <1>2, <1>3, <1>4 DEF Pending, WBExact
<1>6. ~looping' => WBExact'
  BY <1>2, <1>3, <1>4 DEF WBExact
<1> QED
  BY <1>3, <1>5, <1>6 DEF ListsInv, AExact, ip_in_a_list, Skipped

LEMMA InsertInv ==
    ASSUME ListsInv, InsertAddress
    PROVE  ListsInv'
<1>0. looping' = InRange(ipseg, ip')
  BY DEF InsertAddress
<1>1. /\ looping /\ wb_list_map' = wb_list_map \cup {ip} /\ ip' = Succ(ip)
      /\ looping' \in BOOLEAN /\ (looping' <=> ip' <= ipseg[2])
      /\ UNCHANGED <<loading, ipseg, a_list, wb_named, a_named, wb_sure, a_sure>>
  <2>1. looping' \in BOOLEAN /\ (looping' <=> ip' <= ipseg[2])
    <3>1. CASE ip' <= ipseg[2]
      BY <1>0, <3>1 DEF InRange
    <3>2. CASE ~(ip' <= ipseg[2])
      <4>1. (ip' <= ipseg[2]) = FALSE
        BY <3>2
      <4>2. looping' = FALSE
        BY <1>0, <4>1, Zenon DEF InRange
      <4> QED
        BY <3>2, <4>2
    <3> QED
      BY <3>1, <3>2
  <2> QED
    BY <2>1 DEF InsertAddress, lineHistory
<1>2. Pending
  BY <1>1 DEF ListsInv
<1>3. PICK a \in Nat, e \in Nat, last \in Nat :
          /\ a = ip /\ e = ipseg[2] /\ last = Top /\ a <= last /\ e <= last
  BY <1>2, Words DEF Pending, Word
<1>4. ip' = IF a = last THEN 0 ELSE a + 1
  BY <1>1, <1>2, <1>3, Words DEF Pending
<1>5. ip' \in Word /\ ipseg' \in Word \X Word
  BY <1>1, <1>2, <1>3, <1>4 DEF Pending, Word
<1>6. \A x \in Word : x \in Nat /\ x <= last
  BY <1>3 DEF Word
<1>7. CASE e = last
  <2>1. looping'
    BY <1>1, <1>3, <1>4, <1>7
  <2> QED
    BY <1>1, <1>3, <1>5, <1>7, <2>1 DEF ListsInv, Pending, AExact, ip_in_a_list
<1>8. CASE e # last
  <2>1. /\ a <= e
        /\ \A x \in Word : /\ x \in wb_sure => x \in wb_list_map \/ x \in a .. e
                           /\ x \in wb_list_map \/ x \in a .. e => x \in wb_named
    BY <1>2, <1>3, <1>8 DEF Pending
  <2>2. ip' = a + 1
    BY <1>3, <1>4, <1>8, <2>1
  <2>3. \A x \in Word : /\ x \in wb_sure => x \in wb_list_map' \/ x \in ip' .. e
                        /\ x \in wb_list_map' \/ x \in ip' .. e => x \in wb_named
    <3>1. \A x \in Nat : x \in a .. e <=> x = a \/ x \in a + 1 .. e
      BY <2>1
    <3> QED
      BY <1>1, <1>3, <1>6, <2>1, <2>2, <3>1
  <2>4. looping' => Pending'
    BY <1>1, <1>3, <1>5, <2>3 DEF Pending
  <2>5. ~looping' => \A x \in Word : x \notin ip' .. e
    BY <1>1, <1>3, <1>6, <2>2
  <2> QED
    BY <1>1, <2>3, <2>4, <2>5 DEF ListsInv, WBExact, AExact, ip_in_a_list
<1> QED
  BY <1>7, <1>8

LEMMA ReadAInv ==
    ASSUME ListsInv, NEW text \in ListText, ReadALine(text)
    PROVE  ListsInv'
<1>1. PICK seg \in get_ip_seg_from_mask_str(text) :
          a_list' = IF Skipped(seg) THEN a_list ELSE Append(a_list, seg)
  BY DEF ReadALine
<1>2. /\ seg \in Word \X Word /\ seg[1] <= seg[2]
      /\ Skipped(seg) => Sure(text) = {}
      /\ ~Skipped(seg) => Named(text) = seg[1] .. seg[2]
      /\ Sure(text) \subseteq Named(text)
  BY LineBlock, SureNamed
<1>3. /\ a_list' = IF Skipped(seg) THEN a_list ELSE Append(a_list, seg)
      /\ a_named' = a_named \cup Named(text) /\ a_sure' = a_sure \cup Sure(text)
      /\ UNCHANGED <<loading, looping, ipseg, ip, wb_list_map, wb_named, wb_sure>>
  BY <1>1 DEF ReadALine
<1>4. a_list \in Seq(Word \X Word) /\ AExact
  BY DEF ListsInv
<1>5. a_list' \in Seq(Word \X Word) /\ AExact'
  <2>1. CASE Skipped(seg)
    BY <1>2, <1>3, <1>4, <2>1 DEF AExact, ip_in_a_list
  <2>2. CASE ~Skipped(seg)
    <3>1. a_list' \in Seq(Word \X Word)
      BY <1>2, <1>3, <1>4, <2>2
    <3>2. PICK n \in Nat : n = Len(a_list)
      BY <1>4
    <3>3. /\ DOMAIN a_list = 1 .. n /\ DOMAIN a_list' = 1 .. n + 1
          /\ \A i \in 1 .. n : a_list'[i] = a_list[i]
          /\ a_list'[n + 1] = seg
      BY <1>2, <1>3, <1>4, <2>2, <3>2
    <3>4. ASSUME NEW x \in Word
          PROVE  ip_in_a_list(x)' <=> ip_in_a_list(x) \/ x \in seg[1] .. seg[2]
      <4>1. x \in seg[1] .. seg[2] <=> seg[1] <= x /\ x <= seg[2]
        BY <1>2, Words
      <4>2. \A i : i \in 1 .. n + 1 <=> i \in 1 .. n \/ i = n + 1
        OBVIOUS
      <4> QED
        BY <3>3, <4>1, <4>2 DEF ip_in_a_list
    <3> QED
      BY <1>2, <1>3, <1>4, <2>2, <3>1, <3>4 DEF AExact
  <2> QED
    BY <2>1, <2>2
<1> QED
  BY <1>3, <1>5 DEF ListsInv, Pending, WBExact

LEMMA ListsInvStep == ListsInv /\ [ListsNext]_listsVars => ListsInv'
<1> SUFFICES ASSUME ListsInv, [ListsNext]_listsVars PROVE ListsInv'
  OBVIOUS
<1>1. CASE \E text \in ListText : ReadWBLine(text)
  BY <1>1, ReadWBInv
<1>2. CASE \E text \in ListText : ReadALine(text)
  BY <1>2, ReadAInv
<1>3. CASE InsertAddress
  BY <1>3, InsertInv
<1>4. CASE NextFile
  BY <1>4 DEF NextFile, lineHistory, ListsInv, Pending, WBExact, AExact, ip_in_a_list
<1>5. CASE \E text \in ListText : ReadNothing(text)
  BY <1>5 DEF ReadNothing, lineHistory, ListsInv, Pending, WBExact, AExact, ip_in_a_list
<1>6. CASE UNCHANGED listsVars
  BY <1>6 DEF listsVars, lineHistory, ListsInv, Pending, WBExact, AExact, ip_in_a_list
<1> QED
  BY <1>1, <1>2, <1>3, <1>4, <1>5, <1>6 DEF ListsNext

\* build_wb_list and build_a_list, for addresses of any width and any lines: the
\* look-ups know what the lines name and nothing else, however blocks overlap
\* and the counter wraps, and wherever a line without an address kills the
\* program; only a line whose address has fifteen characters may be missing.
THEOREM LookupsExact == ListsSpec => []ListsExact
<1>1. ListsInit => ListsInv
  <2> SUFFICES ASSUME ListsInit PROVE ListsInv
    OBVIOUS
  <2>1. a_list = <<>> /\ a_list \in Seq(Word \X Word) /\ DOMAIN a_list = {}
    BY DEF ListsInit
  <2>2. \A x : ~ip_in_a_list(x)
    BY <2>1 DEF ip_in_a_list
  <2> QED
    BY <2>1, <2>2 DEF ListsInit, ListsInv, WBExact, AExact
<1>2. ListsInv => ListsExact
  BY DEF ListsInv, ListsExact, WBExact, AExact, ip_in_wb_list
<1> QED
  BY <1>1, <1>2, ListsInvStep, PTL DEF ListsSpec
=============================================================================
