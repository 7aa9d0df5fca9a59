-------------------------------- MODULE Log --------------------------------
(***************************************************************************)
(* The logger of src/src/log.cpp used by several threads: the default log, *)
(* created on first use under l_default_log_mutex, written to under its    *)
(* own mutex, and replaced the way log.h shows.  One action is one access  *)
(* to memory that threads share, or the statements between two of them.    *)
(* A memory block that is freed is not handed out again.                   *)
(***************************************************************************)
EXTENDS Integers, Sequences

CONSTANTS
    Thread,
    Level,      \* of a message or a log, a set of integers: ERROR is 1
    NULL

ASSUME LevelAssumption ==
    /\ Level \subseteq Int /\ {1, 2} \subseteq Level
    /\ \E highest \in Level : \A k \in Level : k <= highest
ASSUME NullAssumption == NULL \notin Thread /\ NULL \notin Nat

VARIABLES
    g_default_log,
    logs,           \* the log objects in order of creation: [level, mutex, freed]
    default_mutex,  \* l_default_log_mutex, the thread that holds it or NULL
    local_mutex,    \* l_local_log_mutex
    at,             \* where each thread is; "idle" between two calls
    back,           \* where a thread goes on after log_str
    _log, level,    \* locals of log_str: the log and the message's level
    fault           \* a thread has used freed memory or a null pointer

logVars == <<g_default_log, logs, default_mutex, local_mutex, at, back, _log,
             level, fault>>

NewLog == Len(logs) + 1
Trace == CHOOSE l \in Level : \A k \in Level : k <= l

Goto(t, label) == at' = [at EXCEPT ![t] = label]

\* The logs once one more is created with the given level, once log l's mutex
\* is taken or given back, its level stored and the mutex given back, or l freed.
WithNew(lev) == Append(logs, [level |-> lev, mutex |-> NULL, freed |-> FALSE])
WithMutex(l, holder) == [logs EXCEPT ![l].mutex = holder]
WithLevel(l, lev) == [logs EXCEPT ![l] = [@ EXCEPT !.level = lev, !.mutex = NULL]]
WithFreed(l) == [logs EXCEPT ![l].freed = TRUE]

LogInit ==
    /\ g_default_log = NULL
    /\ logs = <<>>
    /\ default_mutex = NULL /\ local_mutex = NULL
    /\ at = [t \in Thread |-> "idle"] /\ back = [t \in Thread |-> "idle"]
    /\ _log = [t \in Thread |-> NULL]
    /\ level = [t \in Thread |-> Trace]
    /\ fault = FALSE

\* Use of a freed log is the end of what can be said about the process.
UsesFreed(l) == logs[l].freed
Fault == fault' = TRUE /\ UNCHANGED <<g_default_log, logs, default_mutex,
                                      local_mutex, at, back, _log, level>>

-----------------------------------------------------------------------------
\* LOG(lev, ...), which reads the default log without a lock.  The thread goes
\* on at label next when log_str returns.
CallLog(t, lev, next) ==
    /\ _log' = [_log EXCEPT ![t] = g_default_log]
    /\ level' = [level EXCEPT ![t] = lev]
    /\ back' = [back EXCEPT ![t] = next]
    /\ Goto(t, IF g_default_log = NULL THEN "lock_default" ELSE "compare")
    /\ UNCHANGED <<g_default_log, logs, default_mutex, local_mutex, fault>>

LockDefault(t) ==
    /\ at[t] = "lock_default"
    /\ default_mutex = NULL
    /\ default_mutex' = t
    /\ Goto(t, "create_default")
    /\ UNCHANGED <<g_default_log, logs, local_mutex, back, _log, level, fault>>

CreateAlways(t) ==            \* mutant: does not look again under the lock
    /\ at[t] = "create_default"
    /\ logs' = WithNew(Trace) /\ g_default_log' = NewLog
    /\ Goto(t, "unlock_default")
    /\ UNCHANGED <<default_mutex, local_mutex, back, _log, level, fault>>
create_default_log(t) ==
    /\ at[t] = "create_default"
    /\ IF g_default_log = NULL
       THEN logs' = WithNew(Trace) /\ g_default_log' = NewLog
       ELSE UNCHANGED <<logs, g_default_log>>
    /\ Goto(t, "unlock_default")
    /\ UNCHANGED <<default_mutex, local_mutex, back, _log, level, fault>>

UnlockDefault(t) ==
    /\ at[t] = "unlock_default"
    /\ _log' = [_log EXCEPT ![t] = g_default_log]
    /\ default_mutex' = NULL
    /\ Goto(t, "compare")
    /\ UNCHANGED <<g_default_log, logs, local_mutex, back, level, fault>>

\* The level is read without the mutex; a message above it is dropped.
CompareLevel(t) ==
    /\ at[t] = "compare"
    /\ IF _log[t] = NULL \/ UsesFreed(_log[t]) THEN Fault
       ELSE /\ Goto(t, IF level[t] > logs[_log[t]].level THEN back[t]
                       ELSE "lock_log")
            /\ UNCHANGED <<g_default_log, logs, default_mutex, local_mutex,
                           back, _log, level, fault>>

LockAtNoWait(t, label, next) ==    \* mutant: takes a mutex that is held
    /\ at[t] = label
    /\ IF UsesFreed(_log[t]) THEN Fault
       ELSE /\ logs' = WithMutex(_log[t], t)
            /\ Goto(t, next)
            /\ UNCHANGED <<g_default_log, default_mutex, local_mutex, back,
                           _log, level, fault>>
\* Takes the mutex of log _log[t] on the way to label next.
LockAt(t, label, next) ==
    /\ at[t] = label
    /\ IF UsesFreed(_log[t]) THEN Fault
       ELSE /\ logs[_log[t]].mutex = NULL
            /\ logs' = WithMutex(_log[t], t)
            /\ Goto(t, next)
            /\ UNCHANGED <<g_default_log, default_mutex, local_mutex, back,
                           _log, level, fault>>
LockLog(t) == LockAt(t, "lock_log", "write")

\* prepare_log, log_stdout or log_file, and the unlock.
WriteKeepsLock(t) ==          \* mutant: returns without the unlock
    /\ at[t] = "write"
    /\ IF UsesFreed(_log[t]) THEN Fault
       ELSE /\ Goto(t, back[t])
            /\ UNCHANGED <<g_default_log, logs, default_mutex, local_mutex,
                           back, _log, level, fault>>
WriteAndUnlock(t) ==
    /\ at[t] = "write"
    /\ IF UsesFreed(_log[t]) THEN Fault
       ELSE /\ logs' = WithMutex(_log[t], NULL)
            /\ Goto(t, back[t])
            /\ UNCHANGED <<g_default_log, default_mutex, local_mutex, back,
                           _log, level, fault>>

-----------------------------------------------------------------------------
\* log_set_level(g_default_log, lev).
SetLevel(t, lev) ==
    /\ at[t] = "idle"
    /\ g_default_log # NULL
    /\ _log' = [_log EXCEPT ![t] = g_default_log]
    /\ level' = [level EXCEPT ![t] = lev]
    /\ Goto(t, "lock_level")
    /\ UNCHANGED <<g_default_log, logs, default_mutex, local_mutex, back, fault>>
LockLevel(t) == LockAt(t, "lock_level", "set_level")
StoreLevel(t) ==
    /\ at[t] = "set_level"
    /\ IF UsesFreed(_log[t]) THEN Fault
       ELSE /\ logs' = WithLevel(_log[t], level[t])
            /\ Goto(t, "idle")
            /\ UNCHANGED <<g_default_log, default_mutex, local_mutex, back,
                           _log, level, fault>>

\* The replacement that log.h shows and main of analyzer.cpp performs:
\* if (g_default_log != NULL) log_free(g_default_log); g_default_log = ...
Replace(t, lev) ==
    /\ at[t] = "idle"
    /\ level' = [level EXCEPT ![t] = lev]
    /\ Goto(t, IF g_default_log = NULL THEN "assign" ELSE "free")
    /\ UNCHANGED <<g_default_log, logs, default_mutex, local_mutex, back, _log,
                   fault>>
log_free(t) ==
    /\ at[t] = "free"
    /\ IF g_default_log = NULL \/ UsesFreed(g_default_log) THEN Fault
       ELSE /\ logs' = WithFreed(g_default_log)
            /\ Goto(t, "assign")
            /\ UNCHANGED <<g_default_log, default_mutex, local_mutex, back,
                           _log, level, fault>>
AssignNew(t) ==
    /\ at[t] = "assign"
    /\ logs' = WithNew(level[t]) /\ g_default_log' = NewLog
    /\ Goto(t, "idle")
    /\ UNCHANGED <<default_mutex, local_mutex, back, _log, level, fault>>

\* log_new_file cannot open the file: local_log says so under its own mutex,
\* and the default log becomes null.
OpenFails(t) ==
    /\ at[t] = "assign"
    /\ local_mutex = NULL
    /\ local_mutex' = t
    /\ Goto(t, "assign_null")
    /\ UNCHANGED <<g_default_log, logs, default_mutex, back, _log, level, fault>>
AssignNull(t) ==
    /\ at[t] = "assign_null"
    /\ local_mutex' = NULL
    /\ g_default_log' = NULL
    /\ Goto(t, "idle")
    /\ UNCHANGED <<logs, default_mutex, back, _log, level, fault>>

\* A thread inside one of these calls goes on.
LogStep(t) ==
    \/ LockDefault(t) \/ create_default_log(t) \/ UnlockDefault(t)
    \/ CompareLevel(t) \/ LockLog(t) \/ WriteAndUnlock(t)
    \/ LockLevel(t) \/ StoreLevel(t)
    \/ log_free(t) \/ AssignNew(t) \/ OpenFails(t) \/ AssignNull(t)

-----------------------------------------------------------------------------
InLog == {"lock_default", "create_default", "unlock_default", "compare",
          "lock_log", "write"}    \* labels within log_str
Replacing(t) == at[t] \in {"free", "assign", "assign_null"}
Writing(t) == at[t] \in {"write", "set_level"}

\* Types of the logger's variables, but for the places, which are the callers' too.
LogTypeOK ==
    LET LogOrNull == DOMAIN logs \cup {NULL} IN
    /\ logs \in Seq([level : Level, mutex : Thread \cup {NULL}, freed : BOOLEAN])
    /\ g_default_log \in LogOrNull
    /\ default_mutex \in Thread \cup {NULL}
    /\ local_mutex \in Thread \cup {NULL}
    /\ _log \in [Thread -> LogOrNull]
    /\ level \in [Thread -> Level]
    /\ fault \in BOOLEAN

\* Lines are not mixed and levels not torn: only the holder of a log's mutex
\* writes to the log, and never two threads at once.  The default log is
\* created, and a file that cannot be opened reported, by one thread at a time.
OneWriter ==
    \A t \in Thread :
        /\ Writing(t) => logs[_log[t]].mutex = t
        /\ at[t] \in {"create_default", "unlock_default"} <=> default_mutex = t
        /\ at[t] = "assign_null" <=> local_mutex = t
=============================================================================
