------------------------ MODULE CacheRegistryProofs ------------------------
(***************************************************************************)
(* Safety of the logger and the cache registry for any number of threads.  *)
(***************************************************************************)
EXTENDS CacheRegistry, SequenceTheorems, TLAPS

\* A thread that is about to use its log has one.
HasLog(t) == at[t] \in {"lock_log", "write", "lock_level", "set_level"}
PlacesOK ==
    /\ \A t \in Thread : HasLog(t) => _log[t] # NULL
    /\ \A t \in Thread :
          \/ at[t] \in {"slabs", "next_slab", "next"}
          \/ at[t] \in InLog /\ back[t] # "idle"
          => pc[t] # NULL

\* As long as the default log is not replaced while another thread is busy:
\* logs in use exist, and the default log is the only one, if there is one.
OthersIdle == \A u, w \in Thread : Replacing(u) /\ u # w => at[w] = "idle"
LogsInUse ==
    \A t \in Thread :
        at[t] \in {"compare", "lock_log", "write", "lock_level", "set_level"}
            => _log[t] # NULL /\ ~logs[_log[t]].freed
DefaultInUse ==
    /\ (\A t \in Thread : ~Replacing(t)) /\ g_default_log # NULL
          => ~logs[g_default_log].freed
    /\ \A t \in Thread : at[t] = "free" =>
          g_default_log # NULL /\ ~logs[g_default_log].freed
    /\ \A t \in Thread : at[t] = "unlock_default" => g_default_log # NULL
    /\ \A t \in Thread : at[t] \in {"assign", "assign_null"} =>
          \A l \in DOMAIN logs : logs[l].freed
OnlyDefault == \A l \in DOMAIN logs : ~logs[l].freed => l = g_default_log
LogsSafe == ~replaced => OthersIdle /\ LogsInUse /\ DefaultInUse /\ OnlyDefault

\* Nobody else creates or destroys the cache of a call.
OwnersDistinct ==
    \A t \in Thread : Owning(t) =>
        /\ p[t] \in Live
        /\ \A u \in Thread : Owning(u) /\ u # t => p[u] # p[t]

\* As long as no cache was cut out behind the head: pointers lead from the list to
\* the list, no two to one cache and none to the head.
Linked == {c \in Live : \A t \in Thread : Pushing(t) => p[t] # c}
LinkedOrNull == Linked \cup {NULL}
ListSound ==
    /\ head \in LinkedOrNull
    /\ \A c \in Linked :
          /\ cache[c].next \in LinkedOrNull
          /\ cache[c].next # NULL => cache[c].next # head
          /\ \A d \in Linked : cache[d].next = cache[c].next /\ cache[c].next # NULL
                => c = d
\* A walk goes along the list, but may begin at what was its head, which can be
\* freed before the lock is taken.
Met == LinkedOrNull \cup {c \in DOMAIN cache : cache[c].freed}
WalkSound(t) ==
    /\ at[t] \in {"lock_destroy", "lock_dump"} => pc[t] \in Met
    /\ InRegistry(t) /\ at[t] # "push" => pc[t] \in Met
    /\ at[t] = "lock_destroy" => pr[t] = NULL
    /\ at[t] = "unlink" => \/ pr[t] = NULL
                           \/ pr[t] \in Linked /\ cache[pr[t]].next = pc[t]
WalksSound == \A t \in Thread : WalkSound(t)
RegistrySafe == ~lost => ListSound /\ WalksSound

\* And the head leads to every cache of the list: no smaller set has the head
\* and with a cache the next one.
Reached == \A S \in SUBSET Linked : HoldsList(S) => S = Linked
AllReached == ~lost => Reached

\* As long as no walk began at an old head, it is at no freed cache, and what it
\* finds first is the head.
WalkCurrent(t) ==
    /\ InRegistry(t) /\ at[t] # "push" => pc[t] \in LinkedOrNull
    /\ at[t] = "unlink" /\ pr[t] = NULL => pc[t] = head
WalksCurrent == \A t \in Thread : WalkCurrent(t)
HeadsCurrent == ~stale => ~lost /\ WalksCurrent

\* A dump stands on a slab while it walks the slabs of a cache.
OnSlab(t) == at[t] = "next_slab" \/ (at[t] \in InLog /\ back[t] = "next_slab")
AtSlabs(t) == at[t] = "slabs" \/ (at[t] \in InLog /\ back[t] = "slabs")
SlabPlaces ==
    \A t \in Thread : /\ OnSlab(t) => po[t] # NULL
                      /\ po[t] # NULL => OnSlab(t) \/ AtSlabs(t)

\* The slabs of the caches that exist: a list leads to slabs of that list, and
\* not for ever, and the reserve is on no list.
Listed(c) == {s \in Slab : slab[s].place = "list" /\ slab[s].of = c}
Linking == {s \in Slab : slab[s].place = "list"}
Gone(c) == c \in DOMAIN cache /\ cache[c].freed
SlabLists ==
    /\ \A c \in CacheNo : ~Gone(c) =>
          /\ list[c] # NULL => list[c] \in Listed(c)
          /\ wait_for_free[c] # NULL =>
                /\ slab[wait_for_free[c]].place = "reserve"
                /\ slab[wait_for_free[c]].of = c
    /\ \A s \in Linking : slab[s].next # NULL => slab[s].next \in Listed(slab[s].of)
NoRing ==
    \A S \in SUBSET Linking : S # {} => \E s \in S : slab[s].next \notin S
SlabsSound == SlabLists /\ NoRing

\* As long as no slab was unlinked under a dump, it stands on a slab of a list.
DumpsOnLists == \A t \in Thread : po[t] # NULL => slab[po[t]].place = "list"
DumpsSafe == ~stale /\ ~shrunk => DumpsOnLists

Mutexes == TypeOK /\ PlacesOK /\ SlabPlaces /\ OneWriter /\ RegistryLocked
IInv == /\ Mutexes /\ LogsSafe /\ OwnersDistinct /\ RegistrySafe /\ AllReached
        /\ HeadsCurrent /\ SlabsSound /\ DumpsSafe /\ FaultNeedsRace

(***************************************************************************)
(* The two sequences of memory blocks.                                     *)
(***************************************************************************)

LogRec == [level : Level, mutex : Thread \cup {NULL}, freed : BOOLEAN]
CacheRec(D) == [next : D \cup {NULL}, freed : BOOLEAN]

\* A block that is created comes after those there are, which stay.
LEMMA Grows ==
    ASSUME NEW S, NEW blocks \in Seq(S), NEW b \in S
    PROVE  LET more == Append(blocks, b) IN
           /\ more \in Seq(S)
           /\ DOMAIN more = DOMAIN blocks \cup {Len(blocks) + 1}
           /\ Len(blocks) + 1 \notin DOMAIN blocks
           /\ more[Len(blocks) + 1] = b
           /\ \A i \in DOMAIN blocks : more[i] = blocks[i]
<1>1. Len(blocks) \in Nat /\ DOMAIN blocks = 1 .. Len(blocks)
  BY LenProperties
<1>2. /\ Append(blocks, b) \in Seq(S)
      /\ Len(Append(blocks, b)) = Len(blocks) + 1
      /\ \A i \in 1 .. Len(blocks) : Append(blocks, b)[i] = blocks[i]
      /\ Append(blocks, b)[Len(blocks) + 1] = b
  BY AppendProperties
<1>3. DOMAIN Append(blocks, b) = 1 .. Len(Append(blocks, b))
  BY <1>2, LenProperties
<1> QED
  BY <1>1, <1>2, <1>3

\* A block that changes leaves the others as they are.
LEMMA Changes ==
    ASSUME NEW S, NEW blocks \in Seq(S), NEW i \in DOMAIN blocks, NEW b \in S
    PROVE  LET other == [blocks EXCEPT ![i] = b] IN
           /\ other \in Seq(S)
           /\ DOMAIN other = DOMAIN blocks
           /\ other[i] = b
           /\ \A j \in DOMAIN blocks : j # i => other[j] = blocks[j]
<1>1. DOMAIN blocks = 1 .. Len(blocks)
  BY LenProperties
<1> QED
  BY <1>1, ExceptSeq

\* NULL is no block.
LEMMA NullIsNoBlock ==
    ASSUME NEW S, NEW blocks \in Seq(S)
    PROVE  NULL \notin DOMAIN blocks
BY LenProperties, NullAssumption

(***************************************************************************)
(* Types.                                                                  *)
(***************************************************************************)

\* Trace is a level.
LEMMA TraceIsLevel == Trace \in Level
BY LevelAssumption DEF Trace

\* What a new log does to the sequence of logs.
LEMMA NewLogs ==
    ASSUME logs \in Seq(LogRec), NEW lev \in Level
    PROVE  /\ WithNew(lev) \in Seq(LogRec)
           /\ DOMAIN WithNew(lev) = DOMAIN logs \cup {NewLog}
           /\ NewLog \notin DOMAIN logs /\ NewLog # NULL
           /\ WithNew(lev)[NewLog] = [level |-> lev, mutex |-> NULL, freed |-> FALSE]
           /\ ~WithNew(lev)[NewLog].freed
           /\ \A l \in DOMAIN logs : WithNew(lev)[l] = logs[l]
<1>1. [level |-> lev, mutex |-> NULL, freed |-> FALSE] \in LogRec
  BY DEF LogRec
<1>2. NewLog # NULL
  BY LenProperties, NullAssumption DEF NewLog
<1> QED
  BY <1>1, <1>2, Grows DEF WithNew, NewLog

\* What a change of a log does to it.
LEMMA ChangedLogs ==
    ASSUME logs \in Seq(LogRec), NEW l \in DOMAIN logs,
           NEW other, NEW r \in LogRec, other = [logs EXCEPT ![l] = r]
    PROVE  /\ other \in Seq(LogRec)
           /\ DOMAIN other = DOMAIN logs
           /\ other[l] = r
           /\ \A k \in DOMAIN logs : k # l => other[k] = logs[k]
BY Changes

LEMMA MutexLogs ==
    ASSUME logs \in Seq(LogRec), NEW l \in DOMAIN logs, NEW m \in Thread \cup {NULL}
    PROVE  /\ WithMutex(l, m) \in Seq(LogRec)
           /\ DOMAIN WithMutex(l, m) = DOMAIN logs
           /\ WithMutex(l, m)[l].mutex = m
           /\ \A k \in DOMAIN logs : WithMutex(l, m)[k].freed <=> logs[k].freed
           /\ \A k \in DOMAIN logs : k # l => WithMutex(l, m)[k] = logs[k]
<1>1. logs[l] \in LogRec
  BY LenProperties
<1> DEFINE r == [logs[l] EXCEPT !.mutex = m]
<1>2. r \in LogRec /\ r.mutex = m /\ (r.freed <=> logs[l].freed)
  BY <1>1 DEF LogRec
<1>3. WithMutex(l, m) = [logs EXCEPT ![l] = r]
  BY DEF WithMutex
<1> HIDE DEF r
<1> QED
  BY <1>2, <1>3, ChangedLogs

LEMMA LevelLogs ==
    ASSUME logs \in Seq(LogRec), NEW l \in DOMAIN logs, NEW lev \in Level
    PROVE  /\ WithLevel(l, lev) \in Seq(LogRec)
           /\ DOMAIN WithLevel(l, lev) = DOMAIN logs
           /\ WithLevel(l, lev)[l].mutex = NULL
           /\ \A k \in DOMAIN logs : WithLevel(l, lev)[k].freed <=> logs[k].freed
           /\ \A k \in DOMAIN logs : k # l => WithLevel(l, lev)[k] = logs[k]
<1>1. logs[l] \in LogRec
  BY LenProperties
<1> DEFINE r == [logs[l] EXCEPT !.level = lev, !.mutex = NULL]
<1>2. r \in LogRec /\ r.mutex = NULL /\ (r.freed <=> logs[l].freed)
  BY <1>1 DEF LogRec
<1>3. WithLevel(l, lev) = [logs EXCEPT ![l] = r]
  BY DEF WithLevel
<1> HIDE DEF r
<1> QED
  BY <1>2, <1>3, ChangedLogs

LEMMA FreedLogs ==
    ASSUME logs \in Seq(LogRec), NEW l \in DOMAIN logs
    PROVE  /\ WithFreed(l) \in Seq(LogRec)
           /\ DOMAIN WithFreed(l) = DOMAIN logs
           /\ WithFreed(l)[l].mutex = logs[l].mutex
           /\ WithFreed(l)[l].freed
           /\ \A k \in DOMAIN logs : k # l => WithFreed(l)[k] = logs[k]
<1>1. logs[l] \in LogRec
  BY LenProperties
<1> DEFINE r == [logs[l] EXCEPT !.freed = TRUE]
<1>2. r \in LogRec /\ r.mutex = logs[l].mutex /\ r.freed
  BY <1>1 DEF LogRec
<1>3. WithFreed(l) = [logs EXCEPT ![l] = r]
  BY DEF WithFreed
<1> HIDE DEF r
<1> QED
  BY <1>2, <1>3, ChangedLogs

\* A fault changes nothing else.
LEMMA FaultTypes ==
    ASSUME LogTypeOK, Fault
    PROVE  LogTypeOK'
BY DEF LogTypeOK, Fault

\* The logger's steps keep its types.
LEMMA LogTypesStep ==
    ASSUME TypeOK, PlacesOK, NEW t \in Thread, LogStep(t)
    PROVE  LogTypeOK'
<1> USE DEF TypeOK, LogTypeOK, Goto
<1>0. logs \in Seq(LogRec)
  BY DEF LogRec
<1>1. CASE LockDefault(t)
  BY <1>1 DEF LockDefault
<1>2. CASE create_default_log(t)
  BY <1>2, <1>0, NewLogs, TraceIsLevel DEF create_default_log, LogRec
<1>3. CASE UnlockDefault(t)
  BY <1>3 DEF UnlockDefault
<1>4. CASE CompareLevel(t)
  BY <1>4, FaultTypes DEF CompareLevel
<1>5. CASE LockLog(t)
  BY <1>5, <1>0, FaultTypes, MutexLogs DEF LockLog, LockAt, LogRec, PlacesOK, HasLog
<1>6. CASE WriteAndUnlock(t)
  BY <1>6, <1>0, FaultTypes, MutexLogs DEF WriteAndUnlock, LogRec, PlacesOK, HasLog
<1>7. CASE LockLevel(t)
  BY <1>7, <1>0, FaultTypes, MutexLogs DEF LockLevel, LockAt, LogRec, PlacesOK, HasLog
<1>8. CASE StoreLevel(t)
  <2>1. level[t] \in Level /\ _log[t] \in DOMAIN logs
    BY <1>8 DEF StoreLevel, PlacesOK, HasLog
  <2>2. /\ WithLevel(_log[t], level[t]) \in Seq(LogRec)
        /\ DOMAIN WithLevel(_log[t], level[t]) = DOMAIN logs
    BY <2>1, <1>0, LevelLogs
  <2> QED
    BY <1>8, <2>2, FaultTypes DEF StoreLevel, LogRec
<1>9. CASE log_free(t)
  BY <1>9, <1>0, FaultTypes, FreedLogs DEF log_free, LogRec
<1>10. CASE AssignNew(t)
  <2>1. level[t] \in Level
    OBVIOUS
  <2> QED
    BY <1>10, <2>1, <1>0, NewLogs DEF AssignNew, LogRec
<1>11. CASE OpenFails(t)
  BY <1>11 DEF OpenFails
<1>12. CASE AssignNull(t)
  BY <1>12 DEF AssignNull
<1> QED
  BY <1>1, <1>2, <1>3, <1>4, <1>5, <1>6, <1>7, <1>8, <1>9, <1>10, <1>11, <1>12
     DEF LogStep

\* ... and stay among its places.
LEMMA LogPlacesStep ==
    ASSUME TypeOK, NEW t \in Thread, LogStep(t)
    PROVE  at' \in [Thread -> Label] /\ back' = back
BY DEF LogStep, LockDefault, create_default_log, UnlockDefault, CompareLevel,
       LockLog, LockLevel, LockAt, WriteAndUnlock, StoreLevel, log_free, AssignNew,
       OpenFails, AssignNull, Fault, Goto, TypeOK, Label, InLog

\* What a new cache and a changed one do to the sequence of caches.
LEMMA NewCaches ==
    ASSUME TypeOK, NEW b \in CacheRec(DOMAIN cache)
    PROVE  LET more == Append(cache, b) IN
           /\ more \in Seq(CacheRec(DOMAIN more))
           /\ DOMAIN more = DOMAIN cache \cup {NewCache}
           /\ NewCache \notin CacheOrNull
           /\ more[NewCache] = b
           /\ \A c \in DOMAIN cache : more[c] = cache[c]
<1> DEFINE more == Append(cache, b)
           D == DOMAIN cache \cup {NewCache}
<1>1. cache \in Seq(CacheRec(DOMAIN cache))
  BY DEF TypeOK, CacheRec, CacheOrNull
<1>2. CacheRec(DOMAIN cache) \subseteq CacheRec(D)
  BY DEF CacheRec
<1>3. cache \in Seq(CacheRec(D)) /\ b \in CacheRec(D)
  BY <1>1, <1>2, SeqMonotonic
<1>4. /\ more \in Seq(CacheRec(D))
      /\ DOMAIN more = DOMAIN cache \cup {NewCache}
      /\ NewCache \notin DOMAIN cache
      /\ more[NewCache] = b
      /\ \A c \in DOMAIN cache : more[c] = cache[c]
  BY <1>3, Grows DEF NewCache
<1>5. NewCache # NULL
  BY <1>1, LenProperties, NullAssumption DEF NewCache
<1> QED
  BY <1>4, <1>5 DEF CacheOrNull

\* What a dump does within a cache: it logs, or goes on to the next slab.
DumpLogs(t) ==
    /\ at[t] \in {"visit", "slabs"} /\ UNCHANGED registryVars
    /\ pc[t] # NULL \/ at[t] = "slabs"
    /\ Fault \/ \E next \in {"slabs", "next_slab", "next"} : CallLog(t, 2, next)
DumpMoves(t) ==
    /\ at[t] = "next_slab" /\ UNCHANGED registryVars
    /\ Fault \/ (Goto(t, "slabs") /\ LogUnchanged)
RegistryCase(t) ==
    \/ LockRegistry(t, "lock_create", "push") \/ Push(t)
    \/ LockRegistry(t, "lock_destroy", "unlink") \/ Seek(t) \/ Unlink(t) \/ NotFound(t)
    \/ LockRegistry(t, "lock_dump", "visit") \/ Step(t) \/ EndOfDump(t)
    \/ DumpLogs(t) \/ DumpMoves(t)

LEMMA RegistryCases ==
    ASSUME NEW t \in Thread, RegistryStep(t)
    PROVE  RegistryCase(t)
<1>1. Visit(t) \/ VisitSlab(t) \/ VisitReserve(t) => DumpLogs(t)
  BY DEF Visit, VisitSlab, VisitReserve, DumpLogs
<1>2. NextSlab(t) => DumpMoves(t)
  BY DEF NextSlab, DumpMoves
<1> QED
  BY <1>1, <1>2, Zenon DEF RegistryStep, RegistryCase

\* The registry's steps keep the types too.
LEMMA RegistryTypesStep ==
    ASSUME TypeOK, PlacesOK, OwnersDistinct, NEW t \in Thread, RegistryCase(t),
           NEW S, S = CacheRec(DOMAIN cache)
    PROVE  /\ LogTypeOK'
           /\ at' \in [Thread -> Label]
           /\ back' \in [Thread -> {"idle", "slabs", "next_slab", "next"}]
           /\ cache' \in Seq(S) /\ DOMAIN cache' = DOMAIN cache
           /\ head' \in CacheOrNull
           /\ memcache_lock' \in Thread \cup {NULL}
           /\ pr' \in [Thread -> CacheOrNull] /\ pc' \in [Thread -> CacheOrNull]
<1> USE DEF TypeOK, LogTypeOK, Goto, LogUnchanged, registryVars, Label, InLog
<1>0. cache \in Seq(S)
  BY DEF CacheRec, CacheOrNull
<1>1. \A c \in DOMAIN cache : cache[c].next \in CacheOrNull /\ cache[c] \in S
  <2>1. \A c \in DOMAIN cache : cache[c] \in S
    BY <1>0, LenProperties
  <2> QED
    BY <2>1 DEF CacheRec, CacheOrNull
<1>2. CASE \E from, to \in Label : LockRegistry(t, from, to)
  BY <1>0, <1>2 DEF LockRegistry
<1>3. CASE Push(t)
  <2>1. p[t] \in DOMAIN cache /\ head \in CacheOrNull
    BY <1>3 DEF Push, OwnersDistinct, Owning, Pushing, Live
  <2> DEFINE r == [cache[p[t]] EXCEPT !.next = head]
  <2>2. r \in S
    BY <2>1, <1>1 DEF CacheRec, CacheOrNull
  <2>3. cache' = [cache EXCEPT ![p[t]] = r]
    BY <1>3 DEF Push
  <2> HIDE DEF r
  <2>4. cache' \in Seq(S) /\ DOMAIN cache' = DOMAIN cache
    BY <2>1, <2>2, <2>3, <1>0, Changes
  <2> QED
    BY <1>3, <2>1, <2>4 DEF Push
<1>4. CASE Seek(t)
  <2>1. CASE Fault /\ UNCHANGED registryVars
    BY <1>0, <2>1, FaultTypes DEF Fault
  <2>2. CASE ~(Fault /\ UNCHANGED registryVars)
    BY <1>0, <1>1, <1>4, <2>2 DEF Seek, CacheOrNull
  <2> QED
    BY <2>1, <2>2
<1>5. CASE Unlink(t)
  <2> DEFINE next == cache[pc[t]].next
  <2>1. pc[t] \in DOMAIN cache /\ next \in CacheOrNull
    BY <1>5, <1>1 DEF Unlink, OwnersDistinct, Owning, Pushing, Live
  <2>2. \A c \in DOMAIN cache : /\ [cache[c] EXCEPT !.freed = TRUE] \in S
                                /\ [cache[c] EXCEPT !.next = next] \in S
    BY <2>1, <1>1 DEF CacheRec, CacheOrNull
  <2>3. cache' \in [DOMAIN cache -> S]
    BY <1>5, <1>1, <2>2 DEF Unlink
  <2>4. Len(cache) \in Nat /\ DOMAIN cache = 1 .. Len(cache)
    BY <1>0, LenProperties
  <2>5. cache' \in Seq(S) /\ DOMAIN cache' = DOMAIN cache
    <3>1. DOMAIN cache' = DOMAIN cache /\ cache' \in [1 .. Len(cache) -> S]
      BY <2>3, <2>4
    <3>2. cache' \in UNION {[1 .. n -> S] : n \in Nat}
      BY <3>1, <2>4
    <3> QED
      BY <3>1, <3>2, SeqDef
  <2> HIDE DEF next
  <2>6. head' \in CacheOrNull
    BY <1>5, <2>1 DEF Unlink, next
  <2> QED
    BY <1>5, <2>5, <2>6 DEF Unlink
<1>6. CASE NotFound(t)
  BY <1>0, <1>6 DEF NotFound
<1>7. CASE DumpLogs(t) \/ DumpMoves(t)
  <2>0. UNCHANGED registryVars
    BY <1>7 DEF DumpLogs, DumpMoves
  <2>1. CASE Fault
    BY <1>0, <2>0, <2>1, FaultTypes DEF Fault
  <2>2. CASE DumpLogs(t) /\ ~Fault
    <3>1. PICK next \in {"slabs", "next_slab", "next"} : CallLog(t, 2, next)
      BY <2>2 DEF DumpLogs
    <3> QED
      BY <1>0, <2>0, <3>1, LevelAssumption DEF CallLog
  <2>3. CASE DumpMoves(t) /\ ~Fault
    BY <1>0, <2>0, <2>3 DEF DumpMoves
  <2> QED
    BY <1>7, <2>1, <2>2, <2>3
<1>8. CASE Step(t)
  <2>1. CASE Fault /\ UNCHANGED registryVars
    BY <1>0, <2>1, FaultTypes DEF Fault
  <2>2. CASE ~(Fault /\ UNCHANGED registryVars)
    <3>1. pc[t] \in DOMAIN cache
      BY <1>8 DEF Step, PlacesOK, CacheOrNull
    <3>2. cache[pc[t]].next \in CacheOrNull
      BY <1>1, <3>1
    <3> QED
      BY <1>0, <1>8, <2>2, <3>2 DEF Step
  <2> QED
    BY <2>1, <2>2
<1>9. CASE EndOfDump(t)
  BY <1>0, <1>9 DEF EndOfDump
<1> QED
  BY <1>2, <1>3, <1>4, <1>5, <1>6, <1>7, <1>8, <1>9 DEF RegistryCase

\* And the beginnings of calls.
LEMMA BeginTypesStep ==
    ASSUME TypeOK, NEW t \in Thread, Begin(t)
    PROVE  /\ LogTypeOK'
           /\ at' \in [Thread -> Label]
           /\ back' \in [Thread -> {"idle", "slabs", "next_slab", "next"}]
           /\ cache' \in Seq(CacheRec(DOMAIN cache)')
           /\ CacheOrNull \subseteq CacheOrNull'
           /\ head' \in CacheOrNull
           /\ memcache_lock' \in Thread \cup {NULL}
           /\ p' \in [Thread -> CacheOrNull']
           /\ pr' \in [Thread -> CacheOrNull] /\ pc' \in [Thread -> CacheOrNull]
           /\ calls' \in [Thread -> 0 .. MaxCalls]
<1> USE DEF TypeOK, LogTypeOK, Goto, LogUnchanged, Label, InLog
<1>0. cache \in Seq(CacheRec(DOMAIN cache))
  BY DEF CacheRec, CacheOrNull
<1>1. calls' \in [Thread -> 0 .. MaxCalls]
  BY BoundAssumption DEF Begin
<1>2. CASE CreateFails(t)
  BY <1>0, <1>1, <1>2, LevelAssumption DEF CreateFails, CallLog, CacheOrNull
<1>3. CASE Create(t)
  <2> DEFINE b == [next |-> NULL, freed |-> FALSE]
  <2>1. b \in CacheRec(DOMAIN cache)
    BY DEF CacheRec
  <2> HIDE DEF b
  <2>2. /\ cache' \in Seq(CacheRec(DOMAIN cache)')
        /\ DOMAIN cache' = DOMAIN cache \cup {NewCache}
    BY <1>3, <2>1, NewCaches DEF Create, b
  <2> QED
    BY <1>1, <1>3, <2>2 DEF Create, CacheOrNull
<1>4. CASE \E c \in Live : Destroy(t, c)
  BY <1>0, <1>1, <1>4 DEF Destroy, CacheOrNull, Live
<1>5. CASE DumpAll(t)
  BY <1>0, <1>1, <1>5 DEF DumpAll, CacheOrNull
<1>6. ASSUME NEW lev \in Level,
             (at[t] = "idle" /\ CallLog(t, lev, "idle")) \/ SetLevel(t, lev) \/ Replace(t, lev),
             UNCHANGED <<head, cache, memcache_lock, p, pr, pc>>
      PROVE  /\ LogTypeOK' /\ at' \in [Thread -> Label]
             /\ back' \in [Thread -> {"idle", "slabs", "next_slab", "next"}]
  <2>1. CASE at[t] = "idle" /\ CallLog(t, lev, "idle")
    BY <2>1 DEF CallLog
  <2>2. CASE SetLevel(t, lev)
    BY <2>2 DEF SetLevel
  <2>3. CASE Replace(t, lev)
    BY <2>3 DEF Replace
  <2> QED
    BY <1>6, <2>1, <2>2, <2>3
<1> QED
  BY <1>0, <1>1, <1>2, <1>3, <1>4, <1>5, <1>6 DEF Begin, CacheOrNull

\* A step of thread t, which either goes on or begins a call.
ThreadStep(t) ==
    /\ ~fault /\ History(t)
    /\ \/ LogStep(t) /\ UNCHANGED registryVars
       \/ RegistryCase(t)
       \/ Begin(t)

LEMMA TypesStep ==
    ASSUME TypeOK, PlacesOK, OwnersDistinct, NEW t \in Thread, ThreadStep(t), SlabTypeOK'
    PROVE  TypeOK'
<1>1. stale' \in BOOLEAN /\ lost' \in BOOLEAN /\ replaced' \in BOOLEAN
  BY DEF ThreadStep, History
<1>2. CASE LogStep(t) /\ UNCHANGED registryVars
  BY <1>1, <1>2, LogTypesStep, LogPlacesStep DEF TypeOK, registryVars, CacheOrNull
<1>3. CASE RegistryCase(t)
  <2>1. UNCHANGED <<p, calls>>
    BY <1>3 DEF RegistryCase, LockRegistry, Push, Seek, Unlink, NotFound, DumpLogs, DumpMoves, Step,
                EndOfDump, registryVars
  <2>2. DOMAIN cache' = DOMAIN cache
    BY <1>3, RegistryTypesStep
  <2> QED
    BY <1>1, <1>3, <2>1, <2>2, RegistryTypesStep DEF TypeOK, CacheRec, CacheOrNull
<1>4. CASE Begin(t)
  BY <1>1, <1>4, BeginTypesStep DEF TypeOK, CacheRec, CacheOrNull
<1> QED
  BY <1>2, <1>3, <1>4 DEF ThreadStep

(***************************************************************************)
(* Places and mutexes.                                                     *)
(***************************************************************************)

LEMMA PlacesStep ==
    ASSUME TypeOK, PlacesOK, NEW t \in Thread, ThreadStep(t)
    PROVE  PlacesOK'
<1> USE DEF TypeOK, LogTypeOK, PlacesOK, HasLog, Goto, Fault, LogUnchanged, InLog,
        registryVars
<1>1. CASE LogStep(t) /\ UNCHANGED registryVars
  <2>1. CASE LockDefault(t) \/ create_default_log(t) \/ UnlockDefault(t)
    BY <1>1, <2>1 DEF LockDefault, create_default_log, UnlockDefault
  <2>2. CASE CompareLevel(t)
    BY <1>1, <2>2 DEF CompareLevel
  <2>3. CASE LockLog(t) \/ LockLevel(t)
    BY <1>1, <2>3 DEF LockLog, LockLevel, LockAt
  <2>4. CASE WriteAndUnlock(t) \/ StoreLevel(t)
    BY <1>1, <2>4 DEF WriteAndUnlock, StoreLevel
  <2>5. CASE log_free(t) \/ AssignNew(t) \/ OpenFails(t) \/ AssignNull(t)
    BY <1>1, <2>5 DEF log_free, AssignNew, OpenFails, AssignNull
  <2> QED
    BY <1>1, <2>1, <2>2, <2>3, <2>4, <2>5 DEF LogStep
<1>2. CASE RegistryCase(t)
  <2>1. CASE LockRegistry(t, "lock_create", "push")
             \/ LockRegistry(t, "lock_destroy", "unlink")
             \/ LockRegistry(t, "lock_dump", "visit")
    BY <2>1 DEF LockRegistry
  <2>2. CASE Push(t) \/ Unlink(t) \/ NotFound(t) \/ EndOfDump(t)
    BY <2>2 DEF Push, Unlink, NotFound, EndOfDump
  <2>3. CASE Seek(t)
    BY <2>3 DEF Seek
  <2>4. CASE DumpLogs(t) \/ DumpMoves(t)
    BY <2>4 DEF DumpLogs, DumpMoves, CallLog
  <2>5. CASE Step(t)
    BY <2>5 DEF Step
  <2> QED
    BY <1>2, <2>1, <2>2, <2>3, <2>4, <2>5 DEF RegistryCase
<1>3. CASE Begin(t)
  <2>1. CASE CreateFails(t) \/ DumpAll(t)
    BY <2>1 DEF CreateFails, DumpAll, CallLog
  <2>2. CASE Create(t)
    BY <2>2 DEF Create
  <2>3. CASE \E c \in Live : Destroy(t, c)
    BY <2>3 DEF Destroy
  <2>4. ASSUME NEW lev \in Level,
               (at[t] = "idle" /\ CallLog(t, lev, "idle")) \/ SetLevel(t, lev)
                 \/ Replace(t, lev),
               UNCHANGED <<head, cache, memcache_lock, p, pr, pc>>
        PROVE  PlacesOK'
    <3>1. CASE at[t] = "idle" /\ CallLog(t, lev, "idle")
      BY <2>4, <3>1 DEF CallLog
    <3>2. CASE SetLevel(t, lev)
      BY <2>4, <3>2 DEF SetLevel
    <3>3. CASE Replace(t, lev)
      BY <2>4, <3>3 DEF Replace
    <3> QED
      BY <2>4, <3>1, <3>2, <3>3
  <2> QED
    BY <1>3, <2>1, <2>2, <2>3, <2>4 DEF Begin
<1> QED
  BY <1>1, <1>2, <1>3 DEF ThreadStep

\* OneWriter's parts: who writes to a log, and who creates the default log or
\* reports that a file cannot be opened.
WriterHolds == \A t \in Thread : Writing(t) => logs[_log[t]].mutex = t
CreatorHolds ==
    \A t \in Thread :
        /\ at[t] \in {"create_default", "unlock_default"} <=> default_mutex = t
        /\ at[t] = "assign_null" <=> local_mutex = t

LEMMA CreatorHoldsStep ==
    ASSUME TypeOK, CreatorHolds, NEW t \in Thread, ThreadStep(t)
    PROVE  CreatorHolds'
<1> USE DEF TypeOK, LogTypeOK, CreatorHolds, Goto, Fault, LogUnchanged
<1>0. NULL \notin Thread
  BY NullAssumption
<1>1. CASE LogStep(t)
  <2>1. CASE LockDefault(t) \/ create_default_log(t) \/ UnlockDefault(t)
    BY <1>0, <2>1 DEF LockDefault, create_default_log, UnlockDefault
  <2>2. CASE CompareLevel(t) \/ LockLog(t) \/ LockLevel(t)
    BY <2>2 DEF CompareLevel, LockLog, LockLevel, LockAt
  <2>3. CASE WriteAndUnlock(t) \/ StoreLevel(t)
    BY <2>3 DEF WriteAndUnlock, StoreLevel
  <2>4. CASE log_free(t) \/ AssignNew(t) \/ OpenFails(t) \/ AssignNull(t)
    BY <1>0, <2>4 DEF log_free, AssignNew, OpenFails, AssignNull
  <2> QED
    BY <1>1, <2>1, <2>2, <2>3, <2>4 DEF LogStep
<1>2. CASE RegistryCase(t)
  BY <1>2 DEF RegistryCase, LockRegistry, Push, Seek, Unlink, NotFound, DumpLogs, DumpMoves, CallLog,
              Step, EndOfDump
<1>3. CASE Begin(t)
  BY <1>3 DEF Begin, CreateFails, Create, Destroy, DumpAll, CallLog, SetLevel, Replace
<1> QED
  BY <1>1, <1>2, <1>3 DEF ThreadStep

LEMMA WriterHoldsStep ==
    ASSUME TypeOK, PlacesOK, WriterHolds, NEW t \in Thread, ThreadStep(t)
    PROVE  WriterHolds'
<1> USE DEF TypeOK, LogTypeOK, WriterHolds, Writing, Goto, Fault, LogUnchanged
<1>0. logs \in Seq(LogRec) /\ NULL \notin Thread
  BY NullAssumption DEF LogRec
<1>a. \A u \in Thread : Writing(u) => _log[u] \in DOMAIN logs
  BY DEF PlacesOK, HasLog
<1>1. CASE LogStep(t)
  <2>1. CASE LockDefault(t) \/ UnlockDefault(t) \/ OpenFails(t) \/ AssignNull(t)
    BY <2>1 DEF LockDefault, UnlockDefault, OpenFails, AssignNull
  <2>2. CASE create_default_log(t)
    <3>0. \A l \in DOMAIN logs : WithNew(Trace)[l] = logs[l]
      BY <1>0, NewLogs, TraceIsLevel
    <3>1. \A l \in DOMAIN logs : logs'[l] = logs[l]
      BY <2>2, <3>0 DEF create_default_log
    <3> QED
      BY <1>a, <2>2, <3>1 DEF create_default_log
  <2>3. CASE CompareLevel(t)
    <3>1. \A u \in Thread : Writing(u)' => Writing(u)
      BY <2>3 DEF CompareLevel
    <3> QED
      BY <2>3, <3>1 DEF CompareLevel
  <2>4. CASE LockLog(t) \/ LockLevel(t)
    <3>1. _log[t] \in DOMAIN logs
      BY <2>4 DEF PlacesOK, HasLog, LockLog, LockLevel, LockAt
    <3> QED
      BY <1>0, <1>a, <2>4, <3>1, MutexLogs DEF LockLog, LockLevel, LockAt
  <2>5. CASE WriteAndUnlock(t)
    <3>1. _log[t] \in DOMAIN logs
      BY <2>5 DEF PlacesOK, HasLog, WriteAndUnlock
    <3>2. CASE Fault
      BY <3>2
    <3>3. CASE ~Fault
      <4>1. \A k \in DOMAIN logs : k # _log[t] => logs'[k] = logs[k]
        BY <1>0, <2>5, <3>1, <3>3, MutexLogs DEF WriteAndUnlock
      <4>2. \A u \in Thread : Writing(u)' => u # t /\ Writing(u)
        BY <2>5, <3>3 DEF WriteAndUnlock
      <4>3. Writing(t) /\ _log' = _log
        BY <2>5, <3>3 DEF WriteAndUnlock
      <4>4. \A u \in Thread : Writing(u)' => logs[_log[u]].mutex # logs[_log[t]].mutex
        BY <4>2, <4>3
      <4> QED
        BY <1>a, <4>1, <4>2, <4>3, <4>4
    <3> QED
      BY <3>2, <3>3
  <2>6. CASE StoreLevel(t)
    <3>1. _log[t] \in DOMAIN logs /\ level[t] \in Level
      BY <2>6 DEF PlacesOK, HasLog, StoreLevel
    <3>2. CASE Fault
      BY <3>2
    <3>3. CASE ~Fault
      <4>1. \A k \in DOMAIN logs : k # _log[t] => logs'[k] = logs[k]
        BY <1>0, <2>6, <3>1, <3>3, LevelLogs DEF StoreLevel
      <4>2. \A u \in Thread : Writing(u)' => u # t /\ Writing(u)
        BY <2>6, <3>3 DEF StoreLevel
      <4>3. Writing(t) /\ _log' = _log
        BY <2>6, <3>3 DEF StoreLevel
      <4>4. \A u \in Thread : Writing(u)' => logs[_log[u]].mutex # logs[_log[t]].mutex
        BY <4>2, <4>3
      <4> QED
        BY <1>a, <4>1, <4>2, <4>3, <4>4
    <3> QED
      BY <3>2, <3>3
  <2>7. CASE log_free(t)
    <3>1. CASE Fault
      BY <3>1
    <3>2. CASE ~Fault
      <4>1. g_default_log \in DOMAIN logs /\ logs' = WithFreed(g_default_log)
        BY <2>7, <3>2 DEF log_free
      <4>2. \A l \in DOMAIN logs : logs'[l].mutex = logs[l].mutex
        BY <1>0, <4>1, FreedLogs
      <4>3. _log' = _log /\ \A u \in Thread : Writing(u)' => Writing(u)
        BY <2>7, <3>2 DEF log_free
      <4> QED
        BY <1>a, <4>2, <4>3
    <3> QED
      BY <3>1, <3>2
  <2>8. CASE AssignNew(t)
    <3>1. level[t] \in Level
      OBVIOUS
    <3>2. \A l \in DOMAIN logs : logs'[l] = logs[l]
      BY <1>0, <2>8, <3>1, NewLogs DEF AssignNew
    <3> QED
      BY <1>a, <2>8, <3>2 DEF AssignNew
  <2> QED
    BY <1>1, <2>1, <2>2, <2>3, <2>4, <2>5, <2>6, <2>7, <2>8 DEF LogStep
<1>2. CASE RegistryCase(t)
  BY <1>2 DEF RegistryCase, LockRegistry, Push, Seek, Unlink, NotFound, DumpLogs, DumpMoves, CallLog,
              Step, EndOfDump
<1>3. CASE Begin(t)
  BY <1>3 DEF Begin, CreateFails, Create, Destroy, DumpAll, CallLog, SetLevel, Replace
<1> QED
  BY <1>1, <1>2, <1>3 DEF ThreadStep

LEMMA OneWriterStep ==
    ASSUME TypeOK, PlacesOK, OneWriter, NEW t \in Thread, ThreadStep(t)
    PROVE  OneWriter'
<1>1. OneWriter <=> WriterHolds /\ CreatorHolds
  BY DEF OneWriter, WriterHolds, CreatorHolds
<1>2. OneWriter' <=> WriterHolds' /\ CreatorHolds'
  BY DEF OneWriter, WriterHolds, CreatorHolds, Writing
<1> QED
  BY <1>1, <1>2, WriterHoldsStep, CreatorHoldsStep

LEMMA RegistryLockedStep ==
    ASSUME TypeOK, PlacesOK, RegistryLocked, NEW t \in Thread, ThreadStep(t)
    PROVE  RegistryLocked'
<1> USE DEF TypeOK, LogTypeOK, RegistryLocked, InRegistry, InLog, Goto, Fault,
        LogUnchanged, registryVars
<1>0. NULL \notin Thread
  BY NullAssumption
<1>1. CASE LogStep(t) /\ UNCHANGED registryVars
  <2>1. CASE LockDefault(t) \/ create_default_log(t) \/ UnlockDefault(t)
    BY <1>1, <2>1 DEF LockDefault, create_default_log, UnlockDefault
  <2>2. CASE CompareLevel(t)
    BY <1>1, <2>2 DEF CompareLevel
  <2>3. CASE LockLog(t) \/ LockLevel(t)
    BY <1>1, <2>3 DEF LockLog, LockLevel, LockAt
  <2>4. CASE WriteAndUnlock(t) \/ StoreLevel(t)
    BY <1>1, <2>4 DEF WriteAndUnlock, StoreLevel
  <2>5. CASE log_free(t) \/ AssignNew(t) \/ OpenFails(t) \/ AssignNull(t)
    BY <1>1, <2>5 DEF log_free, AssignNew, OpenFails, AssignNull
  <2> QED
    BY <1>1, <2>1, <2>2, <2>3, <2>4, <2>5 DEF LogStep
<1>2. CASE RegistryCase(t)
  <2>1. CASE LockRegistry(t, "lock_create", "push")
             \/ LockRegistry(t, "lock_destroy", "unlink")
             \/ LockRegistry(t, "lock_dump", "visit")
    BY <1>0, <2>1 DEF LockRegistry
  <2>2. CASE Push(t) \/ Unlink(t) \/ NotFound(t) \/ EndOfDump(t)
    <3>1. /\ InRegistry(t) /\ memcache_lock' = NULL /\ back' = back
          /\ at' = [at EXCEPT ![t] = "idle"]
      BY <2>2 DEF Push, Unlink, NotFound, EndOfDump
    <3> QED
      BY <1>0, <3>1
  <2>3. CASE Seek(t)
    BY <2>3 DEF Seek
  <2>4. CASE DumpLogs(t) \/ DumpMoves(t)
    BY <2>4 DEF DumpLogs, DumpMoves, CallLog
  <2>5. CASE Step(t)
    BY <2>5 DEF Step
  <2> QED
    BY <1>2, <2>1, <2>2, <2>3, <2>4, <2>5 DEF RegistryCase
<1>3. CASE Begin(t)
  <2>1. memcache_lock' = memcache_lock
    BY <1>3 DEF Begin, CreateFails, Create, Destroy, DumpAll
  <2>2. at[t] = "idle"
    BY <1>3 DEF Begin, CreateFails, Create, Destroy, DumpAll, SetLevel, Replace
  <2>3. ~InRegistry(t)'
    BY <1>3 DEF Begin, CreateFails, Create, Destroy, DumpAll, CallLog, SetLevel, Replace
  <2>4. \A u \in Thread \ {t} : at'[u] = at[u] /\ back'[u] = back[u]
    BY <1>3 DEF Begin, CreateFails, Create, Destroy, DumpAll, CallLog, SetLevel, Replace
  <2> QED
    BY <2>1, <2>2, <2>3, <2>4
<1> QED
  BY <1>1, <1>2, <1>3 DEF ThreadStep

(***************************************************************************)
(* The list of caches.                                                     *)
(***************************************************************************)

\* What the three actions that change a cache do to the caches.
LEMMA CreateCaches ==
    ASSUME TypeOK, NEW t \in Thread, Create(t)
    PROVE  /\ DOMAIN cache' = DOMAIN cache \cup {NewCache}
           /\ NewCache \notin CacheOrNull
           /\ cache'[NewCache].next = NULL /\ ~cache'[NewCache].freed
           /\ \A c \in DOMAIN cache : cache'[c] = cache[c]
<1> DEFINE b == [next |-> NULL, freed |-> FALSE]
<1>1. b \in CacheRec(DOMAIN cache) /\ b.next = NULL /\ ~b.freed
  BY DEF CacheRec
<1> HIDE DEF b
<1> QED
  BY <1>1, NewCaches DEF Create, b

LEMMA PushCaches ==
    ASSUME TypeOK, OwnersDistinct, NEW t \in Thread, Push(t)
    PROVE  /\ p[t] \in Live /\ DOMAIN cache' = DOMAIN cache
           /\ cache'[p[t]].next = head
           /\ \A c \in DOMAIN cache : (cache'[c].freed <=> cache[c].freed)
           /\ \A c \in DOMAIN cache \ {p[t]} : cache'[c].next = cache[c].next
<1> DEFINE S == CacheRec(DOMAIN cache)
           r == [cache[p[t]] EXCEPT !.next = head]
<1>1. cache \in Seq(S) /\ head \in CacheOrNull
  BY DEF TypeOK, CacheRec, CacheOrNull
<1>2. p[t] \in Live /\ p[t] \in DOMAIN cache
  BY DEF Push, OwnersDistinct, Owning, Pushing, Live
<1>3. cache[p[t]] \in S
  BY <1>1, <1>2, LenProperties
<1>4. r \in S /\ r.next = head /\ (r.freed <=> cache[p[t]].freed)
  BY <1>1, <1>3 DEF CacheRec, CacheOrNull
<1>5. cache' = [cache EXCEPT ![p[t]] = r]
  BY DEF Push
<1> HIDE DEF S, r
<1>6. /\ DOMAIN cache' = DOMAIN cache
      /\ cache'[p[t]] = r
      /\ \A c \in DOMAIN cache : c # p[t] => cache'[c] = cache[c]
  BY <1>1, <1>2, <1>4, <1>5, Changes
<1> QED
  BY <1>2, <1>4, <1>6

LEMMA UnlinkCaches ==
    ASSUME TypeOK, OwnersDistinct, NEW t \in Thread, Unlink(t)
    PROVE  /\ p[t] \in Live /\ pc[t] = p[t] /\ DOMAIN cache' = DOMAIN cache
           /\ cache'[p[t]].freed
           /\ \A c \in DOMAIN cache \ {p[t]} :
                 /\ (cache'[c].freed <=> cache[c].freed)
                 /\ cache'[c].next = IF c = pr[t] THEN cache[p[t]].next ELSE cache[c].next
<1> DEFINE S == CacheRec(DOMAIN cache)
           next == cache[p[t]].next
<1>1. cache \in Seq(S)
  BY DEF TypeOK, CacheRec, CacheOrNull
<1>2. p[t] \in Live /\ p[t] \in DOMAIN cache /\ pc[t] = p[t]
  BY DEF Unlink, OwnersDistinct, Owning, Pushing, Live
<1>3. \A c \in DOMAIN cache : cache[c] \in S
  BY <1>1, LenProperties
<1>4. \A c \in DOMAIN cache :
         /\ [cache[c] EXCEPT !.freed = TRUE].freed
         /\ [cache[c] EXCEPT !.next = next].next = next
         /\ ([cache[c] EXCEPT !.next = next].freed <=> cache[c].freed)
  BY <1>3 DEF CacheRec
<1>5. cache' = [c \in DOMAIN cache |->
                  IF c = p[t] THEN [cache[c] EXCEPT !.freed = TRUE]
                  ELSE IF c = pr[t] THEN [cache[c] EXCEPT !.next = next]
                  ELSE cache[c]]
  BY <1>2 DEF Unlink
<1> HIDE DEF S, next
<1>6. DOMAIN cache' = DOMAIN cache
  BY <1>5
<1>7. cache'[p[t]].freed
  BY <1>2, <1>4, <1>5
<1>8. ASSUME NEW c \in DOMAIN cache \ {p[t]}
      PROVE  /\ (cache'[c].freed <=> cache[c].freed)
             /\ cache'[c].next = IF c = pr[t] THEN next ELSE cache[c].next
  BY <1>4, <1>5
<1> QED
  BY <1>2, <1>6, <1>7, <1>8 DEF next

LEMMA OwnersStep ==
    ASSUME TypeOK, OwnersDistinct, NEW t \in Thread, ThreadStep(t)
    PROVE  OwnersDistinct'
<1> USE DEF TypeOK, LogTypeOK, OwnersDistinct, Owning, Pushing, Goto, LogUnchanged,
            registryVars
<1>1. CASE LogStep(t) /\ UNCHANGED registryVars
  <2>1. \A u \in Thread : Owning(u)' => Owning(u)
    BY <1>1 DEF LogStep, LockDefault, create_default_log, UnlockDefault, CompareLevel,
                LockLog, LockLevel, LockAt, WriteAndUnlock, StoreLevel, log_free,
                AssignNew, OpenFails, AssignNull, Fault
  <2> QED
    BY <1>1, <2>1 DEF Live
<1>2. CASE RegistryCase(t)
  <2>1. CASE Push(t)
    BY <2>1, PushCaches DEF Push, Live
  <2>2. CASE Unlink(t)
    BY <2>2, UnlinkCaches DEF Unlink, Live
  <2>3. CASE ~Push(t) /\ ~Unlink(t)
    <3>1. UNCHANGED <<cache, p>>
      BY <1>2, <2>3 DEF RegistryCase, LockRegistry, Seek, NotFound, DumpLogs, DumpMoves, Step, EndOfDump
    <3>2. \A u \in Thread : Owning(u)' => Owning(u)
      BY <1>2, <2>3 DEF RegistryCase, LockRegistry, Seek, NotFound, DumpLogs, DumpMoves, CallLog, Step,
                        EndOfDump, Fault
    <3> QED
      BY <3>1, <3>2 DEF Live
  <2> QED
    BY <2>1, <2>2, <2>3
<1>3. CASE Begin(t)
  <2>1. CASE Create(t)
    <3>1. \A c \in Live : c \in CacheOrNull /\ c \in Live'
      BY <2>1, CreateCaches DEF Live, CacheOrNull
    <3>2. NewCache \notin CacheOrNull /\ NewCache \in Live'
      BY <2>1, CreateCaches DEF Live
    <3> QED
      BY <2>1, <3>1, <3>2 DEF Create
  <2>2. ASSUME NEW c \in Live, Destroy(t, c)
        PROVE  OwnersDistinct'
    BY <2>2 DEF Destroy, Live
  <2>3. CASE ~Create(t) /\ ~(\E c \in Live : Destroy(t, c))
    <3>1. UNCHANGED <<cache, p>>
      BY <1>3, <2>3 DEF Begin, CreateFails, DumpAll
    <3>2. \A u \in Thread : Owning(u)' => Owning(u)
      BY <1>3, <2>3 DEF Begin, CreateFails, DumpAll, CallLog, SetLevel, Replace
    <3> QED
      BY <3>1, <3>2 DEF Live
  <2> QED
    BY <2>1, <2>2, <2>3
<1> QED
  BY <1>1, <1>2, <1>3 DEF ThreadStep

(***************************************************************************)
(* The default log.                                                        *)
(***************************************************************************)

LogsOK == LogsInUse /\ DefaultInUse /\ OnlyDefault

\* What is to be shown when no log is freed, replaced or created.
LEMMA SameLogs ==
    ASSUME LogsOK, NEW t \in Thread, OthersIdle',
           UNCHANGED g_default_log, DOMAIN logs' = DOMAIN logs,
           \A l \in DOMAIN logs : (logs'[l].freed <=> logs[l].freed),
           g_default_log \in DOMAIN logs \cup {NULL},
           \A u \in Thread : _log[u] \in DOMAIN logs \cup {NULL},
           \A u \in Thread \ {t} : at'[u] = at[u] /\ _log'[u] = _log[u],
           NULL \notin DOMAIN logs,
           ~Replacing(t), ~Replacing(t)', at'[t] # "unlock_default",
           at'[t] \in {"compare", "lock_log", "write", "lock_level", "set_level"} =>
               _log'[t] \in DOMAIN logs /\ ~logs[_log'[t]].freed
    PROVE  LogsOK'
<1> USE DEF LogsOK, OthersIdle, Replacing
<1>1. LogsInUse'
  BY DEF LogsInUse
<1>2. OnlyDefault'
  BY DEF OnlyDefault
<1>3. \A u \in Thread : at'[u] \in {"free", "assign", "assign_null", "unlock_default"} =>
          u # t /\ at'[u] = at[u]
  OBVIOUS
<1>4. (\A u \in Thread : ~Replacing(u)') => \A u \in Thread : ~Replacing(u)
  OBVIOUS
<1>5. DefaultInUse'
  BY <1>3, <1>4 DEF DefaultInUse
<1> QED
  BY <1>1, <1>2, <1>5

\* ... and when nothing changes but where threads are outside the logger.
LEMMA ElsewhereLogs ==
    ASSUME LogsOK, NEW t \in Thread, at \in [Thread -> Label],
           UNCHANGED <<g_default_log, logs, _log>>,
           \/ at' = at
           \/ \E place \in {"idle", "push", "unlink", "visit", "slabs", "next_slab",
                            "next", "lock_create",
                            "lock_destroy", "lock_dump", "lock_default",
                            "create_default"} :
                 /\ at' = [at EXCEPT ![t] = place]
                 /\ ~Replacing(t)
    PROVE  LogsOK'
<1> USE DEF LogsOK, Replacing
<1>1. LogsInUse'
  BY DEF LogsInUse
<1>2. OnlyDefault'
  BY DEF OnlyDefault
<1>3. \A u \in Thread : at'[u] \in {"free", "assign", "assign_null", "unlock_default"} =>
          at'[u] = at[u]
  OBVIOUS
<1>4. (\A u \in Thread : ~Replacing(u)') => \A u \in Thread : ~Replacing(u)
  OBVIOUS
<1>5. DefaultInUse'
  BY <1>3, <1>4 DEF DefaultInUse
<1> QED
  BY <1>1, <1>2, <1>5

\* log_str's first read of the default log.
LEMMA CallLogLogs ==
    ASSUME TypeOK, LogsOK, OthersIdle', NEW t \in Thread, at[t] \in {"idle", "visit", "slabs"},
           NEW lev, NEW next, CallLog(t, lev, next)
    PROVE  LogsOK'
<1> USE DEF TypeOK, LogTypeOK, Goto
<1>1. NULL \notin DOMAIN logs
  BY NullIsNoBlock
<1>2. at'[t] = IF g_default_log = NULL THEN "lock_default" ELSE "compare"
  BY DEF CallLog
<1>3. \A u \in Thread \ {t} : at'[u] = at[u] /\ _log'[u] = _log[u]
  BY DEF CallLog
<1>4. \A u \in Thread : ~Replacing(u)
  BY <1>2, <1>3 DEF OthersIdle, Replacing
<1>5. g_default_log # NULL => g_default_log \in DOMAIN logs /\ ~logs[g_default_log].freed
  BY <1>4 DEF LogsOK, DefaultInUse
<1>6. UNCHANGED <<g_default_log, logs>> /\ _log'[t] = g_default_log
  BY DEF CallLog
<1>7. ~Replacing(t)'
  BY <1>2 DEF Replacing
<1> QED
  BY <1>1, <1>2, <1>3, <1>4, <1>5, <1>6, <1>7, SameLogs

LEMMA LogStepLogs ==
    ASSUME TypeOK, PlacesOK, LogsOK, OthersIdle, OthersIdle', NEW t \in Thread, LogStep(t)
    PROVE  LogsOK'
<1> USE DEF TypeOK, LogTypeOK, Goto
<1>0. logs \in Seq(LogRec) /\ NULL \notin DOMAIN logs
  BY NullIsNoBlock DEF LogRec
<1>1. CASE Fault
  BY <1>1, ElsewhereLogs DEF Fault
<1>2. CASE LockDefault(t)
  BY <1>2, ElsewhereLogs DEF LockDefault, Replacing
<1>3. CASE create_default_log(t)
  <2>1. \A u \in Thread : ~Replacing(u) /\ (at'[u] = at[u] \/ (u = t /\ at'[u] = "unlock_default"))
    BY <1>3 DEF create_default_log, OthersIdle, Replacing
  <2>2. CASE g_default_log # NULL
    <3>1. UNCHANGED <<g_default_log, logs, _log>>
      BY <1>3, <2>2 DEF create_default_log
    <3> QED
      BY <2>1, <2>2, <3>1 DEF LogsOK, LogsInUse, DefaultInUse, OnlyDefault, Replacing
  <2>3. CASE g_default_log = NULL
    <3>1. /\ g_default_log' = NewLog /\ _log' = _log
          /\ DOMAIN logs' = DOMAIN logs \cup {NewLog} /\ NewLog \notin DOMAIN logs
          /\ NewLog # NULL /\ ~logs'[NewLog].freed
          /\ \A l \in DOMAIN logs : logs'[l] = logs[l]
      <4>1. /\ DOMAIN WithNew(Trace) = DOMAIN logs \cup {NewLog}
            /\ NewLog \notin DOMAIN logs /\ NewLog # NULL
            /\ ~WithNew(Trace)[NewLog].freed
            /\ \A l \in DOMAIN logs : WithNew(Trace)[l] = logs[l]
        BY <1>0, NewLogs, TraceIsLevel
      <4> QED
        BY <1>3, <2>3, <4>1 DEF create_default_log
    <3>2. LogsInUse'
      BY <2>1, <3>1 DEF LogsOK, LogsInUse
    <3>3. OnlyDefault'
      BY <1>0, <2>3, <3>1 DEF LogsOK, OnlyDefault
    <3>4. DefaultInUse'
      BY <2>1, <3>1 DEF DefaultInUse, Replacing
    <3> QED
      BY <3>2, <3>3, <3>4 DEF LogsOK
  <2> QED
    BY <2>2, <2>3
<1>4. CASE UnlockDefault(t)
  <2>1. g_default_log # NULL /\ ~Replacing(t) /\ \A u \in Thread : ~Replacing(u)
    BY <1>4 DEF UnlockDefault, OthersIdle, Replacing, LogsOK, DefaultInUse
  <2>2. g_default_log \in DOMAIN logs /\ ~logs[g_default_log].freed
    BY <2>1 DEF LogsOK, DefaultInUse
  <2> QED
    BY <1>0, <1>4, <2>1, <2>2, SameLogs DEF UnlockDefault, Replacing
<1>5. CASE CompareLevel(t) /\ ~Fault
  BY <1>0, <1>5, SameLogs DEF CompareLevel, Replacing, LogsOK, LogsInUse
<1>6. CASE (LockLog(t) \/ LockLevel(t)) /\ ~Fault
  <2>1. _log[t] \in DOMAIN logs /\ ~logs[_log[t]].freed
    BY <1>6 DEF LockLog, LockLevel, LockAt, LogsOK, LogsInUse
  <2>2. /\ DOMAIN logs' = DOMAIN logs
        /\ \A l \in DOMAIN logs : (logs'[l].freed <=> logs[l].freed)
    <3>1. logs' = WithMutex(_log[t], t)
      BY <1>6 DEF LockLog, LockLevel, LockAt
    <3> QED
      BY <1>0, <2>1, <3>1, MutexLogs
  <2>3. /\ UNCHANGED <<g_default_log, _log>> /\ ~Replacing(t)
        /\ at'[t] \in {"write", "set_level"}
        /\ \A u \in Thread \ {t} : at'[u] = at[u]
    BY <1>6 DEF LockLog, LockLevel, LockAt, Replacing
  <2> QED
    BY <1>0, <2>1, <2>2, <2>3, SameLogs DEF Replacing
<1>7. CASE (WriteAndUnlock(t) \/ StoreLevel(t)) /\ ~Fault
  <2>1. _log[t] \in DOMAIN logs /\ level[t] \in Level
    BY <1>7 DEF WriteAndUnlock, StoreLevel, LogsOK, LogsInUse
  <2>2. /\ DOMAIN logs' = DOMAIN logs
        /\ \A l \in DOMAIN logs : (logs'[l].freed <=> logs[l].freed)
    <3>1. CASE logs' = WithMutex(_log[t], NULL)
      BY <1>0, <2>1, <3>1, MutexLogs
    <3>2. CASE logs' = WithLevel(_log[t], level[t])
      BY <1>0, <2>1, <3>2, LevelLogs
    <3> QED
      BY <1>7, <3>1, <3>2 DEF WriteAndUnlock, StoreLevel
  <2>3. /\ UNCHANGED <<g_default_log, _log>> /\ ~Replacing(t)
        /\ at'[t] \in {"idle", "slabs", "next_slab", "next"}
        /\ \A u \in Thread \ {t} : at'[u] = at[u]
    BY <1>7 DEF WriteAndUnlock, StoreLevel, Replacing
  <2> QED
    BY <1>0, <2>1, <2>2, <2>3, SameLogs DEF Replacing
<1>8. ASSUME Replacing(t)
      PROVE  /\ \A u \in Thread \ {t} : at[u] = "idle"
             /\ \A u \in Thread \ {t} : ~Replacing(u)
  BY <1>8 DEF OthersIdle, Replacing
<1>9. CASE log_free(t) /\ ~Fault
  <2>1. at[t] = "free" /\ g_default_log \in DOMAIN logs
    BY <1>9 DEF log_free
  <2>2. \A l \in DOMAIN logs' : logs'[l].freed
    <3>1. logs' = WithFreed(g_default_log)
      BY <1>9 DEF log_free
    <3>2. \A l \in DOMAIN logs : l # g_default_log => logs[l].freed
      BY DEF LogsOK, OnlyDefault
    <3> QED
      BY <1>0, <2>1, <3>1, <3>2, FreedLogs
  <2>3. \A u \in Thread : at'[u] = IF u = t THEN "assign" ELSE "idle"
    BY <1>8, <1>9, <2>1 DEF log_free, Replacing
  <2> QED
    BY <2>2, <2>3 DEF LogsOK, LogsInUse, DefaultInUse, OnlyDefault, Replacing
<1>10. CASE AssignNew(t)
  <2>1. \A u \in Thread : at'[u] = "idle"
    BY <1>8, <1>10 DEF AssignNew, Replacing
  <2>2. level[t] \in Level
    OBVIOUS
  <2>3. /\ g_default_log' = NewLog
        /\ DOMAIN logs' = DOMAIN logs \cup {NewLog} /\ ~logs'[NewLog].freed
        /\ \A l \in DOMAIN logs : logs'[l] = logs[l]
    <3>1. /\ DOMAIN WithNew(level[t]) = DOMAIN logs \cup {NewLog}
          /\ ~WithNew(level[t])[NewLog].freed
          /\ \A l \in DOMAIN logs : WithNew(level[t])[l] = logs[l]
      BY <1>0, <2>2, NewLogs
    <3> QED
      BY <1>10, <3>1 DEF AssignNew
  <2>4. \A l \in DOMAIN logs : logs[l].freed
    BY <1>10 DEF AssignNew, LogsOK, DefaultInUse
  <2> QED
    BY <2>1, <2>3, <2>4 DEF LogsOK, LogsInUse, DefaultInUse, OnlyDefault, Replacing
<1>11. CASE OpenFails(t) \/ AssignNull(t)
  <2>1. /\ \A l \in DOMAIN logs : logs[l].freed
        /\ logs' = logs
    BY <1>11 DEF OpenFails, AssignNull, LogsOK, DefaultInUse
  <2>2. \A u \in Thread : at'[u] \in {"idle", "assign_null"}
    BY <1>8, <1>11 DEF OpenFails, AssignNull, Replacing
  <2>3. g_default_log' = NULL \/ (at'[t] = "assign_null" /\ g_default_log' = g_default_log)
    BY <1>11 DEF OpenFails, AssignNull
  <2> QED
    BY <2>1, <2>2, <2>3 DEF LogsOK, LogsInUse, DefaultInUse, OnlyDefault, Replacing
<1> QED
  BY <1>1, <1>2, <1>3, <1>4, <1>5, <1>6, <1>7, <1>9, <1>10, <1>11 DEF LogStep

LEMMA LogsStep ==
    ASSUME TypeOK, PlacesOK, LogsSafe, NEW t \in Thread, ThreadStep(t)
    PROVE  LogsSafe'
<1>0. SUFFICES ASSUME ~replaced' PROVE OthersIdle' /\ LogsOK'
  BY DEF LogsSafe, LogsOK
<1>1. ~replaced /\ OthersIdle'
  BY <1>0 DEF ThreadStep, History, OthersIdle, Replacing
<1>2. LogsOK /\ OthersIdle
  BY <1>1 DEF LogsSafe, LogsOK
<1>3. CASE LogStep(t)
  BY <1>1, <1>2, <1>3, LogStepLogs
<1>4. CASE RegistryCase(t)
  <2>1. CASE DumpLogs(t) /\ ~Fault
    BY <1>1, <1>2, <2>1, CallLogLogs DEF DumpLogs
  <2>2. CASE ~DumpLogs(t) \/ Fault
    <3>1. UNCHANGED <<g_default_log, logs, _log>>
      BY <1>4, <2>2 DEF RegistryCase, LockRegistry, Push, Seek, Unlink, NotFound, DumpLogs, DumpMoves,
                        Step, EndOfDump, Fault, LogUnchanged
    <3>2. at' = at \/ \E place \in {"push", "unlink", "visit", "slabs", "idle"} :
                        at' = [at EXCEPT ![t] = place] /\ ~Replacing(t)
      BY <1>4, <2>2 DEF RegistryCase, LockRegistry, Push, Seek, Unlink, NotFound, DumpLogs, DumpMoves,
                        Step, EndOfDump, Fault, registryVars, Goto, Replacing
    <3> QED
      BY <1>1, <1>2, <3>1, <3>2, ElsewhereLogs DEF TypeOK
  <2> QED
    BY <2>1, <2>2
<1>5. CASE Begin(t)
  <2>1. CASE Create(t) \/ DumpAll(t) \/ \E c \in Live : Destroy(t, c)
    <3>1. UNCHANGED <<g_default_log, logs, _log>>
      BY <2>1 DEF Create, DumpAll, Destroy, LogUnchanged
    <3>2. \E place \in {"lock_create", "lock_destroy", "lock_dump"} :
             at' = [at EXCEPT ![t] = place] /\ ~Replacing(t)
      BY <2>1 DEF Create, DumpAll, Destroy, Goto, Replacing
    <3> QED
      BY <1>1, <1>2, <3>1, <3>2, ElsewhereLogs DEF TypeOK
  <2>2. ASSUME NEW lev, at[t] = "idle", CallLog(t, lev, "idle")
        PROVE  LogsOK'
    BY <1>1, <1>2, <2>2, CallLogLogs
  <2>3. ASSUME NEW lev, SetLevel(t, lev) \/ Replace(t, lev)
        PROVE  LogsOK'
    <3> USE DEF TypeOK, LogTypeOK, Goto
    <3>1. at[t] = "idle" /\ at'[t] \in {"lock_level", "free", "assign"}
      BY <2>3 DEF SetLevel, Replace
    <3>2. \A u \in Thread \ {t} : at'[u] = at[u] /\ _log'[u] = _log[u]
      BY <2>3 DEF SetLevel, Replace
    <3>3. \A u \in Thread : ~Replacing(u)
      BY <1>1, <3>1, <3>2 DEF OthersIdle, Replacing
    <3>4. g_default_log # NULL => g_default_log \in DOMAIN logs /\ ~logs[g_default_log].freed
      BY <1>2, <3>3 DEF LogsOK, DefaultInUse
    <3>5. NULL \notin DOMAIN logs
      BY NullIsNoBlock
    <3>6. CASE SetLevel(t, lev)
      BY <1>1, <1>2, <3>2, <3>3, <3>4, <3>5, <3>6, SameLogs DEF SetLevel, Replacing
    <3>7. CASE Replace(t, lev)
      <4>1. UNCHANGED <<g_default_log, logs, _log>>
        BY <3>7 DEF Replace
      <4>2. at'[t] = IF g_default_log = NULL THEN "assign" ELSE "free"
        BY <3>7 DEF Replace
      <4>3. LogsInUse' /\ OnlyDefault'
        BY <1>2, <3>2, <4>1, <4>2 DEF LogsOK, LogsInUse, OnlyDefault
      <4>4. g_default_log = NULL => \A l \in DOMAIN logs : logs[l].freed
        BY <1>2, <3>5 DEF LogsOK, OnlyDefault
      <4>5. DefaultInUse'
        BY <1>2, <3>2, <3>3, <3>4, <4>1, <4>2, <4>4 DEF LogsOK, DefaultInUse, Replacing
      <4> QED
        BY <4>3, <4>5 DEF LogsOK
    <3> QED
      BY <2>3, <3>6, <3>7
  <2> QED
    BY <1>1, <1>5, <2>1, <2>2, <2>3 DEF Begin, CreateFails
<1> QED
  BY <1>1, <1>3, <1>4, <1>5 DEF ThreadStep

(***************************************************************************)
(* Walks along the list.                                                   *)
(***************************************************************************)

\* What is to be shown when the list stays as it is.
LEMMA SameList ==
    ASSUME ListSound, WalksSound, NEW t \in Thread, UNCHANGED <<head, cache>>,
           \A u \in Thread : Pushing(u)' <=> Pushing(u),
           \A u \in Thread : Pushing(u) => p'[u] = p[u],
           \A u \in Thread \ {t} : /\ at'[u] = at[u] /\ back'[u] = back[u]
                                   /\ pc'[u] = pc[u] /\ pr'[u] = pr[u],
           WalkSound(t)'
    PROVE  ListSound' /\ WalksSound'
<1>1. Linked' = Linked
  BY DEF Linked, Live
<1>2. ListSound'
  BY <1>1 DEF ListSound, LinkedOrNull, Live
<1>3. ASSUME NEW u \in Thread \ {t}
      PROVE  WalkSound(u)'
  BY <1>1, <1>3 DEF WalksSound, WalkSound, Met, LinkedOrNull, InRegistry
<1> QED
  BY <1>2, <1>3 DEF WalksSound

\* A thread that has the lock, and whose call the step ends, is the only one on
\* a walk.
LEMMA LastWalk ==
    ASSUME RegistryLocked, WalksSound, NEW t \in Thread, InRegistry(t),
           at' = [at EXCEPT ![t] = "idle"], at \in [Thread -> Label],
           UNCHANGED <<back, pr, pc>>, Met \subseteq Met'
    PROVE  WalksSound'
<1>1. \A u \in Thread : ~InRegistry(u)'
  BY DEF RegistryLocked, InRegistry, InLog
<1>2. \A u \in Thread : at'[u] = "unlink" => InRegistry(u)'
  BY DEF InRegistry
<1>3. \A u \in Thread : at'[u] \in {"lock_destroy", "lock_dump"} => at'[u] = at[u]
  OBVIOUS
<1> QED
  BY <1>1, <1>2, <1>3 DEF WalksSound, WalkSound

LEMMA PushList ==
    ASSUME TypeOK, OwnersDistinct, ListSound, NEW t \in Thread, Push(t)
    PROVE  ListSound' /\ Met \subseteq Met'
<1>1. /\ p[t] \in Live /\ DOMAIN cache' = DOMAIN cache /\ head' = p[t] /\ p' = p
      /\ cache'[p[t]].next = head
      /\ \A c \in DOMAIN cache : cache'[c].freed <=> cache[c].freed
      /\ \A c \in DOMAIN cache \ {p[t]} : cache'[c].next = cache[c].next
  <2>1. head' = p[t] /\ p' = p
    BY DEF Push
  <2> QED
    BY <2>1, PushCaches
<1>2. Pushing(t) /\ \A u \in Thread : Pushing(u)' <=> u # t /\ Pushing(u)
  BY DEF Push, Pushing, Goto, TypeOK
<1>3. \A u \in Thread \ {t} : Pushing(u) => p[u] # p[t]
  BY <1>2 DEF OwnersDistinct, Owning
<1>4. Live' = Live /\ p[t] \notin Linked
  BY <1>1, <1>2 DEF Live, Linked
<1>5. Linked' = Linked \cup {p[t]}
  BY <1>1, <1>2, <1>3, <1>4 DEF Linked
<1>6. NULL \notin Live
  BY NullIsNoBlock DEF Live, TypeOK
<1>7. \A c \in Linked : c # p[t] /\ c # NULL /\ cache'[c].next = cache[c].next
  BY <1>1, <1>4, <1>6 DEF Linked, Live
<1>8. \A c \in Linked' : /\ cache'[c].next \in LinkedOrNull'
                         /\ cache'[c].next # NULL => cache'[c].next # head'
  BY <1>1, <1>4, <1>5, <1>7 DEF ListSound, LinkedOrNull
<1>9. \A c, d \in Linked' : cache'[d].next = cache'[c].next /\ cache'[c].next # NULL => c = d
  BY <1>1, <1>5, <1>7 DEF ListSound, LinkedOrNull
<1>10. head' \in LinkedOrNull'
  BY <1>1, <1>5 DEF LinkedOrNull
<1>11. Met \subseteq Met'
  BY <1>1, <1>5 DEF Met, LinkedOrNull
<1> QED
  BY <1>8, <1>9, <1>10, <1>11 DEF ListSound

LEMMA UnlinkList ==
    ASSUME TypeOK, OwnersDistinct, ListSound, NEW t \in Thread, Unlink(t), WalkSound(t),
           ~CutsBehindHead(t)
    PROVE  ListSound' /\ Met \subseteq Met'
<1>0. PICK c : c = p[t]
  OBVIOUS
<1>1. /\ c \in Live /\ pc[t] = c /\ DOMAIN cache' = DOMAIN cache /\ p' = p
      /\ cache'[c].freed
      /\ \A d \in DOMAIN cache \ {c} :
            /\ cache'[d].freed <=> cache[d].freed
            /\ cache'[d].next = IF d = pr[t] THEN cache[c].next ELSE cache[d].next
  <2>1. p' = p
    BY DEF Unlink
  <2> QED
    BY <1>0, <2>1, UnlinkCaches
<1>2. head' = IF pr[t] = NULL THEN cache[c].next ELSE head
  BY <1>1 DEF Unlink
<1>3. \A u \in Thread : Pushing(u)' <=> Pushing(u)
  BY DEF Unlink, Pushing, Goto, TypeOK
<1>4. NULL \notin Live
  BY NullIsNoBlock DEF Live, TypeOK
<1>5. c \in Linked
  BY <1>1, <1>4 DEF WalkSound, InRegistry, Met, LinkedOrNull, Unlink, Live
<1>6. Linked' = Linked \ {c}
  BY <1>1, <1>3 DEF Linked, Live
<1>7. \A d \in Linked' :
         /\ d \in Linked /\ d # c /\ d # NULL
         /\ cache'[d].next = IF d = pr[t] THEN cache[c].next ELSE cache[d].next
  BY <1>1, <1>4, <1>6 DEF Linked, Live
<1>8. c # NULL /\ NULL \notin Linked
  BY <1>1, <1>4 DEF Linked
<1>9. \/ pr[t] = NULL /\ c = head
      \/ pr[t] # NULL /\ pr[t] \in Linked /\ cache[pr[t]].next = c
  BY <1>0, <1>1, <1>8 DEF WalkSound, Unlink, CutsBehindHead
<1>10. \A d, e \in Linked : cache[d].next = cache[e].next /\ cache[d].next # NULL => d = e
  BY DEF ListSound
<1>11. \A d \in Linked : /\ cache[d].next \in Linked \cup {NULL}
                         /\ cache[d].next # NULL => cache[d].next # head
  BY DEF ListSound, LinkedOrNull
<1>12. head \in Linked \cup {NULL}
  BY DEF ListSound, LinkedOrNull
<1>18. Met \subseteq Met'
  BY <1>1, <1>6 DEF Met, LinkedOrNull, Live
<1> HIDE DEF Linked
<1>13. \A d \in Linked' : cache'[d].next # c
  BY <1>5, <1>7, <1>8, <1>9, <1>10, <1>11
<1>14. \A d \in Linked' : cache'[d].next \in Linked' \cup {NULL}
  BY <1>5, <1>6, <1>7, <1>11, <1>13
<1>15. head' \in Linked' \cup {NULL}
  BY <1>2, <1>5, <1>6, <1>8, <1>9, <1>10, <1>11, <1>12
<1>16. \A d \in Linked' : cache'[d].next # NULL => cache'[d].next # head'
  BY <1>2, <1>5, <1>7, <1>8, <1>9, <1>10, <1>11
<1>17. \A d, e \in Linked' :
          cache'[d].next = cache'[e].next /\ cache'[d].next # NULL => d = e
  BY <1>5, <1>7, <1>10
<1> QED
  BY <1>14, <1>15, <1>16, <1>17, <1>18 DEF ListSound, LinkedOrNull

LEMMA CreateList ==
    ASSUME TypeOK, OwnersDistinct, ListSound, WalksSound, NEW t \in Thread,
           Create(t)
    PROVE  ListSound' /\ WalksSound'
<1>1. /\ DOMAIN cache' = DOMAIN cache \cup {NewCache} /\ NewCache \notin CacheOrNull
      /\ \A c \in DOMAIN cache : cache'[c] = cache[c]
  BY CreateCaches
<1>2. /\ UNCHANGED <<head, back, pr, pc>> /\ at' = [at EXCEPT ![t] = "lock_create"]
      /\ p' = [p EXCEPT ![t] = NewCache]
  BY DEF Create, Goto, LogUnchanged
<1>3. \A u \in Thread : Pushing(u)' <=> u = t \/ Pushing(u)
  BY <1>2 DEF Pushing, TypeOK
<1>4. \A u \in Thread : p'[u] = IF u = t THEN NewCache ELSE p[u]
  BY <1>2 DEF TypeOK
<1>5. ~Pushing(t)
  BY DEF Create, Pushing
<1>6. Linked' = Linked
  <2>1. \A c \in DOMAIN cache : c # NewCache
    BY <1>1 DEF CacheOrNull
  <2> QED
    BY <1>1, <1>3, <1>4, <1>5, <2>1 DEF Linked, Live
<1>7. \A c \in Linked : cache'[c] = cache[c]
  BY <1>1 DEF Linked, Live
<1>8. ListSound'
  BY <1>2, <1>6, <1>7 DEF ListSound, LinkedOrNull
<1>10. Met \subseteq Met'
  BY <1>1, <1>6 DEF Met, LinkedOrNull
<1>9. ASSUME NEW u \in Thread
      PROVE  WalkSound(u)'
  <2>1. CASE u = t
    BY <1>2, <2>1 DEF WalkSound, InRegistry, InLog, TypeOK
  <2>2. CASE u # t
    <3>1. at'[u] = at[u] /\ WalkSound(u)
      BY <1>2, <2>2 DEF WalksSound, TypeOK
    <3> QED
      BY <1>2, <1>6, <1>7, <1>10, <3>1 DEF WalkSound, InRegistry
  <2> QED
    BY <2>1, <2>2
<1> QED
  BY <1>8, <1>9 DEF WalksSound

\* No step makes the list or a walk unsound, but for one that cuts out a cache
\* behind the head.
LEMMA ListStep ==
    ASSUME TypeOK, PlacesOK, RegistryLocked, OwnersDistinct, RegistrySafe,
           NEW t \in Thread, ThreadStep(t)
    PROVE  RegistrySafe'
<1>0. SUFFICES ASSUME ~lost' PROVE ListSound' /\ WalksSound'
  BY DEF RegistrySafe
<1> USE DEF TypeOK, Goto, LogUnchanged
<1>1. ~lost /\ ~CutsBehindHead(t)
  BY <1>0 DEF ThreadStep, History
<1>2. ListSound /\ WalksSound /\ WalkSound(t)
  BY <1>1 DEF RegistrySafe, WalksSound
<1>3. CASE LogStep(t) /\ UNCHANGED registryVars
  <2> USE DEF LogStep, LockDefault, create_default_log, UnlockDefault, CompareLevel,
              LockLog, LockLevel, LockAt, WriteAndUnlock, StoreLevel, log_free, AssignNew,
              OpenFails, AssignNull, Fault
  <2>1. /\ back' = back
        /\ \A u \in Thread \ {t} : at'[u] = at[u]
        /\ at'[t] \notin {"push", "unlink", "lock_destroy", "lock_dump", "lock_create"}
        /\ at[t] \notin {"push", "unlink", "lock_destroy", "lock_dump", "lock_create"}
    BY <1>3
  <2>2. InRegistry(t)' => InRegistry(t)
    BY <1>3 DEF InRegistry, InLog
  <2>3. UNCHANGED <<head, cache, p, pr, pc>>
    BY <1>3 DEF registryVars
  <2>4. \A u \in Thread : Pushing(u)' <=> Pushing(u)
    BY <2>1 DEF Pushing
  <2>5. Linked' = Linked
    BY <2>3, <2>4 DEF Linked, Live
  <2> HIDE DEF LogStep, LockDefault, create_default_log, UnlockDefault, CompareLevel,
              LockLog, LockLevel, LockAt, WriteAndUnlock, StoreLevel, log_free, AssignNew,
              OpenFails, AssignNull, Fault
  <2>6. WalkSound(t)'
    BY <1>2, <2>1, <2>2, <2>3, <2>5 DEF WalkSound, Met, LinkedOrNull
  <2> QED
    BY <1>2, <2>1, <2>3, <2>4, <2>6, SameList
<1>4. CASE RegistryCase(t)
  <2>1. CASE LockRegistry(t, "lock_create", "push")
    BY <1>2, <2>1, SameList DEF LockRegistry, WalkSound, Pushing, InRegistry
  <2>2. CASE LockRegistry(t, "lock_destroy", "unlink")
             \/ LockRegistry(t, "lock_dump", "visit")
    <3>2. /\ UNCHANGED <<head, cache, p, pr, pc, back>>
          /\ at[t] \in {"lock_destroy", "lock_dump"} /\ at'[t] \in {"unlink", "visit"}
          /\ at'[t] = "unlink" => at[t] = "lock_destroy"
          /\ \A u \in Thread \ {t} : at'[u] = at[u]
      BY <2>2 DEF LockRegistry
    <3>3. \A u \in Thread : Pushing(u)' <=> Pushing(u)
      BY <3>2 DEF Pushing
    <3>4. Linked' = Linked
      BY <3>2, <3>3 DEF Linked, Live
    <3>5. WalkSound(t)'
      BY <1>2, <3>2, <3>4 DEF WalkSound, Met, LinkedOrNull
    <3> QED
      BY <1>2, <3>2, <3>3, <3>5, SameList
  <2>3. CASE Push(t)
    BY <1>2, <2>3, PushList, LastWalk DEF Push, InRegistry
  <2>4. CASE Seek(t) /\ ~(Fault /\ UNCHANGED registryVars)
    <3>1. /\ UNCHANGED <<head, cache, p, at, back>> /\ at[t] = "unlink"
          /\ pr' = [pr EXCEPT ![t] = pc[t]]
          /\ pc' = [pc EXCEPT ![t] = cache[pc[t]].next]
          /\ pc[t] # NULL /\ ~cache[pc[t]].freed
      BY <2>4 DEF Seek
    <3>2. pc[t] \in Linked
      BY <1>2, <3>1 DEF WalkSound, InRegistry, Met, LinkedOrNull
    <3>3. Linked' = Linked /\ \A u \in Thread : Pushing(u)' <=> Pushing(u)
      BY <3>1 DEF Linked, Live, Pushing
    <3>4. WalkSound(t)'
      BY <1>2, <3>1, <3>2, <3>3 DEF WalkSound, ListSound, Met, LinkedOrNull
    <3> QED
      BY <1>2, <3>1, <3>3, <3>4, SameList
  <2>5. CASE Unlink(t)
    BY <1>1, <1>2, <2>5, UnlinkList, LastWalk DEF Unlink, InRegistry
  <2>6. CASE NotFound(t) \/ EndOfDump(t)
    <3>1. /\ UNCHANGED <<head, cache, p, pr, pc, back>> /\ at[t] \in {"unlink", "visit"}
          /\ at' = [at EXCEPT ![t] = "idle"]
      BY <2>6 DEF NotFound, EndOfDump
    <3>2. \A u \in Thread : Pushing(u)' <=> Pushing(u)
      BY <3>1 DEF Pushing
    <3>3. WalkSound(t)'
      BY <3>1 DEF WalkSound, InRegistry, InLog
    <3> QED
      BY <1>2, <3>1, <3>2, <3>3, SameList
  <2>7. CASE (DumpLogs(t) \/ DumpMoves(t)) /\ ~(Fault /\ UNCHANGED registryVars)
    <3>1. /\ UNCHANGED <<head, cache, p, pr, pc>>
          /\ at[t] \in {"visit", "slabs", "next_slab"} /\ pc[t] # NULL
          /\ at'[t] \in {"lock_default", "compare", "slabs"}
          /\ \A u \in Thread \ {t} : at'[u] = at[u] /\ back'[u] = back[u]
      BY <2>7 DEF DumpLogs, DumpMoves, CallLog, registryVars, PlacesOK
    <3>2. Linked' = Linked /\ \A u \in Thread : Pushing(u)' <=> Pushing(u)
      BY <3>1 DEF Linked, Live, Pushing
    <3>3. WalkSound(t)'
      BY <1>2, <3>1, <3>2 DEF WalkSound, InRegistry, Met, LinkedOrNull
    <3> QED
      BY <1>2, <3>1, <3>2, <3>3, SameList
  <2>8. CASE Step(t) /\ ~(Fault /\ UNCHANGED registryVars)
    <3>1. /\ UNCHANGED <<head, cache, p, pr, back>> /\ at[t] = "next"
          /\ pc' = [pc EXCEPT ![t] = cache[pc[t]].next]
          /\ at' = [at EXCEPT ![t] = "visit"]
          /\ pc[t] # NULL /\ ~cache[pc[t]].freed
      BY <2>8 DEF Step, PlacesOK
    <3>2. pc[t] \in Linked
      BY <1>2, <3>1 DEF WalkSound, InRegistry, Met, LinkedOrNull
    <3>3. Linked' = Linked /\ \A u \in Thread : Pushing(u)' <=> Pushing(u)
      BY <3>1 DEF Linked, Live, Pushing
    <3>4. WalkSound(t)'
      BY <1>2, <3>1, <3>2, <3>3 DEF WalkSound, ListSound, Met, LinkedOrNull
    <3> QED
      BY <1>2, <3>1, <3>3, <3>4, SameList
  <2>9. CASE Fault /\ UNCHANGED registryVars
    <3>1. UNCHANGED <<head, cache, p, pr, pc, at, back>>
      BY <2>9 DEF Fault, registryVars
    <3>2. Linked' = Linked /\ \A u \in Thread : Pushing(u)' <=> Pushing(u)
      BY <3>1 DEF Linked, Live, Pushing
    <3>3. WalkSound(t)'
      BY <1>2, <3>1, <3>2 DEF WalkSound, InRegistry, Met, LinkedOrNull
    <3> QED
      BY <1>2, <3>1, <3>2, <3>3, SameList
  <2> QED
    BY <1>4, <2>1, <2>2, <2>3, <2>4, <2>5, <2>6, <2>7, <2>8, <2>9
       DEF RegistryCase, Seek, DumpLogs, DumpMoves, Step
<1>5. CASE Begin(t)
  <2>1. CASE Create(t)
    BY <1>2, <2>1, CreateList DEF Create
  <2>2. CASE ~Create(t)
    <3>1. /\ UNCHANGED <<head, cache>> /\ at[t] = "idle"
          /\ at'[t] \notin {"push", "unlink", "visit", "slabs", "next_slab", "next",
                            "lock_create"}
          /\ at'[t] \in InLog => back'[t] = "idle"
          /\ at'[t] = "lock_destroy" => pr'[t] = NULL
          /\ at'[t] \in {"lock_destroy", "lock_dump"} => pc'[t] = head
      BY <1>5, <2>2 DEF Begin, CreateFails, Destroy, DumpAll, CallLog, SetLevel, Replace, InLog
    <3>2. \A u \in Thread \ {t} : /\ at'[u] = at[u] /\ back'[u] = back[u]
                                  /\ p'[u] = p[u] /\ pc'[u] = pc[u] /\ pr'[u] = pr[u]
      BY <1>5, <2>2 DEF Begin, CreateFails, Destroy, DumpAll, CallLog, SetLevel, Replace
    <3>3. ~Pushing(t) /\ \A u \in Thread : Pushing(u)' <=> Pushing(u)
      BY <3>1, <3>2 DEF Pushing
    <3>5. Linked' = Linked
      BY <3>1, <3>2, <3>3 DEF Linked, Live
    <3>4. WalkSound(t)'
      BY <1>2, <3>1, <3>5 DEF WalkSound, InRegistry, ListSound, Met, LinkedOrNull
    <3> QED
      BY <1>2, <3>1, <3>2, <3>3, <3>4, SameList
  <2> QED
    BY <2>1, <2>2
<1> QED
  BY <1>3, <1>4, <1>5 DEF ThreadStep

(***************************************************************************)
(* The list loses nobody.                                                  *)
(***************************************************************************)

\* The step changes the list in no way that matters.
KeepsList ==
    /\ head' = head /\ Linked' = Linked
    /\ \A c \in Linked : cache'[c] = cache[c]

LEMMA KeepsReached ==
    ASSUME Reached, KeepsList
    PROVE  Reached'
<1> SUFFICES ASSUME NEW S \in SUBSET Linked', HoldsList(S)' PROVE S = Linked'
  BY DEF Reached
<1>1. S \in SUBSET Linked /\ HoldsList(S)
  BY DEF KeepsList, HoldsList
<1> QED
  BY <1>1 DEF Reached, KeepsList

LEMMA PushReached ==
    ASSUME TypeOK, OwnersDistinct, ListSound, Reached, NEW t \in Thread, Push(t)
    PROVE  Reached'
<1>1. /\ p[t] \in Live /\ DOMAIN cache' = DOMAIN cache /\ head' = p[t] /\ p' = p
      /\ cache'[p[t]].next = head
      /\ \A c \in DOMAIN cache : cache'[c].freed <=> cache[c].freed
      /\ \A c \in DOMAIN cache \ {p[t]} : cache'[c].next = cache[c].next
  <2>1. head' = p[t] /\ p' = p
    BY DEF Push
  <2> QED
    BY <2>1, PushCaches
<1>2. Pushing(t) /\ \A u \in Thread : Pushing(u)' <=> u # t /\ Pushing(u)
  BY DEF Push, Pushing, Goto, TypeOK
<1>3. Live' = Live /\ p[t] \notin Linked
  BY <1>1, <1>2 DEF Live, Linked
<1>4. Linked' \subseteq Linked \cup {p[t]}
  BY <1>1, <1>2, <1>3 DEF Linked
<1>5. p[t] # NULL
  BY <1>1, NullIsNoBlock DEF Live, TypeOK
<1>6. SUFFICES ASSUME NEW S \in SUBSET Linked', HoldsList(S)' PROVE S = Linked'
  BY DEF Reached
<1>7. /\ p[t] \in S /\ (head # NULL => head \in S)
      /\ \A c \in S : cache'[c].next # NULL => cache'[c].next \in S
  BY <1>1, <1>5, <1>6 DEF HoldsList
<1>8. head \in Linked \cup {NULL} /\ \A c \in Linked : cache[c].next \in Linked \cup {NULL}
  BY DEF ListSound, LinkedOrNull
<1> DEFINE T == S \ {p[t]}
<1>9. T \in SUBSET Linked
  BY <1>4, <1>6
<1>10. \A c \in T : cache'[c].next = cache[c].next
  BY <1>1, <1>9 DEF Linked, Live
<1>11. HoldsList(T)
  <2> HIDE DEF Linked
  <2> QED
    BY <1>3, <1>5, <1>7, <1>8, <1>9, <1>10 DEF HoldsList
<1>12. T = Linked
  BY <1>9, <1>11 DEF Reached
<1> QED
  BY <1>4, <1>6, <1>7, <1>12

\* The cache that is unlinked is the only one the list goes round.
LEMMA UnlinkReached ==
    ASSUME TypeOK, OwnersDistinct, ListSound, Reached, NEW t \in Thread, Unlink(t),
           WalkSound(t), ~CutsBehindHead(t)
    PROVE  Reached'
<1>0. PICK c : c = p[t]
  OBVIOUS
<1>1. /\ c \in Live /\ pc[t] = c /\ DOMAIN cache' = DOMAIN cache /\ p' = p
      /\ cache'[c].freed
      /\ \A d \in DOMAIN cache \ {c} :
            /\ cache'[d].freed <=> cache[d].freed
            /\ cache'[d].next = IF d = pr[t] THEN cache[c].next ELSE cache[d].next
  <2>1. p' = p
    BY DEF Unlink
  <2> QED
    BY <1>0, <2>1, UnlinkCaches
<1>2. head' = IF pr[t] = NULL THEN cache[c].next ELSE head
  BY <1>1 DEF Unlink
<1>3. \A u \in Thread : Pushing(u)' <=> Pushing(u)
  BY DEF Unlink, Pushing, Goto, TypeOK
<1>4. NULL \notin Live
  BY NullIsNoBlock DEF Live, TypeOK
<1>5. c \in Linked
  BY <1>1, <1>4 DEF WalkSound, InRegistry, Met, LinkedOrNull, Unlink, Live
<1>6. Linked' = Linked \ {c}
  BY <1>1, <1>3 DEF Linked, Live
<1>7. \A d \in Linked \ {c} :
         cache'[d].next = IF d = pr[t] THEN cache[c].next ELSE cache[d].next
  BY <1>1 DEF Linked, Live
<1>8. c # NULL /\ NULL \notin Linked
  BY <1>1, <1>4 DEF Linked
<1>9. \/ pr[t] = NULL /\ c = head
      \/ pr[t] # NULL /\ pr[t] \in Linked /\ cache[pr[t]].next = c
  BY <1>0, <1>1, <1>8 DEF WalkSound, Unlink, CutsBehindHead
<1>10. SUFFICES ASSUME NEW S \in SUBSET Linked', HoldsList(S)' PROVE S = Linked'
  BY DEF Reached
<1>11. /\ head' # NULL => head' \in S
       /\ \A d \in S : cache'[d].next # NULL => cache'[d].next \in S
       /\ S \subseteq Linked \ {c}
  BY <1>6, <1>10 DEF HoldsList
<1>12. \A T \in SUBSET Linked : HoldsList(T) => T = Linked
  BY DEF Reached
<1> HIDE DEF Linked
<1>13. CASE pr[t] = NULL \/ pr[t] \in S
  <2> DEFINE T == S \cup {c}
  <2>1. T \in SUBSET Linked
    BY <1>5, <1>11
  <2>2. head # NULL => head \in T
    BY <1>2, <1>9, <1>11
  <2>3. cache[c].next # NULL => cache[c].next \in T
    BY <1>2, <1>5, <1>7, <1>11, <1>13
  <2>4. \A d \in S : cache[d].next # NULL => cache[d].next \in T
    BY <1>7, <1>8, <1>9, <1>11
  <2>5. HoldsList(T)
    BY <2>2, <2>3, <2>4 DEF HoldsList
  <2>6. T = Linked
    BY <1>12, <2>1, <2>5
  <2> QED
    BY <1>6, <1>11, <2>6
<1>14. CASE pr[t] # NULL /\ pr[t] \notin S
  <2>1. HoldsList(S)
    BY <1>2, <1>7, <1>11, <1>14 DEF HoldsList
  <2>2. S = Linked
    BY <1>11, <1>12, <2>1
  <2> QED
    BY <1>5, <1>11, <2>2
<1> QED
  BY <1>13, <1>14

LEMMA CreateReached ==
    ASSUME TypeOK, NEW t \in Thread, Create(t)
    PROVE  KeepsList
<1>1. /\ DOMAIN cache' = DOMAIN cache \cup {NewCache} /\ NewCache \notin CacheOrNull
      /\ \A c \in DOMAIN cache : cache'[c] = cache[c]
  BY CreateCaches
<1>2. head' = head /\ at' = [at EXCEPT ![t] = "lock_create"] /\ p' = [p EXCEPT ![t] = NewCache]
  BY DEF Create, Goto, LogUnchanged
<1>3. \A u \in Thread : Pushing(u)' <=> u = t \/ Pushing(u)
  BY <1>2 DEF Pushing, TypeOK
<1>4. \A u \in Thread : p'[u] = IF u = t THEN NewCache ELSE p[u]
  BY <1>2 DEF TypeOK
<1>5. ~Pushing(t)
  BY DEF Create, Pushing
<1>6. Linked' = Linked
  <2>1. \A c \in DOMAIN cache : c # NewCache
    BY <1>1 DEF CacheOrNull
  <2> QED
    BY <1>1, <1>3, <1>4, <1>5, <2>1 DEF Linked, Live
<1> QED
  BY <1>1, <1>2, <1>6 DEF KeepsList, Linked, Live

\* The other steps leave the list alone, and who is about to push.
LEMMA OtherReached ==
    ASSUME TypeOK, NEW t \in Thread, ThreadStep(t), ~Push(t), ~Unlink(t), ~Create(t)
    PROVE  KeepsList
<1> USE DEF TypeOK, Goto, LogUnchanged
<1>1. UNCHANGED <<head, cache>>
  BY DEF ThreadStep, Begin, RegistryCase, LockRegistry, Seek, NotFound, DumpLogs, DumpMoves,
         Step, EndOfDump, Fault, registryVars, CreateFails, Destroy, DumpAll
<1>2. \A u \in Thread : Pushing(u)' <=> Pushing(u)
  <2>1. CASE LogStep(t)
    BY <2>1 DEF LogStep, LockDefault, create_default_log, UnlockDefault, CompareLevel,
                LockLog, LockLevel, LockAt, WriteAndUnlock, StoreLevel, log_free, AssignNew,
                OpenFails, AssignNull, Fault, Pushing
  <2>2. CASE RegistryCase(t)
    BY <2>2 DEF RegistryCase, LockRegistry, Seek, NotFound, DumpLogs, DumpMoves, CallLog, Step, EndOfDump,
                Fault, Pushing
  <2>3. CASE Begin(t)
    BY <2>3 DEF Begin, CreateFails, Destroy, DumpAll, CallLog, SetLevel, Replace, Pushing
  <2> QED
    BY <2>1, <2>2, <2>3 DEF ThreadStep
<1>3. \A u \in Thread : Pushing(u) => p'[u] = p[u]
  BY DEF ThreadStep, Begin, RegistryCase, LockRegistry, Seek, NotFound, DumpLogs, DumpMoves,
         Step, EndOfDump, Fault, registryVars, CreateFails, Destroy, DumpAll, Pushing
<1> QED
  BY <1>1, <1>2, <1>3 DEF KeepsList, Linked, Live

LEMMA ReachedStep ==
    ASSUME TypeOK, OwnersDistinct, RegistrySafe, AllReached, NEW t \in Thread, ThreadStep(t)
    PROVE  AllReached'
<1>0. SUFFICES ASSUME ~lost' PROVE Reached'
  BY DEF AllReached
<1>1. ListSound /\ WalkSound(t) /\ Reached /\ ~CutsBehindHead(t)
  BY <1>0 DEF ThreadStep, History, RegistrySafe, WalksSound, AllReached
<1> QED
  BY <1>1, PushReached, UnlinkReached, CreateReached, OtherReached, KeepsReached

\* On a sound list whose caches are all reached, those are the chain.
LEMMA ChainIsLinked ==
    ASSUME TypeOK, ListSound, Reached
    PROVE  Chain = Linked
<1>1. Linked \subseteq DOMAIN cache
  BY DEF Linked, Live
<1>2. NULL \notin Linked
  BY NullIsNoBlock DEF Linked, Live, TypeOK
<1>3. HoldsList(Linked)
  BY DEF HoldsList, ListSound, LinkedOrNull
<1>4. ASSUME NEW S \in SUBSET DOMAIN cache, HoldsList(S)
      PROVE  Linked \subseteq S
  <2>1. HoldsList(S \cap Linked)
    BY <1>2, <1>3, <1>4 DEF HoldsList
  <2> QED
    BY <2>1 DEF Reached
<1> QED
  BY <1>1, <1>3, <1>4 DEF Chain

(***************************************************************************)
(* Walks that began at the head.                                           *)
(***************************************************************************)

\* What a step that changes no list does to the walk of its thread.
LEMMA CurrentWalk ==
    ASSUME TypeOK, PlacesOK, ListSound, NEW t \in Thread, WalkCurrent(t), ThreadStep(t),
           KeepsList, ~Push(t), ~Unlink(t), ~(StaleHead(t) /\ memcache_lock' = t)
    PROVE  WalkCurrent(t)'
<1> USE DEF TypeOK, Goto, LogUnchanged
<1>0. /\ head' = head /\ LinkedOrNull' = LinkedOrNull /\ head \in LinkedOrNull
      /\ \A c \in Linked : cache[c].next \in LinkedOrNull
      /\ NULL \notin Linked
  BY NullIsNoBlock DEF KeepsList, ListSound, LinkedOrNull, Linked, Live
<1>1. CASE LogStep(t) /\ UNCHANGED registryVars
  <2>1. at'[t] # "unlink" /\ (InRegistry(t)' => InRegistry(t)) /\ at[t] # "push"
    BY <1>1 DEF LogStep, LockDefault, create_default_log, UnlockDefault, CompareLevel,
                LockLog, LockLevel, LockAt, WriteAndUnlock, StoreLevel, log_free, AssignNew,
                OpenFails, AssignNull, Fault, InRegistry, InLog
  <2> QED
    BY <1>0, <1>1, <2>1 DEF WalkCurrent, registryVars
<1>2. CASE LockRegistry(t, "lock_create", "push")
  BY <1>2 DEF LockRegistry, WalkCurrent
<1>3. CASE LockRegistry(t, "lock_destroy", "unlink") \/ LockRegistry(t, "lock_dump", "visit")
  <2>1. pc[t] = head /\ pc' = pc
    BY <1>3 DEF LockRegistry, StaleHead
  <2> QED
    BY <1>0, <2>1 DEF WalkCurrent
<1>4. CASE Fault /\ UNCHANGED registryVars
  BY <1>0, <1>4 DEF Fault, registryVars, WalkCurrent, InRegistry
<1>5. CASE Seek(t) /\ ~(Fault /\ UNCHANGED registryVars)
  <2>1. /\ at[t] = "unlink" /\ pc[t] # NULL
        /\ pr'[t] = pc[t] /\ pc'[t] = cache[pc[t]].next
    BY <1>5 DEF Seek
  <2>2. pc[t] \in Linked
    BY <2>1 DEF WalkCurrent, InRegistry, LinkedOrNull
  <2> QED
    BY <1>0, <2>1, <2>2 DEF WalkCurrent
<1>6. CASE NotFound(t) \/ EndOfDump(t)
  BY <1>6 DEF NotFound, EndOfDump, WalkCurrent, InRegistry, InLog
<1>7. CASE (DumpLogs(t) \/ DumpMoves(t)) /\ ~(Fault /\ UNCHANGED registryVars)
  <2>1. /\ pc' = pc /\ at[t] \in {"visit", "slabs", "next_slab"}
        /\ at'[t] \in {"lock_default", "compare", "slabs"}
    BY <1>7 DEF DumpLogs, DumpMoves, CallLog, registryVars
  <2> QED
    BY <1>0, <2>1 DEF WalkCurrent, InRegistry
<1>8. CASE Step(t) /\ ~(Fault /\ UNCHANGED registryVars)
  <2>1. at[t] = "next" /\ at'[t] = "visit" /\ pc[t] # NULL /\ pc'[t] = cache[pc[t]].next
    BY <1>8 DEF Step, PlacesOK
  <2>2. pc[t] \in Linked
    BY <2>1 DEF WalkCurrent, InRegistry, LinkedOrNull
  <2> QED
    BY <1>0, <2>1, <2>2 DEF WalkCurrent
<1>9. CASE Begin(t)
  <2>1. ~InRegistry(t)'
    BY <1>9 DEF Begin, CreateFails, Create, Destroy, DumpAll, CallLog, SetLevel, Replace,
                InRegistry, InLog
  <2> QED
    BY <2>1 DEF WalkCurrent, InRegistry
<1> QED
  BY <1>1, <1>2, <1>3, <1>4, <1>5, <1>6, <1>7, <1>8, <1>9
     DEF ThreadStep, RegistryCase, Seek, DumpLogs, DumpMoves, Step

\* A step leaves the places and the walks of the other threads alone.
LEMMA OtherWalks ==
    ASSUME TypeOK, NEW t \in Thread, ThreadStep(t), NEW u \in Thread, u # t
    PROVE  /\ at'[u] = at[u] /\ back'[u] = back[u]
           /\ pc'[u] = pc[u] /\ pr'[u] = pr[u]
<1> USE DEF TypeOK, Goto, LogUnchanged
<1>1. CASE LogStep(t) /\ UNCHANGED registryVars
  BY <1>1 DEF LogStep, LockDefault, create_default_log, UnlockDefault, CompareLevel,
              LockLog, LockLevel, LockAt, WriteAndUnlock, StoreLevel, log_free, AssignNew,
              OpenFails, AssignNull, Fault, registryVars
<1>2. CASE RegistryCase(t)
  BY <1>2 DEF RegistryCase, LockRegistry, Push, Seek, Unlink, NotFound, DumpLogs, DumpMoves,
              CallLog, Step, EndOfDump, Fault, registryVars
<1>3. CASE Begin(t)
  BY <1>3 DEF Begin, CreateFails, Create, Destroy, DumpAll, CallLog, SetLevel, Replace
<1> QED
  BY <1>1, <1>2, <1>3 DEF ThreadStep

LEMMA CurrentStep ==
    ASSUME TypeOK, PlacesOK, RegistryLocked, OwnersDistinct, RegistrySafe, HeadsCurrent,
           NEW t \in Thread, ThreadStep(t)
    PROVE  HeadsCurrent'
<1>0. SUFFICES ASSUME ~stale' PROVE ~lost' /\ WalksCurrent'
  BY DEF HeadsCurrent
<1>1. ~stale /\ ~(StaleHead(t) /\ memcache_lock' = t)
  BY <1>0 DEF ThreadStep, History
<1>2. ~lost /\ WalksCurrent /\ WalkCurrent(t) /\ ListSound
  BY <1>1 DEF HeadsCurrent, WalksCurrent, RegistrySafe
<1>3. ~lost'
  BY <1>2 DEF ThreadStep, History, CutsBehindHead, WalkCurrent
<1>4. CASE Push(t) \/ Unlink(t)
  <2>1. InRegistry(t) /\ at'[t] = "idle"
    BY <1>4 DEF Push, Unlink, InRegistry, Goto, TypeOK
  <2>2. \A u \in Thread : ~InRegistry(u)'
    <3>1. ASSUME NEW u \in Thread, u # t
          PROVE  ~InRegistry(u)'
      BY <2>1, <3>1, OtherWalks DEF RegistryLocked, InRegistry
    <3> QED
      BY <2>1, <3>1 DEF InRegistry, InLog
  <2> QED
    BY <1>3, <2>2 DEF WalksCurrent, WalkCurrent, InRegistry
<1>5. CASE ~Push(t) /\ ~Unlink(t)
  <2>1. KeepsList
    BY <1>5, CreateReached, OtherReached
  <2>2. WalkCurrent(t)'
    BY <1>1, <1>2, <1>5, <2>1, CurrentWalk
  <2>3. ASSUME NEW u \in Thread, u # t
        PROVE  WalkCurrent(u)'
    BY <1>2, <2>1, <2>3, OtherWalks
       DEF WalksCurrent, WalkCurrent, InRegistry, KeepsList, LinkedOrNull
  <2> QED
    BY <1>3, <2>2, <2>3 DEF WalksCurrent
<1> QED
  BY <1>4, <1>5

(***************************************************************************)
(* The slabs of the caches, and the dumps that walk them.                  *)
(***************************************************************************)

\* Any step: of a call, or one that links or unlinks a slab between two calls.
AnyStep(t) == Continue(t) \/ Begin(t) \/ Move(t)

SlabRec == [next : SlabOrNull, of : CacheNo \cup {NULL},
            place : {"unused", "list", "reserve", "freed"}]

\* What the three actions that change slabs do to each of them.
LEMMA UnlinkSlabs ==
    ASSUME TypeOK, NEW t \in Thread, Unlink(t)
    PROVE  /\ slab' \in [Slab -> SlabRec]
           /\ UNCHANGED <<list, wait_for_free, po, moves>>
           /\ \A s \in Slab :
                 /\ slab'[s].next = slab[s].next /\ slab'[s].of = slab[s].of
                 /\ slab[s].of # pc[t] => slab'[s].place = slab[s].place
                 /\ slab[s].of = pc[t] => slab'[s].place = "freed"
<1>1. slab \in [Slab -> SlabRec]
  BY DEF TypeOK, SlabTypeOK, SlabRec
<1>2. \A s \in Slab : slab[s] \in SlabRec
  BY <1>1
<1>3. slab' = [s \in Slab |-> IF slab[s].of = pc[t]
                             THEN [slab[s] EXCEPT !.place = "freed"] ELSE slab[s]]
  BY DEF Unlink
<1> QED
  BY <1>2, <1>3 DEF Unlink, SlabRec

LEMMA GrowSlabs ==
    ASSUME TypeOK, NEW t \in Thread, NEW c \in Live, NEW s \in Slab, Grow(t, c, s)
    PROVE  /\ slab' \in [Slab -> SlabRec]
           /\ list' = [list EXCEPT ![c] = s]
           /\ wait_for_free' = [wait_for_free EXCEPT ![c] = NULL]
           /\ slab'[s].next = list[c] /\ slab'[s].of = c /\ slab'[s].place = "list"
           /\ \A u \in Slab : u # s => slab'[u] = slab[u]
<1>1. slab \in [Slab -> SlabRec] /\ c \in CacheNo /\ list[c] \in SlabOrNull
  BY DEF TypeOK, SlabTypeOK, SlabRec, Live
<1> DEFINE r == [next |-> list[c], of |-> c, place |-> "list"]
<1>2. r \in SlabRec /\ r.next = list[c] /\ r.of = c /\ r.place = "list"
  BY <1>1 DEF SlabRec
<1>3. slab' = [slab EXCEPT ![s] = r]
  BY DEF Grow
<1> HIDE DEF r
<1> QED
  BY <1>1, <1>2, <1>3 DEF Grow

LEMMA ShrinkSlabs ==
    ASSUME TypeOK, NEW t \in Thread, NEW c \in Live, NEW s \in Slab, Shrink(t, c, s)
    PROVE  /\ slab' \in [Slab -> SlabRec]
           /\ list' = [list EXCEPT ![c] = IF @ = s THEN slab[s].next ELSE @]
           /\ wait_for_free' = [wait_for_free EXCEPT ![c] = s]
           /\ slab'[s].of = slab[s].of /\ slab'[s].place = "reserve"
           /\ \A u \in Slab : u # s /\ u = wait_for_free[c] =>
                 slab'[u].of = slab[u].of /\ slab'[u].place = "freed"
           /\ \A u \in Slab : u # s /\ u # wait_for_free[c] =>
                 /\ slab'[u].of = slab[u].of /\ slab'[u].place = slab[u].place
                 /\ slab[u].next = s => slab'[u].next = slab[s].next
                 /\ slab[u].next # s => slab'[u].next = slab[u].next
<1>1. slab \in [Slab -> SlabRec] /\ c \in CacheNo /\ list \in [CacheNo -> SlabOrNull]
  BY DEF TypeOK, SlabTypeOK, SlabRec, Live
<1>2. \A u \in Slab : slab[u] \in SlabRec
  BY <1>1
<1>3. slab' = [u \in Slab |->
                 IF u = s THEN [slab[u] EXCEPT !.place = "reserve"]
                 ELSE IF u = wait_for_free[c] THEN [slab[u] EXCEPT !.place = "freed"]
                 ELSE [slab[u] EXCEPT !.next = IF @ = s THEN slab[s].next ELSE @]]
  BY DEF Shrink
<1>4. /\ list' = [list EXCEPT ![c] = IF @ = s THEN slab[s].next ELSE @]
      /\ wait_for_free' = [wait_for_free EXCEPT ![c] = s]
  BY DEF Shrink
<1>5. slab' \in [Slab -> SlabRec]
  BY <1>2, <1>3 DEF SlabRec
<1>6. slab'[s].of = slab[s].of /\ slab'[s].place = "reserve"
  BY <1>2, <1>3 DEF SlabRec
<1>7. ASSUME NEW u \in Slab, u # s, u = wait_for_free[c]
      PROVE  slab'[u].of = slab[u].of /\ slab'[u].place = "freed"
  BY <1>2, <1>3, <1>7 DEF SlabRec
<1>8. ASSUME NEW u \in Slab, u # s, u # wait_for_free[c]
      PROVE  /\ slab'[u].of = slab[u].of /\ slab'[u].place = slab[u].place
             /\ slab[u].next = s => slab'[u].next = slab[s].next
             /\ slab[u].next # s => slab'[u].next = slab[u].next
  BY <1>2, <1>3, <1>8 DEF SlabRec
<1> QED
  BY <1>4, <1>5, <1>6, <1>7, <1>8

\* The other steps change no slab, and no dump but the thread's own moves.
LEMMA OtherSlabs ==
    ASSUME NEW t \in Thread, Continue(t) \/ Begin(t), ~Unlink(t)
    PROVE  /\ UNCHANGED <<list, wait_for_free, slab, moves>>
           /\ po' = po \/ Visit(t) \/ NextSlab(t)
BY DEF Continue, RegistryStep, Begin, Visit, VisitSlab, NextSlab, VisitReserve, slabVars

\* Caches are created, and never forgotten.
LEMMA CachesStay ==
    ASSUME TypeOK, PlacesOK, OwnersDistinct, NEW t \in Thread, AnyStep(t)
    PROVE  /\ DOMAIN cache' \subseteq CacheNo
           /\ \A c \in CacheNo : Gone(c) => Gone(c)'
<1>0. DOMAIN cache \subseteq CacheNo
  BY DEF TypeOK, SlabTypeOK
<1>1. CASE UNCHANGED cache
  BY <1>0, <1>1 DEF Gone
<1>2. CASE Push(t)
  BY <1>0, <1>2, PushCaches DEF Gone
<1>3. CASE Unlink(t)
  BY <1>0, <1>3, UnlinkCaches DEF Gone
<1>4. CASE Create(t)
  <2>1. Len(cache) \in Nat
    BY LenProperties DEF TypeOK
  <2>2. NewCache \in CacheNo
    BY <1>4, <2>1, BoundAssumption DEF Create, CacheNo, NewCache
  <2> QED
    BY <1>0, <1>4, <2>2, CreateCaches DEF Gone
<1>5. CASE ~Push(t) /\ ~Unlink(t) /\ ~Create(t)
  <2>1. UNCHANGED cache
    BY <1>5 DEF AnyStep, Continue, RegistryStep, LockRegistry, Seek, NotFound, Visit,
                VisitSlab, NextSlab, VisitReserve, Step, EndOfDump, Begin, CreateFails,
                Destroy, DumpAll, Move, registryVars
  <2> QED
    BY <1>1, <2>1
<1> QED
  BY <1>2, <1>3, <1>4, <1>5

LEMMA SlabTypesStep ==
    ASSUME TypeOK, PlacesOK, SlabPlaces, OwnersDistinct, NEW t \in Thread, AnyStep(t),
           History(t)
    PROVE  SlabTypeOK'
<1>1. DOMAIN cache' \subseteq CacheNo /\ shrunk' \in BOOLEAN
  BY CachesStay DEF History
<1>2. /\ list \in [CacheNo -> SlabOrNull] /\ wait_for_free \in [CacheNo -> SlabOrNull]
      /\ slab \in [Slab -> SlabRec] /\ po \in [Thread -> SlabOrNull]
      /\ moves \in 0 .. MaxMoves
  BY DEF TypeOK, SlabTypeOK, SlabRec
<1>3. SUFFICES /\ list' \in [CacheNo -> SlabOrNull]
               /\ wait_for_free' \in [CacheNo -> SlabOrNull]
               /\ slab' \in [Slab -> SlabRec] /\ po' \in [Thread -> SlabOrNull]
               /\ moves' \in 0 .. MaxMoves
  BY <1>1 DEF SlabTypeOK, SlabRec, CacheNo, SlabOrNull
<1>4. CASE Unlink(t)
  BY <1>2, <1>4, UnlinkSlabs
<1>5. CASE Move(t)
  <2>1. moves' \in 0 .. MaxMoves /\ po' = po
    BY <1>2, <1>5, BoundAssumption DEF Move
  <2>2. PICK c \in Live, s \in Slab : Grow(t, c, s) \/ Shrink(t, c, s)
    BY <1>5 DEF Move
  <2>3. c \in CacheNo /\ s \in SlabOrNull /\ NULL \in SlabOrNull
    BY DEF Live, TypeOK, SlabTypeOK, SlabOrNull
  <2>4. CASE Grow(t, c, s)
    BY <1>2, <2>1, <2>3, <2>4, GrowSlabs
  <2>5. CASE Shrink(t, c, s)
    <3>1. slab[s].next \in SlabOrNull
      BY <1>2 DEF SlabRec
    <3> QED
      BY <1>2, <2>1, <2>3, <2>5, <3>1, ShrinkSlabs
  <2> QED
    BY <2>2, <2>4, <2>5
<1>6. CASE (Continue(t) \/ Begin(t)) /\ ~Unlink(t)
  <2>1. UNCHANGED <<list, wait_for_free, slab, moves>>
    BY <1>6, OtherSlabs
  <2>2. CASE po' = po
    BY <1>2, <2>1, <2>2
  <2>3. CASE Visit(t) /\ po' # po
    <3>1. pc[t] \in CacheNo /\ po' = [po EXCEPT ![t] = list[pc[t]]]
      BY <2>3 DEF Visit, TypeOK, CacheOrNull, SlabTypeOK
    <3> QED
      BY <1>2, <2>1, <3>1
  <2>4. CASE NextSlab(t) /\ po' # po
    <3>1. po[t] \in Slab /\ po' = [po EXCEPT ![t] = slab[po[t]].next]
      BY <1>2, <2>4 DEF NextSlab, SlabPlaces, OnSlab, SlabOrNull
    <3>2. slab[po[t]].next \in SlabOrNull
      BY <1>2, <3>1 DEF SlabRec
    <3> QED
      BY <1>2, <2>1, <3>1, <3>2
  <2> QED
    BY <1>6, <2>2, <2>3, <2>4, OtherSlabs
<1> QED
  BY <1>4, <1>5, <1>6 DEF AnyStep

\* A dump that stands on a slab is in the middle of logging it or about to
\* leave it; a thread outside a cache's slabs stands on none.
LEMMA SlabPlacesStep ==
    ASSUME TypeOK, SlabPlaces, NEW t \in Thread, AnyStep(t)
    PROVE  SlabPlaces'
<1> USE DEF TypeOK, SlabTypeOK, LogTypeOK, OnSlab, AtSlabs, InLog, Goto, Fault, LogUnchanged
<1>0. SUFFICES /\ \A u \in Thread \ {t} : /\ at'[u] = at[u] /\ back'[u] = back[u]
                                          /\ po'[u] = po[u]
               /\ OnSlab(t)' => po'[t] # NULL
               /\ po'[t] # NULL => OnSlab(t)' \/ AtSlabs(t)'
  BY Zenon DEF SlabPlaces
<1>1. (OnSlab(t) => po[t] # NULL) /\ (po[t] # NULL => OnSlab(t) \/ AtSlabs(t))
  BY DEF SlabPlaces
<1>2. CASE LogStep(t) /\ po' = po
  <2>1. back' = back
    BY <1>2, LogPlacesStep
  <2>2. CASE LockDefault(t) \/ create_default_log(t) \/ UnlockDefault(t)
    BY <1>1, <1>2, <2>1, <2>2 DEF LockDefault, create_default_log, UnlockDefault
  <2>3. CASE CompareLevel(t)
    BY <1>1, <1>2, <2>1, <2>3 DEF CompareLevel
  <2>4. CASE LockLog(t) \/ LockLevel(t)
    BY <1>1, <1>2, <2>1, <2>4 DEF LockLog, LockLevel, LockAt
  <2>5. CASE WriteAndUnlock(t)
    BY <1>1, <1>2, <2>1, <2>5 DEF WriteAndUnlock
  <2>6. CASE StoreLevel(t) \/ log_free(t)
    BY <1>1, <1>2, <2>1, <2>6 DEF StoreLevel, log_free
  <2>7. CASE AssignNew(t) \/ OpenFails(t) \/ AssignNull(t)
    BY <1>1, <1>2, <2>1, <2>7 DEF AssignNew, OpenFails, AssignNull
  <2> QED
    BY <1>2, <2>2, <2>3, <2>4, <2>5, <2>6, <2>7 DEF LogStep
<1>3. CASE RegistryStep(t) /\ po' = po /\ ~Visit(t) /\ ~VisitSlab(t) /\ ~NextSlab(t)
           /\ ~VisitReserve(t)
  <2>1. /\ back' = back
        /\ at' = at \/ \E place \in {"push", "idle", "unlink", "visit"} :
                          at' = [at EXCEPT ![t] = place] /\ ~OnSlab(t) /\ ~AtSlabs(t)
    BY <1>3 DEF RegistryStep, LockRegistry, Push, Seek, NotFound, Step, EndOfDump, Unlink
  <2> QED
    BY <1>1, <1>3, <2>1
<1>4. CASE Visit(t)
  BY <1>1, <1>4 DEF Visit, CallLog
<1>5. CASE VisitSlab(t)
  BY <1>1, <1>5 DEF VisitSlab, CallLog, slabVars
<1>6. CASE NextSlab(t)
  BY <1>1, <1>6 DEF NextSlab
<1>7. CASE VisitReserve(t)
  BY <1>1, <1>7 DEF VisitReserve, CallLog, slabVars
<1>8. CASE Begin(t)
  <2>1. po' = po /\ at[t] = "idle"
    BY <1>8 DEF Begin, slabVars, CreateFails, Create, Destroy, DumpAll, SetLevel, Replace
  <2>2. /\ \A u \in Thread \ {t} : at'[u] = at[u] /\ back'[u] = back[u]
        /\ ~OnSlab(t)' /\ ~AtSlabs(t)'
    BY <1>8 DEF Begin, CreateFails, Create, Destroy, DumpAll, CallLog, SetLevel, Replace
  <2> QED
    BY <1>1, <2>1, <2>2
<1>9. CASE Move(t)
  BY <1>1, <1>9 DEF Move, logVars
<1> QED
  BY <1>2, <1>3, <1>4, <1>5, <1>6, <1>7, <1>8, <1>9
     DEF AnyStep, Continue, RegistryStep, slabVars, Unlink

\* What is to be shown when no slab changes.
LEMMA SameSlabs ==
    ASSUME SlabsSound, UNCHANGED <<list, wait_for_free, slab>>,
           \A c \in CacheNo : Gone(c) => Gone(c)'
    PROVE  SlabsSound'
<1>1. \A c : Listed(c)' = Listed(c)
  BY DEF Listed
<1>2. Linking' = Linking
  BY DEF Linking
<1>3. SlabLists'
  BY <1>1, <1>2 DEF SlabsSound, SlabLists
<1>4. NoRing'
  BY <1>2 DEF SlabsSound, NoRing
<1> QED
  BY <1>3, <1>4 DEF SlabsSound

\* The slabs of a cache that is destroyed are on no list of another.
LEMMA UnlinkSound ==
    ASSUME TypeOK, OwnersDistinct, SlabsSound, NEW t \in Thread, Unlink(t),
           \A c \in CacheNo : Gone(c) => Gone(c)'
    PROVE  SlabsSound'
<1>0. PICK c : c = pc[t]
  OBVIOUS
<1>1. Gone(c)'
  BY <1>0, UnlinkCaches DEF Gone, Live
<1>2. /\ UNCHANGED <<list, wait_for_free>>
      /\ \A s \in Slab : /\ slab'[s].next = slab[s].next /\ slab'[s].of = slab[s].of
                         /\ slab[s].of # c => slab'[s].place = slab[s].place
                         /\ slab[s].of = c => slab'[s].place = "freed"
  BY <1>0, UnlinkSlabs
<1>3. \A s \in Slab : s \in Linking' <=> s \in Linking /\ slab[s].of # c
  BY <1>2 DEF Linking
<1>4. \A d : d # c => Listed(d)' = Listed(d)
  BY <1>2 DEF Listed
<1>5. SlabLists'
  <2>1. ASSUME NEW d \in CacheNo, ~Gone(d)'
        PROVE  /\ list'[d] # NULL => list'[d] \in Listed(d)'
               /\ wait_for_free'[d] # NULL =>
                     /\ slab'[wait_for_free'[d]].place = "reserve"
                     /\ slab'[wait_for_free'[d]].of = d
    <3>1. d # c /\ ~Gone(d)
      BY <1>1, <2>1
    <3>2. wait_for_free[d] # NULL => wait_for_free[d] \in Slab
      BY DEF TypeOK, SlabTypeOK, SlabOrNull
    <3> QED
      BY <1>2, <1>4, <3>1, <3>2 DEF SlabsSound, SlabLists
  <2>2. ASSUME NEW s \in Linking', slab'[s].next # NULL
        PROVE  slab'[s].next \in Listed(slab[s].of)'
    <3>1. s \in Slab /\ s \in Linking /\ slab[s].of # c
      BY <1>3, <2>2 DEF Linking
    <3> QED
      BY <1>2, <1>4, <2>2, <3>1 DEF SlabsSound, SlabLists
  <2> QED
    BY <2>1, <2>2 DEF SlabLists
<1>6. NoRing'
  <2>1. ASSUME NEW S \in SUBSET Linking', S # {}
        PROVE  \E s \in S : slab'[s].next \notin S
    <3>1. S \in SUBSET Linking /\ S \in SUBSET Slab
      BY <1>3, <2>1 DEF Linking
    <3>2. PICK s \in S : slab[s].next \notin S
      BY <2>1, <3>1 DEF SlabsSound, NoRing
    <3> QED
      BY <1>2, <3>1, <3>2
  <2> QED
    BY <2>1 DEF NoRing
<1> QED
  BY <1>5, <1>6 DEF SlabsSound

\* mem_cache_alloc puts a slab that is on no list in front.
LEMMA GrowSound ==
    ASSUME TypeOK, SlabsSound, NEW t \in Thread, NEW c \in Live, NEW s \in Slab,
           Grow(t, c, s), UNCHANGED cache
    PROVE  SlabsSound'
<1>1. /\ slab'[s].next = list[c] /\ slab'[s].of = c /\ slab'[s].place = "list"
      /\ \A u \in Slab : u # s => slab'[u] = slab[u]
      /\ list' = [list EXCEPT ![c] = s]
      /\ wait_for_free' = [wait_for_free EXCEPT ![c] = NULL]
  BY GrowSlabs
<1>2. /\ c \in CacheNo /\ ~Gone(c) /\ \A d : Gone(d)' <=> Gone(d)
      /\ list \in [CacheNo -> SlabOrNull] /\ wait_for_free \in [CacheNo -> SlabOrNull]
  BY DEF TypeOK, SlabTypeOK, Live, Gone
<1>3. /\ \A d \in CacheNo : ~Gone(d) =>
            /\ list[d] # NULL => list[d] \in Listed(d)
            /\ wait_for_free[d] # NULL => /\ slab[wait_for_free[d]].place = "reserve"
                                          /\ slab[wait_for_free[d]].of = d
      /\ \A u \in Linking : slab[u].next # NULL => slab[u].next \in Listed(slab[u].of)
  BY DEF SlabsSound, SlabLists
<1>4. s # NULL /\ s \notin Linking
      /\ \A d \in CacheNo : ~Gone(d) /\ d # c => wait_for_free[d] # s
  <2>1. s # NULL
    BY SlabAssumption
  <2>2. CASE wait_for_free[c] = s
    BY <1>2, <1>3, <2>1, <2>2 DEF Linking
  <2>3. CASE slab[s].place = "unused"
    BY <1>3, <2>1, <2>3 DEF Linking
  <2> QED
    BY <2>1, <2>2, <2>3 DEF Grow
<1>5. Linking' = Linking \cup {s}
  BY <1>1, <1>4 DEF Linking
<1>6. \A d : d # c => Listed(d)' = Listed(d)
  BY <1>1, <1>4 DEF Listed, Linking
<1>7. Listed(c)' = Listed(c) \cup {s}
  BY <1>1 DEF Listed
<1>8. \A d : Listed(d) \subseteq Linking /\ Listed(d) \subseteq Slab
  BY DEF Listed, Linking
<1>9. SlabLists'
  <2>1. ASSUME NEW d \in CacheNo, ~Gone(d)'
        PROVE  /\ list'[d] # NULL => list'[d] \in Listed(d)'
               /\ wait_for_free'[d] # NULL =>
                     /\ slab'[wait_for_free'[d]].place = "reserve"
                     /\ slab'[wait_for_free'[d]].of = d
    <3>1. CASE d = c
      BY <1>1, <1>2, <1>7, <3>1
    <3>2. CASE d # c
      <4>1. list'[d] = list[d] /\ wait_for_free'[d] = wait_for_free[d] /\ ~Gone(d)
        BY <1>1, <1>2, <2>1, <3>2
      <4>2. wait_for_free[d] # NULL => wait_for_free[d] \in Slab /\ wait_for_free[d] # s
        BY <1>2, <1>4, <3>2, <4>1 DEF SlabOrNull
      <4> QED
        BY <1>1, <1>3, <1>6, <3>2, <4>1, <4>2
    <3> QED
      BY <3>1, <3>2
  <2>2. ASSUME NEW u \in Linking', slab'[u].next # NULL
        PROVE  slab'[u].next \in Listed(slab[u].of)'
    <3>1. CASE u = s
      BY <1>1, <1>2, <1>3, <1>7, <2>2, <3>1
    <3>2. CASE u # s
      <4>1. u \in Linking /\ slab'[u] = slab[u]
        BY <1>1, <1>5, <3>2 DEF Linking
      <4>2. slab[u].next \in Listed(slab[u].of)
        BY <1>3, <2>2, <4>1
      <4> QED
        BY <1>6, <1>7, <4>1, <4>2
    <3> QED
      BY <3>1, <3>2
  <2> QED
    BY <2>1, <2>2 DEF SlabLists
<1>10. NoRing'
  <2>1. ASSUME NEW S \in SUBSET Linking', S # {}
        PROVE  \E u \in S : slab'[u].next \notin S
    <3> DEFINE T == S \ {s}
    <3>1. T \in SUBSET Linking /\ S \subseteq T \cup {s}
      BY <1>5, <2>1
    <3>2. CASE T = {}
      <4>1. S = {s}
        BY <2>1, <3>1, <3>2
      <4>2. list[c] # s
        BY <1>2, <1>3, <1>4, <1>8
      <4> QED
        BY <1>1, <4>1, <4>2
    <3>3. CASE T # {}
      <4>1. PICK u \in T : slab[u].next \notin T
        BY <3>1, <3>3 DEF SlabsSound, NoRing
      <4>2. u \in S /\ u # s /\ u \in Linking /\ u \in Slab
        BY <3>1, <4>1 DEF Linking
      <4>3. slab[u].next # s
        BY <1>3, <1>4, <1>8, <4>2
      <4> QED
        BY <1>1, <3>1, <4>1, <4>2, <4>3
    <3> QED
      BY <3>2, <3>3
  <2> QED
    BY <2>1 DEF NoRing
<1> QED
  BY <1>9, <1>10 DEF SlabsSound

\* mem_cache_free leads past the slab that it makes the reserve.
LEMMA ShrinkSound ==
    ASSUME TypeOK, SlabsSound, NEW t \in Thread, NEW c \in Live, NEW s \in Slab,
           Shrink(t, c, s), UNCHANGED cache
    PROVE  SlabsSound'
<1>0. slab[s].place = "list" /\ slab[s].of = c
  BY DEF Shrink
<1>1. /\ list' = [list EXCEPT ![c] = IF @ = s THEN slab[s].next ELSE @]
      /\ wait_for_free' = [wait_for_free EXCEPT ![c] = s]
      /\ slab'[s].of = c /\ slab'[s].place = "reserve"
  BY <1>0, ShrinkSlabs
<1>2. /\ \A u \in Slab : slab'[u].of = slab[u].of
      /\ \A u \in Slab : u # s /\ u = wait_for_free[c] => slab'[u].place = "freed"
      /\ \A u \in Slab : u # s /\ u # wait_for_free[c] =>
            /\ slab'[u].place = slab[u].place
            /\ slab[u].next = s => slab'[u].next = slab[s].next
            /\ slab[u].next # s => slab'[u].next = slab[u].next
  BY ShrinkSlabs
<1>3. /\ c \in CacheNo /\ ~Gone(c) /\ \A d : Gone(d)' <=> Gone(d)
      /\ list \in [CacheNo -> SlabOrNull] /\ wait_for_free \in [CacheNo -> SlabOrNull]
  BY DEF TypeOK, SlabTypeOK, Live, Gone
<1>4. /\ \A d \in CacheNo : ~Gone(d) =>
            /\ list[d] # NULL => list[d] \in Listed(d)
            /\ wait_for_free[d] # NULL => /\ slab[wait_for_free[d]].place = "reserve"
                                          /\ slab[wait_for_free[d]].of = d
      /\ \A u \in Linking : slab[u].next # NULL => slab[u].next \in Listed(slab[u].of)
  BY DEF SlabsSound, SlabLists
<1>5. s \in Linking /\ slab[s].next # s
  <2>1. s \in Linking
    BY <1>0 DEF Linking
  <2>2. \E u \in {s} : slab[u].next \notin {s}
    BY <2>1 DEF SlabsSound, NoRing
  <2> QED
    BY <2>1, <2>2
<1>6. wait_for_free[c] \in Slab => wait_for_free[c] # s /\ slab[wait_for_free[c]].place = "reserve"
                                   /\ slab[wait_for_free[c]].of = c
  BY <1>0, <1>3, <1>4, SlabAssumption
<1>7. Linking' = Linking \ {s}
  BY <1>1, <1>2, <1>6 DEF Linking
<1>8. \A d : Listed(d)' = Listed(d) \ {s}
  BY <1>1, <1>2, <1>6 DEF Listed
<1>9. /\ \A d : d # c => s \notin Listed(d)
      /\ \A d : Listed(d) \subseteq Linking /\ Listed(d) \subseteq Slab
  BY <1>0 DEF Listed, Linking
<1>10. \A u \in Linking' :
          /\ u \in Slab /\ u \in Linking /\ u # s /\ slab'[u].of = slab[u].of
          /\ slab[u].next = s => slab'[u].next = slab[s].next /\ slab[u].of = c
          /\ slab[u].next # s => slab'[u].next = slab[u].next
  <2>1. ASSUME NEW u \in Linking'
        PROVE  /\ u \in Slab /\ u \in Linking /\ u # s /\ u # wait_for_free[c]
               /\ slab[u].next = s => slab[u].of = c
    <3>1. u \in Slab /\ u \in Linking /\ u # s /\ slab[u].place = "list"
      BY <1>7 DEF Linking
    <3>2. u # wait_for_free[c]
      BY <1>6, <3>1
    <3>3. slab[u].next = s => s \in Listed(slab[u].of)
      BY <1>4, <3>1, SlabAssumption
    <3> QED
      BY <1>9, <3>1, <3>2, <3>3
  <2> QED
    BY <1>2, <2>1
<1>11. slab[s].next # NULL => slab[s].next \in Listed(c)'
  BY <1>0, <1>4, <1>5, <1>8
<1>12. SlabLists'
  <2>1. ASSUME NEW d \in CacheNo, ~Gone(d)'
        PROVE  /\ list'[d] # NULL => list'[d] \in Listed(d)'
               /\ wait_for_free'[d] # NULL =>
                     /\ slab'[wait_for_free'[d]].place = "reserve"
                     /\ slab'[wait_for_free'[d]].of = d
    <3>1. CASE d = c
      BY <1>1, <1>3, <1>4, <1>8, <1>11, <3>1
    <3>2. CASE d # c
      <4>1. list'[d] = list[d] /\ wait_for_free'[d] = wait_for_free[d] /\ ~Gone(d)
        BY <1>1, <1>3, <2>1, <3>2
      <4>2. list[d] # NULL => list[d] \in Listed(d)'
        BY <1>4, <1>8, <1>9, <3>2, <4>1
      <4>3. ASSUME wait_for_free[d] # NULL
            PROVE  /\ slab'[wait_for_free[d]].place = "reserve"
                   /\ slab'[wait_for_free[d]].of = d
        <5>1. /\ wait_for_free[d] \in Slab
              /\ slab[wait_for_free[d]].place = "reserve" /\ slab[wait_for_free[d]].of = d
          BY <1>3, <1>4, <4>1, <4>3 DEF SlabOrNull
        <5>2. wait_for_free[d] # s /\ wait_for_free[d] # wait_for_free[c]
          BY <1>0, <1>6, <3>2, <5>1
        <5> QED
          BY <1>2, <5>1, <5>2
      <4> QED
        BY <4>1, <4>2, <4>3
    <3> QED
      BY <3>1, <3>2
  <2>2. ASSUME NEW u \in Linking', slab'[u].next # NULL
        PROVE  slab'[u].next \in Listed(slab[u].of)'
    <3>1. CASE slab[u].next = s
      BY <1>10, <1>11, <2>2, <3>1
    <3>2. CASE slab[u].next # s
      <4>1. slab[u].next \in Listed(slab[u].of)
        BY <1>4, <1>10, <2>2, <3>2
      <4> QED
        BY <1>8, <1>10, <3>2, <4>1
    <3> QED
      BY <3>1, <3>2
  <2> QED
    BY <2>1, <2>2 DEF SlabLists
<1>13. NoRing'
  <2>1. ASSUME NEW S \in SUBSET Linking', S # {}, \A u \in S : slab'[u].next \in S
        PROVE  FALSE
    <3>1. CASE \E u \in S : slab[u].next = s
      <4>1. PICK u \in S : slab[u].next = s
        BY <3>1
      <4>2. slab[s].next \in S
        BY <1>10, <2>1, <4>1
      <4>3. S \cup {s} \in SUBSET Linking
        BY <1>5, <1>7
      <4>4. PICK v \in S \cup {s} : slab[v].next \notin S \cup {s}
        BY <4>3 DEF SlabsSound, NoRing
      <4>5. v \in S /\ slab[v].next # s
        BY <4>2, <4>4
      <4> QED
        BY <1>10, <2>1, <4>4, <4>5
    <3>2. CASE \A u \in S : slab[u].next # s
      <4>1. S \in SUBSET Linking
        BY <1>7
      <4>2. PICK v \in S : slab[v].next \notin S
        BY <2>1, <4>1 DEF SlabsSound, NoRing
      <4> QED
        BY <1>10, <2>1, <3>2, <4>2
    <3> QED
      BY <3>1, <3>2
  <2> QED
    BY <2>1 DEF NoRing
<1> QED
  BY <1>12, <1>13 DEF SlabsSound

LEMMA SlabsSoundStep ==
    ASSUME TypeOK, PlacesOK, OwnersDistinct, SlabsSound, NEW t \in Thread, AnyStep(t)
    PROVE  SlabsSound'
<1>1. \A c \in CacheNo : Gone(c) => Gone(c)'
  BY CachesStay
<1>2. CASE Unlink(t)
  BY <1>1, <1>2, UnlinkSound
<1>3. CASE Move(t)
  <2>1. UNCHANGED cache
    BY <1>3 DEF Move, registryVars
  <2>2. PICK c \in Live, s \in Slab : Grow(t, c, s) \/ Shrink(t, c, s)
    BY <1>3 DEF Move
  <2> QED
    BY <2>1, <2>2, GrowSound, ShrinkSound
<1>4. CASE (Continue(t) \/ Begin(t)) /\ ~Unlink(t)
  BY <1>1, <1>4, OtherSlabs, SameSlabs
<1> QED
  BY <1>2, <1>3, <1>4 DEF AnyStep

\* A dump goes from a slab of a list to the next one; only mem_cache_free by
\* another thread takes the slab away under it.
LEMMA DumpsStep ==
    ASSUME TypeOK, PlacesOK, SlabPlaces, RegistryLocked, SlabsSound, DumpsSafe,
           HeadsCurrent, NEW t \in Thread, AnyStep(t), History(t)
    PROVE  DumpsSafe'
<1>0. SUFFICES ASSUME ~stale', ~shrunk', NEW u \in Thread, po'[u] # NULL
               PROVE  slab'[po'[u]].place = "list"
  BY DEF DumpsSafe, DumpsOnLists
<1>1. ~stale /\ ~shrunk /\ DumpsOnLists /\ WalksCurrent
  BY <1>0 DEF History, DumpsSafe, HeadsCurrent
<1>2. CASE Move(t)
  <2>1. po' = po /\ moves' # moves
    BY <1>2 DEF Move, TypeOK, SlabTypeOK
  <2>2. slab[po[u]].place = "list"
    BY <1>0, <1>1, <2>1 DEF DumpsOnLists
  <2> QED
    BY <1>0, <2>1, <2>2 DEF History
<1>3. CASE Unlink(t)
  <2>1. po' = po
    BY <1>3, UnlinkSlabs
  <2>2. InRegistry(t) /\ ~OnSlab(t) /\ ~AtSlabs(t)
    BY <1>3 DEF Unlink, InRegistry, OnSlab, AtSlabs, InLog
  <2>3. u # t => ~InRegistry(u)
    BY <2>2 DEF RegistryLocked
  <2>4. ~OnSlab(u) /\ ~AtSlabs(u)
    BY <2>2, <2>3 DEF InRegistry, OnSlab, AtSlabs
  <2> QED
    BY <1>0, <2>1, <2>4 DEF SlabPlaces
<1>4. CASE (Continue(t) \/ Begin(t)) /\ ~Unlink(t)
  <2>1. UNCHANGED slab /\ (po' = po \/ Visit(t) \/ NextSlab(t))
    BY <1>4, OtherSlabs
  <2>2. CASE po'[u] = po[u]
    BY <1>0, <1>1, <2>1, <2>2 DEF DumpsOnLists
  <2>3. CASE Visit(t) /\ po'[u] # po[u]
    <3>1. u = t /\ po'[u] = list[pc[t]] /\ pc[t] # NULL /\ at[t] = "visit"
      BY <2>3 DEF Visit, TypeOK, SlabTypeOK
    <3>2. pc[t] \in Live
      BY <1>1, <3>1 DEF WalksCurrent, WalkCurrent, InRegistry, LinkedOrNull, Linked
    <3>3. pc[t] \in CacheNo /\ ~Gone(pc[t])
      BY <3>2 DEF Live, Gone, TypeOK, SlabTypeOK
    <3> QED
      BY <1>0, <2>1, <3>1, <3>3 DEF SlabsSound, SlabLists, Listed
  <2>4. CASE NextSlab(t) /\ po'[u] # po[u]
    <3>1. u = t /\ po'[u] = slab[po[t]].next /\ at[t] = "next_slab"
      BY <2>4 DEF NextSlab, TypeOK, SlabTypeOK
    <3>2. po[t] # NULL /\ po[t] \in Slab
      BY <3>1 DEF SlabPlaces, OnSlab, TypeOK, SlabTypeOK, SlabOrNull
    <3>3. po[t] \in Linking
      BY <1>1, <3>2 DEF DumpsOnLists, Linking
    <3> QED
      BY <1>0, <2>1, <3>1, <3>3 DEF SlabsSound, SlabLists, Listed
  <2> QED
    BY <2>1, <2>2, <2>3, <2>4
<1> QED
  BY <1>2, <1>3, <1>4 DEF AnyStep

(***************************************************************************)
(* Faults, and the theorems.                                               *)
(***************************************************************************)

\* A log is only found freed or missing when the default log was replaced.
LEMMA LogFault ==
    ASSUME LogsOK, ~fault, NEW t \in Thread, LogStep(t)
    PROVE  ~fault'
BY DEF LogStep, LockDefault, create_default_log, UnlockDefault, CompareLevel, LockLog,
       LockLevel, LockAt, WriteAndUnlock, StoreLevel, log_free, AssignNew, OpenFails,
       AssignNull, LogsOK, LogsInUse, DefaultInUse, UsesFreed

\* A cache is only found freed on a walk that began at an old head, and a slab
\* on a dump from under which it was unlinked.
LEMMA RegistryFault ==
    ASSUME TypeOK, PlacesOK, SlabPlaces, WalksCurrent, DumpsOnLists, ~fault,
           NEW t \in Thread, RegistryStep(t)
    PROVE  ~fault'
<1>1. pc[t] \in LinkedOrNull \/ ~(at[t] \in {"unlink", "visit", "slabs", "next"})
  BY DEF WalksCurrent, WalkCurrent, InRegistry
<1>2. pc[t] # NULL /\ pc[t] \in LinkedOrNull => ~cache[pc[t]].freed
  BY DEF LinkedOrNull, Linked, Live
<1>3. at[t] \in {"slabs", "next"} => pc[t] # NULL
  BY DEF PlacesOK
<1>4. CASE Seek(t)
  BY <1>1, <1>2, <1>4 DEF Seek, LogUnchanged
<1>5. CASE Visit(t) \/ VisitReserve(t)
  BY <1>1, <1>2, <1>3, <1>5 DEF Visit, VisitReserve, CallLog
<1>6. CASE VisitSlab(t) \/ NextSlab(t)
  <2>1. po[t] # NULL
    BY <1>6 DEF VisitSlab, NextSlab, SlabPlaces, OnSlab
  <2>2. slab[po[t]].place = "list"
    BY <2>1 DEF DumpsOnLists
  <2> QED
    BY <1>6, <2>2 DEF VisitSlab, NextSlab, CallLog, LogUnchanged
<1>7. CASE Step(t)
  BY <1>1, <1>2, <1>3, <1>7 DEF Step, LogUnchanged
<1>8. CASE Unlink(t)
  BY <1>8 DEF Unlink, LogUnchanged
<1>9. CASE \E from, to \in Label : LockRegistry(t, from, to)
  BY <1>9 DEF LockRegistry, LogUnchanged
<1>10. CASE Push(t) \/ NotFound(t) \/ EndOfDump(t)
  BY <1>10 DEF Push, NotFound, EndOfDump, LogUnchanged
<1>11. {"lock_create", "push", "lock_destroy", "unlink", "lock_dump", "visit"} \subseteq Label
  BY DEF Label
<1> QED
  BY <1>4, <1>5, <1>6, <1>7, <1>8, <1>9, <1>10, <1>11 DEF RegistryStep

LEMMA FaultStep ==
    ASSUME TypeOK, PlacesOK, SlabPlaces, LogsSafe, HeadsCurrent, DumpsSafe, ~fault,
           NEW t \in Thread, AnyStep(t), History(t)
    PROVE  FaultNeedsRace'
<1>0. SUFFICES ASSUME ~stale', ~replaced', ~shrunk' PROVE ~fault'
  BY DEF FaultNeedsRace
<1>1. ~stale /\ ~replaced /\ ~shrunk
  BY <1>0 DEF History
<1>2. LogsOK /\ WalksCurrent /\ DumpsOnLists
  BY <1>1 DEF LogsSafe, LogsOK, HeadsCurrent, DumpsSafe
<1>3. CASE Begin(t)
  BY <1>3 DEF Begin, CreateFails, Create, Destroy, DumpAll, CallLog, SetLevel, Replace,
              LogUnchanged
<1>4. CASE Move(t)
  BY <1>4 DEF Move, logVars
<1>5. CASE Continue(t)
  BY <1>2, <1>5, LogFault, RegistryFault DEF Continue
<1> QED
  BY <1>3, <1>4, <1>5 DEF AnyStep

\* What is to be shown of the rest when the logger and the registry stay as
\* they are, as when slabs move between two calls.
LEMMA SameRegistry ==
    ASSUME IInv, UNCHANGED <<logVars, registryVars>>,
           stale' = stale, lost' = lost, replaced => replaced', replaced' \in BOOLEAN,
           SlabTypeOK'
    PROVE  /\ TypeOK' /\ PlacesOK' /\ OneWriter' /\ RegistryLocked'
           /\ LogsSafe' /\ OwnersDistinct' /\ RegistrySafe' /\ AllReached' /\ HeadsCurrent'
<1> USE DEF IInv, Mutexes, logVars, registryVars
<1>1. TypeOK'
  BY DEF TypeOK, LogTypeOK, CacheOrNull
<1>2. PlacesOK' /\ OneWriter' /\ RegistryLocked'
  BY DEF PlacesOK, HasLog, OneWriter, Writing, RegistryLocked, InRegistry
<1>3. LogsSafe'
  BY DEF LogsSafe, OthersIdle, LogsInUse, DefaultInUse, OnlyDefault, Replacing
<1>4. OwnersDistinct'
  BY DEF OwnersDistinct, Owning, Pushing, Live
<1>5. RegistrySafe'
  BY DEF RegistrySafe, ListSound, WalksSound, WalkSound, Met, Linked, LinkedOrNull, Live,
         Pushing, InRegistry
<1>6. AllReached'
  BY DEF AllReached, Reached, HoldsList, Linked, Live, Pushing
<1>7. HeadsCurrent'
  BY DEF HeadsCurrent, WalksCurrent, WalkCurrent, Linked, LinkedOrNull, Live, Pushing,
         InRegistry
<1> QED
  BY <1>1, <1>2, <1>3, <1>4, <1>5, <1>6, <1>7

LEMMA Initially == Init => IInv
<1> SUFFICES ASSUME Init PROVE IInv
  OBVIOUS
<1> USE NullAssumption DEF Init, LogInit
<1>0. logs = <<>> /\ cache = <<>> /\ DOMAIN logs = {} /\ DOMAIN cache = {}
  OBVIOUS
<1>1. TypeOK
  <2>1. LogTypeOK
    BY <1>0, TraceIsLevel, EmptySeq DEF LogTypeOK
  <2>2. cache \in Seq([next : CacheOrNull, freed : BOOLEAN])
    BY <1>0, EmptySeq
  <2>3. stale \in BOOLEAN /\ lost \in BOOLEAN /\ replaced \in BOOLEAN
    OBVIOUS
  <2>4. SlabTypeOK
    <3>1. NULL \in SlabOrNull /\ 0 \in 0 .. MaxMoves
      BY BoundAssumption DEF SlabOrNull
    <3>2. /\ list \in [CacheNo -> SlabOrNull] /\ wait_for_free \in [CacheNo -> SlabOrNull]
          /\ po \in [Thread -> SlabOrNull]
      BY <3>1 DEF CacheNo
    <3>3. slab \in [Slab -> [next : SlabOrNull, of : CacheNo \cup {NULL},
                            place : {"unused", "list", "reserve", "freed"}]]
      BY <3>1
    <3> QED
      BY <1>0, <3>1, <3>2, <3>3 DEF SlabTypeOK
  <2>5. at \in [Thread -> Label] /\ calls \in [Thread -> 0 .. MaxCalls]
    BY BoundAssumption DEF Label
  <2> QED
    BY <2>1, <2>2, <2>3, <2>4, <2>5 DEF TypeOK, CacheOrNull
<1>2. PlacesOK /\ SlabPlaces /\ OneWriter /\ RegistryLocked
  BY DEF PlacesOK, HasLog, SlabPlaces, OnSlab, AtSlabs, OneWriter, Writing, RegistryLocked,
         InRegistry, InLog
<1>3. LogsSafe
  BY <1>0 DEF LogsSafe, OthersIdle, LogsInUse, DefaultInUse, OnlyDefault, Replacing
<1>4. OwnersDistinct
  BY DEF OwnersDistinct, Owning, Pushing
<1>5. RegistrySafe
  BY <1>0 DEF RegistrySafe, ListSound, WalksSound, WalkSound, Linked, LinkedOrNull, Live,
              InRegistry, InLog
<1>10. HeadsCurrent
  BY DEF HeadsCurrent, WalksCurrent, WalkCurrent, InRegistry, InLog
<1>6. FaultNeedsRace
  BY DEF FaultNeedsRace
<1>7. AllReached
  BY <1>0 DEF AllReached, Reached, Linked, Live
<1>8. SlabsSound
  <2>1. Linking = {}
    BY DEF Linking
  <2>2. \A c \in CacheNo : list[c] = NULL /\ wait_for_free[c] = NULL
    BY DEF CacheNo
  <2> QED
    BY <2>1, <2>2 DEF SlabsSound, SlabLists, NoRing
<1>9. DumpsSafe
  BY DEF DumpsSafe, DumpsOnLists
<1> QED
  BY <1>1, <1>2, <1>3, <1>4, <1>5, <1>6, <1>7, <1>8, <1>9, <1>10 DEF IInv, Mutexes

LEMMA Inductive == IInv /\ [Next]_vars => IInv'
<1> SUFFICES ASSUME IInv, [Next]_vars PROVE IInv'
  OBVIOUS
<1> USE DEF IInv, Mutexes
<1>1. CASE Next
  <2>1. PICK t \in Thread : AnyStep(t) /\ History(t)
    BY <1>1 DEF Next, AnyStep
  <2>2. ~fault
    BY <1>1 DEF Next
  <2>3. SlabTypeOK' /\ SlabPlaces' /\ SlabsSound' /\ DumpsSafe' /\ FaultNeedsRace'
    BY <2>1, <2>2, SlabTypesStep, SlabPlacesStep, SlabsSoundStep, DumpsStep, FaultStep
  <2>4. CASE Continue(t) \/ Begin(t)
    <3>1. ThreadStep(t)
      BY <2>1, <2>2, <2>4, RegistryCases DEF Continue, ThreadStep
    <3> QED
      BY <2>3, <3>1, TypesStep, PlacesStep, OneWriterStep, RegistryLockedStep, LogsStep,
         OwnersStep, ListStep, ReachedStep, CurrentStep
  <2>5. CASE Move(t)
    <3>1. UNCHANGED <<logVars, registryVars>>
      BY <2>5 DEF Move
    <3>2. ~(StaleHead(t) /\ memcache_lock' = t)
      BY <2>5 DEF Move, Grow, Shrink, Uses, StaleHead
    <3>3. /\ stale' = stale /\ lost' = lost
          /\ (replaced => replaced') /\ replaced' \in BOOLEAN
      BY <2>1, <2>5, <3>2 DEF History, TypeOK, CutsBehindHead, Move, Grow, Shrink, Uses
    <3> QED
      BY <2>3, <3>1, <3>3, SameRegistry
  <2> QED
    BY <2>1, <2>4, <2>5 DEF AnyStep
<1>2. CASE UNCHANGED vars
  <2>1. UNCHANGED <<logVars, registryVars, slabVars, stale, lost, replaced, shrunk>>
    BY <1>2 DEF vars
  <2>2. SlabTypeOK' /\ SlabPlaces'
    BY <2>1 DEF slabVars, logVars, registryVars, TypeOK, SlabTypeOK, SlabPlaces, OnSlab,
                AtSlabs
  <2>3. SlabsSound'
    BY <2>1, SameSlabs DEF slabVars, registryVars, Gone
  <2>4. DumpsSafe' /\ FaultNeedsRace'
    BY <2>1 DEF slabVars, logVars, DumpsSafe, DumpsOnLists, FaultNeedsRace
  <2>5. replaced' \in BOOLEAN
    BY <2>1 DEF TypeOK
  <2> QED
    BY <2>1, <2>2, <2>3, <2>4, <2>5, SameRegistry
<1> QED
  BY <1>1, <1>2

\* The inductive invariant holds of every behaviour.
THEOREM Invariant == Spec => []IInv
BY Initially, Inductive, PTL DEF Spec

\* The types of the logger and of the registry of mem_cache_create and friends.
THEOREM Typed == Spec => []TypeOK
<1>1. IInv => TypeOK
  BY DEF IInv, Mutexes
<1> QED
  BY <1>1, Invariant, PTL

\* log.cpp's mutexes: one thread at a time writes to a log, creates the default
\* log or reports that a file cannot be opened, however many threads there are.
THEOREM WritersExclusive == Spec => []OneWriter
<1>1. IInv => OneWriter
  BY DEF IInv, Mutexes
<1> QED
  BY <1>1, Invariant, PTL

\* memcache.cpp: a thread holds l_memcache_lock exactly while it changes or
\* walks the list of caches, also while it logs what it sees.
THEOREM RegistryExclusive == Spec => []RegistryLocked
<1>1. IInv => RegistryLocked
  BY DEF IInv, Mutexes
<1> QED
  BY <1>1, Invariant, PTL

\* log_str: the second look under l_default_log_mutex is enough.
THEOREM DefaultLogUnique == Spec => []OneDefaultLog
<1>1. IInv => OneDefaultLog
  BY DEF IInv, LogsSafe, OnlyDefault, OneDefaultLog
<1> QED
  BY <1>1, Invariant, PTL

\* The head that mem_cache_destroy and mem_cache_dump_all read without the lock,
\* the replacement of the default log in use, and the slabs that mem_cache_free
\* unlinks under a dump are the only ways to freed memory.
THEOREM FaultsAreRaces == Spec => []FaultNeedsRace
<1>1. IInv => FaultNeedsRace
  BY DEF IInv
<1> QED
  BY <1>1, Invariant, PTL

\* mem_cache_create pushes and mem_cache_destroy unlinks right, also from walks that
\* began at an old head: what the head leads to are the caches that exist, but for
\* those about to be pushed, in the middle of any calls, until a cache that was the
\* head when it was read is unlinked as the head that it is not any more.
THEOREM RegistryKept == Spec => []RegistryExact
<1>1. IInv => RegistryExact
  <2> SUFFICES ASSUME IInv, ~lost
               PROVE  Chain = Live \ {p[t] : t \in {u \in Thread : Pushing(u)}}
    BY DEF RegistryExact
  <2>1. Chain = Linked
    BY ChainIsLinked DEF IInv, Mutexes, RegistrySafe, AllReached
  <2> QED
    BY <2>1 DEF Linked
<1> QED
  BY <1>1, Invariant, PTL
=============================================================================
