---------------------------- MODULE CacheRegistry ----------------------------
(***************************************************************************)
(* The list of all caches in src/src/memcache.cpp: mem_cache_create pushes *)
(* on it, mem_cache_destroy unlinks from it and mem_cache_dump_all walks   *)
(* it and logs, all under l_memcache_lock, but the latter two read head    *)
(* before they take the lock.  The dump also walks the slabs of each cache, *)
(* and the thread that uses the cache links and unlinks them without a     *)
(* lock; which objects of a slab are in use is the business of MemCache.   *)
(***************************************************************************)
EXTENDS Log

CONSTANTS
    MaxCalls,   \* bound: calls of each thread
    MaxCaches,  \* bound: caches created
    Slab,       \* the blocks that mem_alloc can give for slabs
    MaxMoves    \* bound: slabs linked or unlinked by allocations and frees

ASSUME BoundAssumption == MaxCalls \in Nat /\ MaxCaches \in Nat /\ MaxMoves \in Nat
ASSUME SlabAssumption == NULL \notin Slab

VARIABLES
    head,
    cache,      \* the caches in order of creation: [next, freed]
    memcache_lock,  \* l_memcache_lock, the thread that holds it or NULL
    p, pr, pc,  \* locals: the cache of the call, and the walk along the list
    calls,      \* how many calls each thread has made
    list, wait_for_free,    \* of each cache: its slabs, and the one in reserve
    slab,       \* [next, of, place]: of is the cache
    po,         \* local of a dump: the slab it stands on
    moves,      \* how many slabs were linked or unlinked
    stale,      \* a walk began at a head that was not the head any more
    lost,       \* a cache was unlinked as the head, in front of which others were
    replaced,   \* the default log was replaced while another thread was busy
    shrunk      \* a slab was unlinked while a dump stood on it

registryVars == <<head, cache, memcache_lock, p, pr, pc, calls>>
slabVars == <<list, wait_for_free, slab, po, moves>>
vars == <<logVars, registryVars, slabVars, stale, lost, replaced, shrunk>>

CacheOrNull == DOMAIN cache \cup {NULL}
NewCache == Len(cache) + 1
\* A thread that creates or destroys its cache p.
Pushing(t) == at[t] \in {"lock_create", "push"}
Owning(t) == Pushing(t) \/ at[t] \in {"lock_destroy", "unlink"}
Live == {c \in DOMAIN cache : ~cache[c].freed}

Init ==
    /\ LogInit
    /\ head = NULL
    /\ cache = <<>>
    /\ memcache_lock = NULL
    /\ p = [t \in Thread |-> NULL] /\ pr = [t \in Thread |-> NULL]
    /\ pc = [t \in Thread |-> NULL]
    /\ calls = [t \in Thread |-> 0]
    /\ list = [c \in 1 .. MaxCaches |-> NULL]
    /\ wait_for_free = [c \in 1 .. MaxCaches |-> NULL]
    /\ slab = [s \in Slab |-> [next |-> NULL, of |-> NULL, place |-> "unused"]]
    /\ po = [t \in Thread |-> NULL]
    /\ moves = 0
    /\ stale = FALSE /\ lost = FALSE /\ replaced = FALSE /\ shrunk = FALSE

\* Logging leaves the registry alone, and the registry the logger but for the
\* thread's place.
LogUnchanged == UNCHANGED <<g_default_log, logs, default_mutex, local_mutex,
                            back, _log, level, fault>>

-----------------------------------------------------------------------------
\* mem_cache_create: the new cache is this thread's until it is on the list.
CreateFails(t) ==
    /\ at[t] = "idle"
    /\ CallLog(t, 1, "idle")
    /\ UNCHANGED <<head, cache, memcache_lock, p, pr, pc>>
Create(t) ==
    /\ at[t] = "idle"
    /\ NewCache <= MaxCaches
    /\ cache' = Append(cache, [next |-> NULL, freed |-> FALSE])
    /\ p' = [p EXCEPT ![t] = NewCache]
    /\ Goto(t, "lock_create")
    /\ UNCHANGED <<head, memcache_lock, pr, pc>> /\ LogUnchanged

LockRegistryNoWait(t, label, next) ==   \* mutant: takes a lock that is held
    /\ at[t] = label
    /\ memcache_lock' = t
    /\ Goto(t, next)
    /\ UNCHANGED <<head, cache, p, pr, pc, calls>> /\ LogUnchanged
\* Takes l_memcache_lock on the way to label next.
LockRegistry(t, label, next) ==
    /\ at[t] = label
    /\ memcache_lock = NULL
    /\ memcache_lock' = t
    /\ Goto(t, next)
    /\ UNCHANGED <<head, cache, p, pr, pc, calls>> /\ LogUnchanged

PushOver(t) ==                \* mutant: the new head forgets the old one
    /\ at[t] = "push"
    /\ head' = p[t]
    /\ memcache_lock' = NULL
    /\ Goto(t, "idle")
    /\ UNCHANGED <<cache, p, pr, pc, calls>> /\ LogUnchanged
Push(t) ==
    /\ at[t] = "push"
    /\ cache' = [cache EXCEPT ![p[t]].next = head]
    /\ head' = p[t]
    /\ memcache_lock' = NULL
    /\ Goto(t, "idle")
    /\ UNCHANGED <<p, pr, pc, calls>> /\ LogUnchanged

-----------------------------------------------------------------------------
\* mem_cache_destroy of a cache that no other call is about.
Destroy(t, c) ==
    /\ at[t] = "idle"
    /\ c \in Live /\ \A u \in Thread : p[u] = c => ~Owning(u)
    /\ p' = [p EXCEPT ![t] = c]
    /\ pr' = [pr EXCEPT ![t] = NULL]
    /\ pc' = [pc EXCEPT ![t] = head]
    /\ Goto(t, "lock_destroy")
    /\ UNCHANGED <<head, cache, memcache_lock>> /\ LogUnchanged

\* One step of the search for p[t].
Seek(t) ==
    /\ at[t] = "unlink"
    /\ pc[t] \notin {NULL, p[t]}
    /\ IF cache[pc[t]].freed THEN Fault /\ UNCHANGED registryVars
       ELSE /\ pr' = [pr EXCEPT ![t] = pc[t]]
            /\ pc' = [pc EXCEPT ![t] = cache[pc[t]].next]
            /\ UNCHANGED <<at, head, cache, memcache_lock, p, calls>> /\ LogUnchanged

\* It is found, unlinked and freed, with its slabs.
Unlink(t) ==
    LET next == cache[pc[t]].next IN
    /\ at[t] = "unlink"
    /\ pc[t] = p[t]
    /\ head' = IF pr[t] = NULL THEN next ELSE head
    /\ cache' = [c \in DOMAIN cache |->
                   IF c = pc[t] THEN [cache[c] EXCEPT !.freed = TRUE]
                   ELSE IF c = pr[t] THEN [cache[c] EXCEPT !.next = next]
                   ELSE cache[c]]
    /\ slab' = [s \in Slab |-> IF slab[s].of = pc[t]
                              THEN [slab[s] EXCEPT !.place = "freed"] ELSE slab[s]]
    /\ memcache_lock' = NULL
    /\ Goto(t, "idle")
    /\ UNCHANGED <<p, pr, pc, calls, list, wait_for_free, po, moves>> /\ LogUnchanged

\* A cache that is not met is left as it is.
NotFound(t) ==
    /\ at[t] = "unlink"
    /\ pc[t] = NULL
    /\ memcache_lock' = NULL
    /\ Goto(t, "idle")
    /\ UNCHANGED <<head, cache, p, pr, pc, calls>> /\ LogUnchanged

-----------------------------------------------------------------------------
\* mem_cache_dump_all: it logs what it sees of every cache, with the lock held.
DumpAll(t) ==
    /\ at[t] = "idle"
    /\ pc' = [pc EXCEPT ![t] = head]
    /\ Goto(t, "lock_dump")
    /\ UNCHANGED <<head, cache, memcache_lock, p, pr>> /\ LogUnchanged
Visit(t) ==
    /\ at[t] = "visit"
    /\ pc[t] # NULL
    /\ IF cache[pc[t]].freed THEN Fault /\ UNCHANGED po
       ELSE po' = [po EXCEPT ![t] = list[pc[t]]] /\ CallLog(t, 2, "slabs")
    /\ UNCHANGED <<registryVars, list, wait_for_free, slab, moves>>
VisitSlab(t) ==
    /\ at[t] = "slabs"
    /\ po[t] # NULL
    /\ IF slab[po[t]].place = "freed" THEN Fault ELSE CallLog(t, 2, "next_slab")
    /\ UNCHANGED <<registryVars, slabVars>>
NextSlab(t) ==
    /\ at[t] = "next_slab"
    /\ IF slab[po[t]].place = "freed" THEN Fault /\ UNCHANGED po
       ELSE /\ po' = [po EXCEPT ![t] = slab[po[t]].next]
            /\ Goto(t, "slabs") /\ LogUnchanged
    /\ UNCHANGED <<registryVars, list, wait_for_free, slab, moves>>
VisitReserve(t) ==
    /\ at[t] = "slabs"
    /\ po[t] = NULL
    /\ IF cache[pc[t]].freed THEN Fault ELSE CallLog(t, 2, "next")
    /\ UNCHANGED <<registryVars, slabVars>>
Step(t) ==
    /\ at[t] = "next"
    /\ IF cache[pc[t]].freed THEN Fault /\ UNCHANGED registryVars
       ELSE /\ pc' = [pc EXCEPT ![t] = cache[pc[t]].next]
            /\ Goto(t, "visit")
            /\ UNCHANGED <<head, cache, memcache_lock, p, pr, calls>> /\ LogUnchanged
EndOfDump(t) ==
    /\ at[t] = "visit"
    /\ pc[t] = NULL
    /\ memcache_lock' = NULL
    /\ Goto(t, "idle")
    /\ UNCHANGED <<head, cache, p, pr, pc, calls>> /\ LogUnchanged

-----------------------------------------------------------------------------
\* mem_cache_alloc finds every slab of the cache full: the reserve is linked,
\* or a slab is allocated.  The thread has no other use for the cache then.
Uses(t, c) ==
    at[t] = "idle" /\ c \in Live /\ \A u \in Thread : p[u] = c => ~Owning(u)
Grow(t, c, s) ==
    /\ Uses(t, c)
    /\ \/ wait_for_free[c] = s
       \/ /\ wait_for_free[c] = NULL
          /\ slab[s].place = "unused"
          /\ s = CHOOSE u \in Slab : slab[u].place = "unused"
    /\ slab' = [slab EXCEPT ![s] = [next |-> list[c], of |-> c, place |-> "list"]]
    /\ list' = [list EXCEPT ![c] = s]
    /\ wait_for_free' = [wait_for_free EXCEPT ![c] = NULL]

\* mem_cache_free empties a slab: what led to it now leads past it, it becomes
\* the reserve, and the slab that was the reserve is freed.
ShrinkBehindHead(t, c, s) ==  \* mutant: the head of the list is not moved
    /\ Uses(t, c)
    /\ slab[s].place = "list" /\ slab[s].of = c
    /\ LET Past(x) == IF x = s THEN slab[s].next ELSE x IN
       slab' = [u \in Slab |->
                 IF u = s THEN [slab[u] EXCEPT !.place = "reserve"]
                 ELSE IF u = wait_for_free[c] THEN [slab[u] EXCEPT !.place = "freed"]
                 ELSE [slab[u] EXCEPT !.next = Past(@)]]
    /\ wait_for_free' = [wait_for_free EXCEPT ![c] = s]
    /\ UNCHANGED list
Shrink(t, c, s) ==
    /\ Uses(t, c)
    /\ slab[s].place = "list" /\ slab[s].of = c
    /\ LET Past(x) == IF x = s THEN slab[s].next ELSE x IN
       /\ list' = [list EXCEPT ![c] = Past(@)]
       /\ slab' = [u \in Slab |->
                     IF u = s THEN [slab[u] EXCEPT !.place = "reserve"]
                     ELSE IF u = wait_for_free[c] THEN [slab[u] EXCEPT !.place = "freed"]
                     ELSE [slab[u] EXCEPT !.next = Past(@)]]
    /\ wait_for_free' = [wait_for_free EXCEPT ![c] = s]

-----------------------------------------------------------------------------
RegistryStep(t) ==
    \/ /\ \/ LockRegistry(t, "lock_create", "push") \/ Push(t)
          \/ LockRegistry(t, "lock_destroy", "unlink") \/ Seek(t) \/ NotFound(t)
          \/ LockRegistry(t, "lock_dump", "visit") \/ Step(t) \/ EndOfDump(t)
       /\ UNCHANGED slabVars
    \/ Unlink(t)
    \/ Visit(t) \/ VisitSlab(t) \/ NextSlab(t) \/ VisitReserve(t)

\* A thread inside a call goes on; one between two calls makes the next.
Continue(t) ==
    \/ LogStep(t) /\ UNCHANGED <<registryVars, slabVars>>
    \/ RegistryStep(t)
Begin(t) ==
    /\ calls[t] < MaxCalls
    /\ calls' = [calls EXCEPT ![t] = @ + 1]
    /\ \/ CreateFails(t)
       \/ Create(t)
       \/ \E c \in Live : Destroy(t, c)
       \/ DumpAll(t)
       \/ \E lev \in Level :
             /\ \/ at[t] = "idle" /\ CallLog(t, lev, "idle")
                \/ SetLevel(t, lev)
                \/ Replace(t, lev)
             /\ UNCHANGED <<head, cache, memcache_lock, p, pr, pc>>
    /\ UNCHANGED slabVars
Move(t) ==
    /\ moves < MaxMoves
    /\ moves' = moves + 1
    /\ \E c \in Live, s \in Slab : Grow(t, c, s) \/ Shrink(t, c, s)
    /\ UNCHANGED <<logVars, registryVars, po>>

\* What has happened that the code does not guard against.
StaleHead(t) == at[t] \in {"lock_destroy", "lock_dump"} /\ pc[t] # head
CutsBehindHead(t) ==
    at[t] = "unlink" /\ pc[t] = p[t] /\ pr[t] = NULL /\ pc[t] # head
History(t) ==
    /\ stale' = (stale \/ (StaleHead(t) /\ memcache_lock' = t))
    /\ lost' = (lost \/ CutsBehindHead(t))
    /\ replaced' = (replaced \/ \E u, w \in Thread :
                       u # w /\ Replacing(u)' /\ at'[w] # "idle")
    /\ shrunk' = (shrunk \/ \E u \in Thread :
                     /\ moves' # moves /\ po[u] # NULL
                     /\ slab[po[u]].place = "list" /\ slab'[po[u]].place # "list")

Next == ~fault /\ \E t \in Thread : (Continue(t) \/ Begin(t) \/ Move(t)) /\ History(t)

\* The scheduler keeps running every thread that is inside a call and not
\* waiting; nothing is assumed about who gets a mutex.
Fairness == \A t \in Thread : WF_vars(~fault /\ Continue(t) /\ History(t))

Spec == Init /\ [][Next]_vars /\ Fairness

-----------------------------------------------------------------------------
Label == InLog \cup
    {"idle", "lock_level", "set_level", "free", "assign", "assign_null",
     "lock_create", "push", "lock_destroy", "unlink", "lock_dump", "visit",
     "slabs", "next_slab", "next"}

\* Types of the slabs, and of the registry's variables with the places.
SlabOrNull == Slab \cup {NULL}
CacheNo == 1 .. MaxCaches
SlabTypeOK ==
    /\ DOMAIN cache \subseteq CacheNo
    /\ list \in [CacheNo -> SlabOrNull] /\ wait_for_free \in [CacheNo -> SlabOrNull]
    /\ slab \in [Slab -> [next : SlabOrNull, of : CacheNo \cup {NULL},
                         place : {"unused", "list", "reserve", "freed"}]]
    /\ po \in [Thread -> SlabOrNull]
    /\ moves \in 0 .. MaxMoves /\ shrunk \in BOOLEAN
TypeOK ==
    /\ LogTypeOK
    /\ at \in [Thread -> Label] /\ back \in [Thread -> {"idle", "slabs", "next_slab", "next"}]
    /\ cache \in Seq([next : CacheOrNull, freed : BOOLEAN])
    /\ head \in CacheOrNull
    /\ memcache_lock \in Thread \cup {NULL}
    /\ p \in [Thread -> CacheOrNull]
    /\ pr \in [Thread -> CacheOrNull]
    /\ pc \in [Thread -> CacheOrNull]
    /\ calls \in [Thread -> 0 .. MaxCalls]
    /\ stale \in BOOLEAN /\ lost \in BOOLEAN /\ replaced \in BOOLEAN
    /\ SlabTypeOK

\* A walk has the lock for as long as it goes on, also while it logs, and a
\* thread that has it is on such a walk or about to change the list.
InRegistry(t) ==
    \/ at[t] \in {"push", "unlink", "visit", "slabs", "next_slab", "next"}
    \/ at[t] \in InLog /\ back[t] # "idle"
RegistryLocked == \A t \in Thread : InRegistry(t) <=> memcache_lock = t

\* Freed memory is only ever used after one of three races: a walk began at a
\* head that another thread replaced before the lock was taken; the default log
\* was replaced while another thread was in a call; a thread's mem_cache_free
\* unlinked a slab while a dump stood on it.
FaultNeedsRace == fault => stale \/ replaced \/ shrunk

\* The caches on the list: those in every set that has its head, and with a
\* cache the next one.
HoldsList(S) ==
    /\ head # NULL => head \in S
    /\ \A c \in S : cache[c].next # NULL => cache[c].next \in S
Chain == {c \in DOMAIN cache : \A S \in SUBSET DOMAIN cache : HoldsList(S) => c \in S}

\* The list holds every cache that exists and none that was freed, but for those
\* a thread is about to push, until a thread unlinks as the head a cache that has
\* been the head, which drops all that were pushed since: nothing else that the
\* reads of head without the lock lead to makes the list wrong.
RegistryExact ==
    ~lost =>
        Chain = Live \ {p[t] : t \in {u \in Thread : Pushing(u)}}

\* However many threads log first, one default log is created; when it is not
\* replaced under their hands, there is no log but the default one.
OneDefaultLog ==
    ~replaced =>
        {l \in DOMAIN logs : ~logs[l].freed} \subseteq {g_default_log}

\* Every call returns, also those that log while they hold l_memcache_lock:
\* the mutexes are taken in one order, and all of them are given back.
CallsReturn ==
    \A t \in Thread : at[t] # "idle" ~> at[t] = "idle" \/ fault
=============================================================================
