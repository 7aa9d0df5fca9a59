------------------------------ MODULE MemCache ------------------------------
(***************************************************************************)
(* The slab cache of src/src/memcache.cpp, from which the tree, the list   *)
(* and the record maps take their nodes.  One cache, one caller: none of   *)
(* the operations below takes l_memcache_lock (it only guards the registry *)
(* of caches), so every call runs to its end before the next one begins.   *)
(*                                                                         *)
(* A slab (struct mem_obj with its obj_ctl block) is a member of Slab.  An *)
(* object is <<slab, byte offset from po->obj>>.  The free objects of a    *)
(* slab are chained by index through obj_ctl, starting at obj_free.        *)
(***************************************************************************)
EXTENDS Integers, Sequences, FiniteSets, SequencesExt

CONSTANTS
    Slab,       \* the slabs malloc can still provide
    NULL,       \* the null pointer
    CacheSize,  \* objects per slab, mem_cache_create's second argument
    ObjSize,    \* bytes per object, its first argument
    Word        \* 2^32 in the code: unsigned arithmetic is modulo Word

\* A slab's bytes are counted without wrapping and an object has at least two
\* bytes (reciprocal_value(1) wraps to 0); the caches of the program hold
\* objects of 4, 8, 16, 24 and 40 bytes.
ASSUME SizesAssumption ==
    /\ CacheSize \in Nat
    /\ ObjSize \in Nat /\ ObjSize >= 2
    /\ Word \in Nat /\ Word > ObjSize
    /\ CacheSize * ObjSize <= Word
ASSUME NullAssumption == NULL \notin Slab

VARIABLES
    open,           \* the cache exists: between create and destroy
    list,           \* p->list, the first slab first
    wait_for_free,  \* p->wait_for_free, the one empty slab kept in reserve
    inuse,          \* po->inuse
    obj_free,       \* po->obj_free
    obj_ctl,        \* po->obj_ctl
    heap,           \* the slabs obtained from malloc and not returned
    lost,           \* headers no pointer reaches any more
    live,           \* the objects the caller holds
    pc,             \* "rescan" after cache_grow, at label re_alloc
    rc              \* the result of the last call: -1 is NULL or an error

vars == <<open, list, wait_for_free, inuse, obj_free, obj_ctl, heap, lost,
          live, pc, rc>>

Index == 0 .. CacheSize - 1
SlabBytes == CacheSize * ObjSize
Object == Slab \X (0 .. Word - 1)
Listed == ToSet(list)

-----------------------------------------------------------------------------
(* Index arithmetic: division by ObjSize as multiplication by a reciprocal *)

ReciprocalValueDown(k) == (Word \div k) % Word      \* mutant: rounds down
ReciprocalValue(k) == ((Word + (k - 1)) \div k) % Word
ReciprocalDivide(A, R) == ((A * R) \div Word) % Word
ObjToIndex(offset) == ReciprocalDivide(offset, ReciprocalValue(ObjSize))
IndexToObj(idx) == (idx * ObjSize) % Word

\* The address test of mem_cache_free: the object lies before po->end.
Holds(s, o) == o[1] = s /\ o[2] < SlabBytes

HasRoom(s) == inuse[s] < CacheSize
FirstWithRoom(p) ==
    /\ HasRoom(list[p])
    /\ \A q \in 1 .. p - 1 : ~HasRoom(list[q])
LastObjectEarly(s) == inuse[s] - 1 <= 1    \* mutant: one object too early
LastObjectLate(s) == inuse[s] = 0          \* mutant: tests before inuse--
LastObject(s) == inuse[s] - 1 = 0
NoRoom == \A p \in DOMAIN list : ~HasRoom(list[p])

\* The chain cache_grow writes into a new slab, and where it links a slab.
FreshCtl == [i \in Index |-> i + 1]
LinkLast(s) == list \o <<s>>                    \* mutant: at the far end
LinkFirst(s) == <<s>> \o list

-----------------------------------------------------------------------------
Init ==
    /\ open = FALSE
    /\ list = <<>>
    /\ wait_for_free = NULL
    /\ inuse = [s \in Slab |-> 0]
    /\ obj_free = [s \in Slab |-> 0]
    /\ obj_ctl = [s \in Slab |-> [i \in Index |-> 0]]
    /\ heap = {}
    /\ lost = {}
    /\ live = {}
    /\ pc = "idle"
    /\ rc = 0

Create ==
    /\ ~open
    /\ \/ open' = TRUE /\ rc' = 0
       \/ open' = FALSE /\ rc' = -1     \* malloc of the handle failed
    /\ UNCHANGED <<list, wait_for_free, inuse, obj_free, obj_ctl, heap, lost,
                   live, pc>>

\* mem_cache_alloc, lines 181-189: the first slab with room gives its first
\* free object.
TakeObject ==
    /\ open
    /\ \E p \in DOMAIN list :
         /\ FirstWithRoom(p)
         /\ LET s   == list[p]
                idx == obj_free[s]
            IN /\ live' = live \cup {<<s, IndexToObj(idx)>>}
               /\ obj_free' = [obj_free EXCEPT ![s] = obj_ctl[s][idx]]
               /\ inuse' = [inuse EXCEPT ![s] = @ + 1]
    /\ pc' = "idle"
    /\ rc' = 0
    /\ UNCHANGED <<open, list, wait_for_free, obj_ctl, heap, lost>>

\* cache_grow puts the reserve back at the front of the list, as it is ...
GrowFromReserve ==
    /\ open /\ NoRoom
    /\ wait_for_free # NULL
    /\ list' = LinkFirst(wait_for_free)
    /\ wait_for_free' = NULL
    /\ pc' = "rescan"
    /\ UNCHANGED <<open, inuse, obj_free, obj_ctl, heap, lost, live, rc>>

\* ... or a new slab, all of its objects chained.
GrowFromHeap(s) ==
    /\ open /\ NoRoom
    /\ wait_for_free = NULL
    /\ s \notin heap
    /\ heap' = heap \cup {s}
    /\ obj_ctl' = [obj_ctl EXCEPT ![s] = FreshCtl]
    /\ inuse' = [inuse EXCEPT ![s] = 0]
    /\ obj_free' = [obj_free EXCEPT ![s] = 0]
    /\ list' = LinkFirst(s)
    /\ pc' = "rescan"
    /\ UNCHANGED <<open, wait_for_free, lost, live, rc>>

\* malloc failed, and mem_cache_alloc returns NULL.  When it fails for the
\* block behind a header already obtained, that header is never released.
GrowFails ==
    /\ open /\ NoRoom
    /\ wait_for_free = NULL
    /\ \/ UNCHANGED <<heap, lost>>
       \/ \E s \in Slab \ heap : heap' = heap \cup {s} /\ lost' = lost \cup {s}
    /\ pc' = "idle"
    /\ rc' = -1
    /\ UNCHANGED <<open, list, wait_for_free, inuse, obj_free, obj_ctl, live>>

Alloc ==
    \/ TakeObject
    \/ GrowFromReserve
    \/ \E s \in Slab : GrowFromHeap(s)
    \/ GrowFails

\* mem_obj_free: the slab at position p of the list becomes the reserve and a
\* slab that was in reserve before goes back to the heap.
KeepBoth(p) ==                                  \* mutant: leaks the old one
    /\ heap' = heap
    /\ list' = RemoveAt(list, p)
    /\ wait_for_free' = list[p]
KeepInReserve(p) ==
    /\ heap' = heap \ {wait_for_free}
    /\ list' = RemoveAt(list, p)
    /\ wait_for_free' = list[p]

\* The object's index is computed back from its address and becomes the head
\* of its slab's chain.
Free(o) ==
    /\ open /\ pc = "idle"
    /\ \E p \in DOMAIN list :
         /\ Holds(list[p], o)
         /\ LET s   == list[p]
                idx == ObjToIndex(o[2])
            IN /\ obj_ctl' = [obj_ctl EXCEPT ![s][idx] = obj_free[s]]
               /\ obj_free' = [obj_free EXCEPT ![s] = idx]
               /\ inuse' = [inuse EXCEPT ![s] = @ - 1]
               /\ IF LastObject(s)
                  THEN KeepInReserve(p)
                  ELSE UNCHANGED <<heap, list, wait_for_free>>
    /\ live' = live \ {o}
    /\ rc' = 0
    /\ UNCHANGED <<open, lost, pc>>

\* "free error!!": no slab of the list holds the address.
FreeRefused(o) ==
    /\ open /\ pc = "idle"
    /\ \A p \in DOMAIN list : ~Holds(list[p], o)
    /\ rc' = -1
    /\ UNCHANGED <<open, list, wait_for_free, inuse, obj_free, obj_ctl, heap,
                   lost, live, pc>>

\* Every slab the handle reaches is released, and the handle.
Destroy ==
    /\ open /\ pc = "idle"
    /\ heap' = heap \ (Listed \cup {wait_for_free})
    /\ list' = <<>>
    /\ wait_for_free' = NULL
    /\ live' = {}
    /\ open' = FALSE
    /\ rc' = 0
    /\ UNCHANGED <<inuse, obj_free, obj_ctl, lost, pc>>

\* Callers give back what they hold; the address may also be one that this
\* cache does not own (a node taken from another list's cache).
Foreign == (Slab \ heap) \X {0}

Next ==
    \/ Create
    \/ Alloc
    \/ \E o \in live : Free(o)
    \/ \E o \in live \cup Foreign : FreeRefused(o)
    \/ Destroy

Spec == Init /\ [][Next]_vars

-----------------------------------------------------------------------------
TypeOK ==
    /\ open \in BOOLEAN
    /\ list \in Seq(Slab)
    /\ wait_for_free \in Slab \cup {NULL}
    /\ inuse \in [Slab -> 0 .. CacheSize]
    /\ obj_free \in [Slab -> 0 .. CacheSize]
    /\ obj_ctl \in [Slab -> [Index -> 0 .. CacheSize]]
    /\ heap \subseteq Slab
    /\ lost \subseteq Slab
    /\ live \subseteq Object
    /\ pc \in {"idle", "rescan"}
    /\ rc \in {0, -1}

\* The indexes of slab s whose objects the caller holds.
Used(s) == {i \in Index : <<s, i * ObjSize>> \in live}

\* f lists the indexes in free in the order mem_cache_alloc will hand them out:
\* n of them, from first on along ctl.
IsChain(f, n, first, ctl, free) ==
    /\ f \in [1 .. n -> Index]
    /\ \A j, k \in 1 .. n : f[j] = f[k] => j = k
    /\ n > 0 => f[1] = first
    /\ \A j \in 1 .. n - 1 : f[j + 1] = ctl[f[j]]
    /\ {f[j] : j \in 1 .. n} = free

ChainExists(n, first, ctl, free) ==
    \E f \in [1 .. n -> Index] : IsChain(f, n, first, ctl, free)

HasFreeChain(s) ==
    ChainExists(CacheSize - inuse[s], obj_free[s], obj_ctl[s],
                Index \ Used(s))

\* The chain threaded through obj_ctl visits every object of a slab that the
\* caller does not hold, none that it does, and none twice, whatever the order
\* in which objects were given back; its length is what inuse says.
FreeChainSound ==
    /\ \A s \in Listed : HasFreeChain(s)
    /\ wait_for_free # NULL => HasFreeChain(wait_for_free)

\* An object the caller holds lies, whole and aligned, in a slab that is still
\* in the list: mem_cache_free will find it, and its slab was neither released
\* nor set aside as the reserve.
LiveBacked ==
    \A o \in live :
        /\ o[1] \in Listed
        /\ \E i \in Index : o[2] = i * ObjSize

\* One growth is enough: mem_cache_alloc's second pass over the list finds
\* room, so the goto re_alloc loop runs at most once.
GrowthMakesRoom ==
    pc = "rescan" => list # <<>> /\ HasRoom(Head(list))

\* Every slab obtained is in the list once, or is the reserve, or is a header
\* leaked by a failed growth; after mem_cache_destroy only the leaks are left.
SlabsAccounted ==
    /\ IsInjective(list)
    /\ heap = Listed \cup ({wait_for_free} \ {NULL}) \cup lost
    /\ wait_for_free \notin Listed \cup lost
    /\ Listed \cap lost = {}
    /\ ~open => heap = lost

\* No slab stays in the list empty: the cache holds on to at most one empty
\* slab, the reserve (right after a growth the new slab is about to be used).
NoIdleSlab ==
    /\ \A p \in DOMAIN list :
          inuse[list[p]] = 0 => p = 1 /\ pc = "rescan"
    /\ wait_for_free # NULL => inuse[wait_for_free] = 0 /\ pc = "idle"

Pool == INSTANCE ObjectPool WITH Block <- Slab, BlockBytes <- Word

\* The cache is an object pool: whatever slabs it grows, reuses and releases in
\* between, what it hands out overlaps no object the caller still holds.
ImplementsPool == Pool!PSpec
=============================================================================
