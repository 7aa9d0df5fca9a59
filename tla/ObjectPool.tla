----------------------------- MODULE ObjectPool -----------------------------
(***************************************************************************)
(* What a memory cache promises the code that allocates from it (the tree, *)
(* the list, the record and key caches of src/src/caches_maps.cpp): every  *)
(* object handed out and not yet given back keeps its ObjSize bytes to     *)
(* itself.  An object is the block it lies in and its byte offset there.   *)
(* Which block an object comes from, when blocks are obtained and released *)
(* and how free objects are found is left to the implementation.           *)
(***************************************************************************)
EXTENDS Integers

CONSTANTS Block, ObjSize, BlockBytes

VARIABLES open, live, rc

poolVars == <<open, live, rc>>

PObject == Block \X (0 .. BlockBytes - 1)

Apart(o, q) == o[1] = q[1] => o[2] + ObjSize <= q[2] \/ q[2] + ObjSize <= o[2]

PTypeOK ==
    /\ open \in BOOLEAN
    /\ live \subseteq PObject
    /\ rc \in {0, -1}

PInit == open = FALSE /\ live = {} /\ rc = 0

POpen ==
    /\ ~open
    /\ \/ open' = TRUE /\ rc' = 0
       \/ open' = FALSE /\ rc' = -1
    /\ UNCHANGED live

\* An allocation returns an object whose bytes no live object uses, or NULL.
PAlloc ==
    /\ open
    /\ \/ /\ \E o \in PObject :
                /\ o[2] + ObjSize <= BlockBytes
                /\ \A q \in live : Apart(o, q)
                /\ live' = live \cup {o}
          /\ rc' = 0
       \/ live' = live /\ rc' = -1
    /\ UNCHANGED open

\* An object given back is free for reuse; -1 tells the address was refused.
PFree ==
    /\ open
    /\ \/ /\ \E o \in live : live' = live \ {o}
          /\ rc' = 0
       \/ live' = live /\ rc' = -1
    /\ UNCHANGED open

PClose == open /\ open' = FALSE /\ live' = {} /\ rc' = 0

PNext == POpen \/ PAlloc \/ PFree \/ PClose

PSpec == PInit /\ [][PNext]_poolVars

\* No two live objects share a byte.
Exclusive == \A o, q \in live : o # q => Apart(o, q)
=============================================================================
