----------------------------- MODULE Dictionary -----------------------------
(***************************************************************************)
(* What hash_table.h and tree.h both promise: a finite map with at most    *)
(* one entry per rank, where keys that compare equal are different objects *)
(* of one rank.  It also says which objects the destroy functions receive: *)
(* of every key and value that leaves the map, or that the map declined to *)
(* keep, exactly those whose ownership does not return to the caller.      *)
(***************************************************************************)
CONSTANTS Rank, Copy, Val, NULL

VARIABLES map, ret

mapVars == <<map, ret>>

KeyObject == Rank \X Copy

Outcome(done, key, value, freed) ==
    [done |-> done, key |-> key, value |-> value, freed |-> freed]
Nothing == Outcome(FALSE, NULL, NULL, {})

Objects(S) == UNION {{map[r].key, map[r].value} : r \in S}
Without(S) == [r \in DOMAIN map \ S |-> map[r]]
With(r, e) == [q \in DOMAIN map \cup {r} |-> IF q = r THEN e ELSE map[q]]

MInit == map = [r \in {} |-> NULL] /\ ret = Nothing

\* An equal key keeps the stored key object; replacing keeps the new one.
MPut(k, v, replace) ==
    /\ ret' = Outcome(TRUE, NULL, NULL,
                  IF k[1] \notin DOMAIN map THEN {}
                  ELSE {map[k[1]].value, IF replace THEN map[k[1]].key ELSE k})
    /\ map' = With(k[1], [key   |-> IF k[1] \in DOMAIN map /\ ~replace
                                    THEN map[k[1]].key ELSE k,
                          value |-> v])

MDelete(r) ==
    \/ /\ r \in DOMAIN map
       /\ map' = Without({r})
       /\ \/ ret' = Outcome(TRUE, NULL, NULL, Objects({r}))
          \/ ret' = Outcome(TRUE, map[r].key, map[r].value, {})   \* steal
    \/ /\ r \notin DOMAIN map
       /\ ret' = Nothing
       /\ UNCHANGED map

MLookup(r) ==
    /\ ret' = IF r \in DOMAIN map
              THEN Outcome(TRUE, map[r].key, map[r].value, {})
              ELSE Nothing
    /\ UNCHANGED map

\* The entries a traversal selects, or all of them, are destroyed.
MDeleteAll(S) ==
    /\ map' = Without(S)
    /\ ret' = Outcome(TRUE, NULL, NULL, Objects(S))

MNext ==
    \/ \E r \in Rank : MLookup(r) \/ MDelete(r)
    \/ \E S \in SUBSET DOMAIN map : MDeleteAll(S)
    \/ \E k \in KeyObject \ Objects(DOMAIN map) :
          \E v \in Val, b \in BOOLEAN : MPut(k, v, b)

MSpec == MInit /\ [][MNext]_mapVars
=============================================================================
