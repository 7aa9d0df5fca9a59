----------------------------- MODULE OrderedMap -----------------------------
(***************************************************************************)
(* What tree.h adds to a dictionary: ranks are ordered, and the least or   *)
(* the greatest entry can be removed.                                      *)
(***************************************************************************)
EXTENDS Dictionary, Integers

Least(S) == CHOOSE x \in S : \A y \in S : x <= y
Greatest(S) == CHOOSE x \in S : \A y \in S : x >= y

\* The entry at one end goes; the key next to it is returned.
ODeleteEnd(End(_)) ==
    IF DOMAIN map = {}
    THEN UNCHANGED map /\ ret' = Nothing
    ELSE LET r    == End(DOMAIN map)
             rest == DOMAIN map \ {r}
         IN /\ map' = Without({r})
            /\ ret' = Outcome(TRUE,
                              IF rest = {} THEN NULL ELSE map[End(rest)].key,
                              NULL, Objects({r}))

ONext == MNext \/ ODeleteEnd(Least) \/ ODeleteEnd(Greatest)

OSpec == MInit /\ [][ONext]_mapVars
=============================================================================
