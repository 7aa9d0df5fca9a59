------------------------------- MODULE MCList -------------------------------
(* TLC instances of List.                                                   *)
EXTENDS List

MCSymmetry == Permutations(ListId)
=============================================================================
