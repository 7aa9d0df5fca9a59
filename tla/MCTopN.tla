------------------------------- MODULE MCTopN -------------------------------
(* TLC instances of TopN: seven items, among them two pairs of equal weight. *)
EXTENDS TopN

MCWeight == (1 :> 10) @@ (2 :> 20) @@ (3 :> 30) @@ (4 :> 30)
            @@ (5 :> 40) @@ (6 :> 50) @@ (7 :> 50)
=============================================================================
