------------------------------- MODULE MCTree -------------------------------
(* TLC instances of Tree.                                                   *)
EXTENDS Tree

\* What a call returned has no influence on what follows: the runs about the
\* shape of the tree identify states that differ only in ret.
ShapeView == <<tree, crashed>>

\* With one key object to a rank and one value, a call that replaces or steals
\* differs from one that inserts or removes in ret only, and a lookup changes
\* nothing else.
ShapeNext ==
    \/ \E k \in KeyObject, v \in Val : Insert(k, v, FALSE)
    \/ \E r \in Rank : RemoveKey(r)
    \/ RemoveFirstOrLast
    \/ RemoveAll
ShapeSpec == Init /\ [][ShapeNext]_vars
=============================================================================
