---------------------------- MODULE MCTreeCalls ----------------------------
(* TLC instance of the tree's two kinds of callers, Tree and TopN: one of the *)
(* two programs runs, any sequence of calls or the sorted container.          *)
EXTENDS Tree, MCTopN

VARIABLE program
MCInit ==
    /\ Init /\ TopNInit
    /\ \/ program = "calls" /\ topn = 0
       \/ program = "container"
MCNext ==
    /\ \/ program = "calls" /\ Next /\ UNCHANGED topnVars
       \/ program = "container" /\ TopNNext /\ UNCHANGED vars
    /\ UNCHANGED program
MCSpec == MCInit /\ [][MCNext]_<<vars, topnVars, program>>
=============================================================================
