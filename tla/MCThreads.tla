------------------------------ MODULE MCThreads ------------------------------
(* TLC instance of CacheRegistry.  Slabs are linked and unlinked among fewer *)
(* calls than there are without: create, dump and one more.                  *)
EXTENDS CacheRegistry, FiniteSetsExt

CallsMade == MapThenSumSet(LAMBDA t : calls[t], Thread)
MCNext == Next /\ (moves' > 0 => CallsMade' <= 3)
MCSpec == Init /\ [][MCNext]_vars /\ Fairness
=============================================================================
