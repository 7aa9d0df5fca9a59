----------------------------- MODULE MCHashTable -----------------------------
(* TLC instances of HashTable.                                              *)
EXTENDS HashTable, TLC

\* Two of the hashes are reserved values, three are congruent in small tables.
MCHashOf == [r \in 1 .. 9 |-> <<0, 1, 5, 14, 21, 7, 4, 28, 3>>[r]]
MCHashFew == [r \in Rank |-> MCHashOf[r]]

\* What a call returned has no influence on what follows.  A step that leaves
\* the table alone is still seen to change ret from one of two states.
TableView == <<table, ret = Nothing>>

\* Next, but only the first rank has two key objects, and the callback of
\* ForeachRemove selects ranks that are in the table.
MCKey == {k \in KeyObject : k[1] = 1 \/ k[2] = "a"}
MCNext ==
    \/ \E k \in MCKey, b \in BOOLEAN : \E v \in Val \cup {k} : Insert(k, v, b)
    \/ \E r \in Rank : LookupExtended(r) \/ \E b \in BOOLEAN : RemoveInternal(r, b)
    \/ \E R \in SUBSET {keys[i][1] : i \in RealSlots} : ForeachRemove(R)
    \/ RemoveAll \/ Free
    \/ Resize
MCSpec == Init /\ [][MCNext]_vars
=============================================================================
