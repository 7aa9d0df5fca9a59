------------------------------ MODULE HashTable ------------------------------
(***************************************************************************)
(* hash_table_t of src/src/hash_table.cpp: open addressing in a table of   *)
(* 2^shift slots, probed by triangular steps, where a removal leaves a     *)
(* tombstone.  A key object is <<rank, copy>>; key_equal_func and hfunc    *)
(* see its rank only.  keys and values are one array until the first       *)
(* insertion of a value that is not its key (aliased).                     *)
(***************************************************************************)
EXTENDS Integers, Sequences, FiniteSets, SequencesExt

CONSTANTS
    Rank,
    Copy,
    Val,
    HashOf,    \* hfunc: a function from Rank to uint
    MinShift,  \* HASH_TABLE_MIN_SHIFT
    NULL

\* 1 << n, as an int.
MaxShift == 30
shl[n \in 0 .. MaxShift] == IF n = 0 THEN 1 ELSE 2 * shl[n - 1]
Size(sh) == shl[sh]
Slots(sh) == 0 .. Size(sh) - 1

\* The code needs fewer keys than make twice their number, or a size, overflow.
ASSUME HashAssumption == HashOf \in [Rank -> Nat]
ASSUME ShiftAssumption == MinShift \in 0 .. MaxShift
ASSUME RankAssumption == IsFiniteSet(Rank) /\ 2 * Cardinality(Rank) < Size(MaxShift)

VARIABLES
    shift,      \* size, mod and mask are functions of it
    nnodes,
    noccupied,  \* nnodes + tombstones
    hashes, keys, values,
    aliased,    \* keys == values
    ret         \* what the last call returned and passed to destroy functions

table == <<shift, nnodes, noccupied, hashes, keys, values, aliased>>
vars == <<shift, nnodes, noccupied, hashes, keys, values, aliased, ret>>

KeyObject == Rank \X Copy
Outcome(done, key, value, freed) ==
    [done |-> done, key |-> key, value |-> value, freed |-> freed]
Nothing == Outcome(FALSE, NULL, NULL, {})

Unused == 0
Tombstone == 1
IsReal(h) == h >= 2

prime_mod ==
    <<1, 2, 3, 7, 13, 31, 61, 127, 251, 509, 1021, 2039, 4093, 8191, 16381, 32749,
      65521, 131071, 262139, 524287, 1048573, 2097143, 4194301, 8388593, 16777213,
      33554393, 67108859, 134217689, 268435399, 536870909, 1073741789, 2147483647>>

\* hash_value: the two reserved values are moved out of the way.
HashValue(r) == IF IsReal(HashOf[r]) THEN HashOf[r] ELSE 2

\* node_index after n rounds of a probe loop in a table of 2^sh slots.
ProbeAt(h, n, sh) ==
    ((h % prime_mod[sh + 1]) + ((n * (n + 1)) \div 2)) % Size(sh)

\* The probe loops visit slots in this order until they meet one of stops.
ProbeLength(h, sh, stops) ==
    CHOOSE n \in 0 .. 2 * Size(sh) :
        /\ ProbeAt(h, n, sh) \in stops
        /\ \A m \in 0 .. n - 1 : ProbeAt(h, m, sh) \notin stops
ProbeSlot(h, sh, stops) == ProbeAt(h, ProbeLength(h, sh, stops), sh)

RealSlots == {i \in DOMAIN hashes : IsReal(hashes[i])}
Holds(i, r) == hashes[i] = HashValue(r) /\ keys[i][1] = r

\* The slot that holds r, else the first tombstone passed, else the unused
\* slot that ended the search.
LookupNode(r) ==
    LET h      == HashValue(r)
        stops  == {i \in Slots(shift) : hashes[i] = Unused \/ Holds(i, r)}
        n      == ProbeLength(h, shift, stops)
        passed == {m \in 0 .. n - 1 : hashes[ProbeAt(h, m, shift)] = Tombstone}
        found  == Holds(ProbeAt(h, n, shift), r)
    IN IF found \/ passed = {} THEN ProbeAt(h, n, shift)
       ELSE ProbeAt(h, CHOOSE m \in passed : \A p \in passed : m <= p, shift)

\* How often n can be halved until it is 0.
ClosestShift(n) == CHOOSE i \in 0 .. MaxShift : /\ n < Size(i)
                                                /\ i > 0 => Size(i - 1) <= n
ShiftFromSize(n) == IF ClosestShift(n) > MinShift THEN ClosestShift(n) ELSE MinShift

EmptyArrays(sh) == [hashes |-> [i \in Slots(sh) |-> Unused],
                    keys   |-> [i \in Slots(sh) |-> NULL],
                    values |-> [i \in Slots(sh) |-> NULL]]

\* The rehash loop: the old slots in order, each entry to the first slot of
\* its probe that is still unused.
Moved(a, t, i, sh) ==
    LET to == ProbeSlot(t.hashes[i], sh, {j \in Slots(sh) : a.hashes[j] = Unused})
    IN IF ~IsReal(t.hashes[i]) THEN a
       ELSE [hashes |-> [a.hashes EXCEPT ![to] = t.hashes[i]],
             keys   |-> [a.keys   EXCEPT ![to] = t.keys[i]],
             values |-> [a.values EXCEPT ![to] = t.values[i]]]
Rehashed(t, sh) ==
    LET after[n \in 0 .. Size(t.shift)] ==
            IF n = 0 THEN EmptyArrays(sh) ELSE Moved(after[n - 1], t, n - 1, sh)
    IN after[Size(t.shift)]

\* hash_table_resize_internal, on the fields as a record.
ResizeKeepsCount(t) ==        \* mutant: tombstones stay counted
    LET sh == ShiftFromSize(t.nnodes * 2)
        a  == Rehashed(t, sh)
    IN [shift |-> sh, nnodes |-> t.nnodes, noccupied |-> t.noccupied,
        hashes |-> a.hashes, keys |-> a.keys, values |-> a.values]
ResizeInternal(t) ==
    LET sh == ShiftFromSize(t.nnodes * 2)
        a  == Rehashed(t, sh)
    IN [shift |-> sh, nnodes |-> t.nnodes, noccupied |-> t.nnodes,
        hashes |-> a.hashes, keys |-> a.keys, values |-> a.values]

MaybeResizeLate(t) ==         \* mutant: waits until after the table is full
    IF \/ Size(t.shift) > t.nnodes * 4 /\ Size(t.shift) > Size(MinShift)
       \/ Size(t.shift) < t.noccupied + t.noccupied \div 16
    THEN ResizeInternal(t) ELSE t
MaybeResize(t) ==
    IF \/ Size(t.shift) > t.nnodes * 4 /\ Size(t.shift) > Size(MinShift)
       \/ Size(t.shift) <= t.noccupied + t.noccupied \div 16
    THEN ResizeInternal(t) ELSE t

Become(t) ==
    /\ shift' = t.shift
    /\ nnodes' = t.nnodes
    /\ noccupied' = t.noccupied
    /\ hashes' = t.hashes
    /\ keys' = t.keys
    /\ values' = t.values

Current == [shift |-> shift, nnodes |-> nnodes, noccupied |-> noccupied,
            hashes |-> hashes, keys |-> keys, values |-> values]

Init ==
    /\ shift = MinShift
    /\ nnodes = 0
    /\ noccupied = 0
    /\ hashes = EmptyArrays(MinShift).hashes
    /\ keys = EmptyArrays(MinShift).keys
    /\ values = EmptyArrays(MinShift).values
    /\ aliased = TRUE
    /\ ret = Nothing

-----------------------------------------------------------------------------
\* hash_table_insert_node when the slot already holds an equal key.  A write
\* to values is a write to keys while they are one array.
OverwriteFreesStored(i, k, v, keep_new_key) ==   \* mutant: the wrong key goes
    /\ IsReal(hashes[i])
    /\ aliased' = (aliased /\ k = v)
    /\ keys' = [keys EXCEPT ![i] = IF aliased' THEN v
                                   ELSE IF keep_new_key THEN k ELSE @]
    /\ values' = [values EXCEPT ![i] = v]
    /\ ret' = Outcome(TRUE, NULL, NULL,
                      {values[i], IF keep_new_key THEN k ELSE keys[i]})
    /\ UNCHANGED <<shift, nnodes, noccupied, hashes>>
Overwrite(i, k, v, keep_new_key) ==
    /\ IsReal(hashes[i])
    /\ aliased' = (aliased /\ k = v)
    /\ keys' = [keys EXCEPT ![i] = IF aliased' THEN v
                                   ELSE IF keep_new_key THEN k ELSE @]
    /\ values' = [values EXCEPT ![i] = v]
    /\ ret' = Outcome(TRUE, NULL, NULL,
                      {values[i], IF keep_new_key THEN keys[i] ELSE k})
    /\ UNCHANGED <<shift, nnodes, noccupied, hashes>>

\* The same when it does not: a tombstone was counted already.
Occupy(i, k, v) ==
    /\ ~IsReal(hashes[i])
    /\ aliased' = (aliased /\ k = v)
    /\ LET t == [shift     |-> shift,
                 nnodes    |-> nnodes + 1,
                 noccupied |-> noccupied + IF hashes[i] = Unused THEN 1 ELSE 0,
                 hashes    |-> [hashes EXCEPT ![i] = HashValue(k[1])],
                 keys      |-> [keys EXCEPT ![i] = k],
                 values    |-> [values EXCEPT ![i] = v]]
       IN Become(IF hashes[i] = Unused THEN MaybeResize(t) ELSE t)
    /\ ret' = Outcome(TRUE, NULL, NULL, {})

\* hash_table_insert (keep_new_key FALSE) and hash_table_replace.  The caller
\* passes a key object that the table does not own, and a set (v = k) replaces
\* an equal key, because insert would destroy the key object it keeps as value.
Insert(k, v, keep_new_key) ==
    /\ \A i \in RealSlots : k \notin {keys[i], values[i]}
    /\ v = k => keep_new_key
    /\ LET i == LookupNode(k[1])
       IN Overwrite(i, k, v, keep_new_key) \/ Occupy(i, k, v)

\* hash_table_remove_node, of a set of slots.
RemoveNodesNoTombstone(S) ==  \* mutant: the slot becomes unused
    /\ hashes' = [i \in DOMAIN hashes |-> IF i \in S THEN Unused ELSE hashes[i]]
    /\ keys' = [i \in DOMAIN keys |-> IF i \in S THEN NULL ELSE keys[i]]
    /\ values' = [i \in DOMAIN values |-> IF i \in S THEN NULL ELSE values[i]]
    /\ nnodes' = nnodes - Cardinality(S)
    /\ UNCHANGED <<shift, noccupied, aliased>>
RemoveNodes(S) ==
    /\ hashes' = [i \in DOMAIN hashes |-> IF i \in S THEN Tombstone ELSE hashes[i]]
    /\ keys' = [i \in DOMAIN keys |-> IF i \in S THEN NULL ELSE keys[i]]
    /\ values' = [i \in DOMAIN values |-> IF i \in S THEN NULL ELSE values[i]]
    /\ nnodes' = nnodes - Cardinality(S)
    /\ UNCHANGED <<shift, noccupied, aliased>>

ObjectsAt(S) == {keys[i] : i \in S} \cup {values[i] : i \in S}

\* hash_table_remove (notify) and hash_table_steal; neither resizes.
RemoveInternal(r, notify) ==
    LET i == LookupNode(r) IN
    IF IsReal(hashes[i])
    THEN /\ RemoveNodes({i})
         /\ ret' = IF notify THEN Outcome(TRUE, NULL, NULL, ObjectsAt({i}))
                             ELSE Outcome(TRUE, keys[i], values[i], {})
    ELSE ret' = Nothing /\ UNCHANGED table

\* hash_table_lookup_extended; contains and lookup return part of it.
LookupExtended(r) ==
    LET i == LookupNode(r) IN
    /\ ret' = IF IsReal(hashes[i]) THEN Outcome(TRUE, keys[i], values[i], {})
              ELSE Nothing
    /\ UNCHANGED table

\* hash_table_foreach_remove, with a callback that selects the ranks of R.
ForeachRemove(R) ==
    LET S == {i \in RealSlots : keys[i][1] \in R} IN
    /\ RemoveNodes(S)
    /\ ret' = Outcome(TRUE, NULL, NULL, ObjectsAt(S))

RemoveAll ==
    LET a == EmptyArrays(shift) IN
    /\ Become(MaybeResize([shift |-> shift, nnodes |-> 0, noccupied |-> 0,
                           hashes |-> a.hashes, keys |-> a.keys,
                           values |-> a.values]))
    /\ ret' = Outcome(TRUE, NULL, NULL, ObjectsAt(RealSlots))
    /\ UNCHANGED aliased

\* hash_table_free, and hash_table_new for the next table.
Free ==
    /\ Become([shift |-> MinShift, nnodes |-> 0, noccupied |-> 0,
               hashes |-> EmptyArrays(MinShift).hashes,
               keys   |-> EmptyArrays(MinShift).keys,
               values |-> EmptyArrays(MinShift).values])
    /\ aliased' = TRUE
    /\ ret' = Outcome(TRUE, NULL, NULL, ObjectsAt(RealSlots))

\* hash_table_resize
Resize ==
    /\ Become(MaybeResize(Current))
    /\ UNCHANGED <<aliased, ret>>

Next ==
    \/ \E k \in KeyObject, b \in BOOLEAN :
          \E v \in Val \cup {k} : Insert(k, v, b)
    \/ \E r \in Rank : LookupExtended(r) \/ \E b \in BOOLEAN : RemoveInternal(r, b)
    \/ \E R \in SUBSET Rank : ForeachRemove(R)
    \/ RemoveAll \/ Free
    \/ Resize

Spec == Init /\ [][Next]_vars

-----------------------------------------------------------------------------
\* Every search ends, at the latest after it has visited as many slots as the
\* table has: tombstones never fill the table, and the triangular steps reach
\* every slot.  The probe loop itself has no other bound.
SearchEnds ==
    \A r \in Rank : \E n \in 0 .. Size(shift) - 1 :
        LET i == ProbeAt(HashValue(r), n, shift)
        IN hashes[i] = Unused \/ Holds(i, r)

\* After any mix of insertions, tombstone reuse and resizing the two counters,
\* which decide when the table is resized, agree with the slots.
CountsExact ==
    /\ nnodes = Cardinality(RealSlots)
    /\ noccupied = Cardinality({i \in DOMAIN hashes : hashes[i] # Unused})

\* Every entry is where a search for its key ends, past tombstones and after
\* rehashing; so no key is stored twice.
EntriesFound == \A i \in RealSlots : LookupNode(keys[i][1]) = i

Entries == {[key |-> keys[i], value |-> values[i]] : i \in RealSlots}
Contents == [r \in {e.key[1] : e \in Entries} |->
               CHOOSE e \in Entries : e.key[1] = r]

Dict == INSTANCE Dictionary WITH map <- Contents, Val <- Val \cup KeyObject

\* The table is a dictionary: every call changes the entries, returns and
\* passes to the destroy functions exactly what the dictionary says.
ImplementsDictionary == Dict!MSpec
=============================================================================
