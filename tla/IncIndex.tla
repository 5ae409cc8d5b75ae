------------------------------ MODULE IncIndex ------------------------------
(***************************************************************************)
(* The entry-key index of one incremental table (data/incIndex): keys is a *)
(* list with one slot per row, NoKey in the slot of a row without a key,   *)
(* and positions maps each key to its slot. Rows count from 0, sequences   *)
(* from 1. Each operation is a function of that pair, run under idx.mu.    *)
(***************************************************************************)
EXTENDS Integers, Sequences

CONSTANTS EntryKeys, NoKey

ASSUME NoKeyAssumption == NoKey \notin EntryKeys

Slots == EntryKeys \cup {NoKey}
Table(t) ==
    /\ t = [keys |-> t.keys, positions |-> t.positions]
    /\ t.keys \in Seq(Slots)
    /\ DOMAIN t.positions \subseteq EntryKeys
    /\ t.positions \in [DOMAIN t.positions -> Nat]

EmptyIndex == [keys |-> <<>>, positions |-> [k \in {} |-> 0]]

\* ensureLength
Pad(keys, length) ==
    [i \in 1 .. (IF length > Len(keys) THEN length ELSE Len(keys)) |->
        IF i <= Len(keys) THEN keys[i] ELSE NoKey]

\* The keys that slots pos and later name, and the last of the slots that
\* names one of them: reindexFrom and load go through the slots in order.
KeysFrom(keys, pos) ==
    {k \in EntryKeys : \E i \in 1 .. Len(keys) : i > pos /\ keys[i] = k}
LastSlot(keys, k) ==
    CHOOSE i \in 1 .. Len(keys) :
        keys[i] = k /\ \A j \in 1 .. Len(keys) : j > i => keys[j] # k

ReindexFrom(keys, positions, pos) ==
    [k \in DOMAIN positions \cup KeysFrom(keys, pos) |->
        IF k \in KeysFrom(keys, pos) THEN LastSlot(keys, k) - 1 ELSE positions[k]]

\* Variant: slots are counted from 1.
LoadFromOne(keys) ==
    [keys |-> keys, positions |-> [k \in KeysFrom(keys, 0) |-> LastSlot(keys, k)]]
Load(keys) == [keys |-> keys, positions |-> ReindexFrom(keys, [k \in {} |-> 0], 0)]

\* Variant: no duplicate is found.
HasNever(t, key) == FALSE
Has(t, key) == key \in DOMAIN t.positions

\* A slot for the key opens at pos, those from pos on move up by one.
Opened(keys, pos, key) ==
    [i \in 1 .. Len(keys) + 1 |->
        IF i <= pos THEN keys[i] ELSE IF i = pos + 1 THEN key ELSE keys[i - 1]]

\* Variant: the rows after pos are not indexed again.
InsertOnly(t, pos, key) ==
    LET keys == Opened(Pad(t.keys, pos), pos, key)
    IN  [keys |-> keys,
         positions |-> [k \in DOMAIN t.positions \cup {key} |->
                           IF k = key THEN pos ELSE t.positions[k]]]

Insert(t, pos, key) ==
    LET keys == Opened(Pad(t.keys, pos), pos, key)
    IN  [keys |-> keys, positions |-> ReindexFrom(keys, t.positions, pos)]

\* Set names the slot at pos: the key it had is forgotten.
Set(t, pos, key) ==
    LET padded == Pad(t.keys, pos + 1)
        old    == padded[pos + 1]
    IN  [keys |-> [padded EXCEPT ![pos + 1] = key],
         positions |->
            [k \in (DOMAIN t.positions \ {old}) \cup {key} |->
                IF k = key THEN pos ELSE t.positions[k]]]

\* ErrDuplicateKey of Set: the key names another slot.
TakenElsewhere(t, pos, key) == Has(t, key) /\ Pad(t.keys, pos + 1)[pos + 1] # key

-----------------------------------------------------------------------------
\* keys and positions are inverse to each other.
OneToOne(t) ==
    /\ \A k \in DOMAIN t.positions :
          /\ t.positions[k] + 1 \in DOMAIN t.keys
          /\ t.keys[t.positions[k] + 1] = k
    /\ \A i \in DOMAIN t.keys : t.keys[i] # NoKey =>
          t.keys[i] \in DOMAIN t.positions /\ t.positions[t.keys[i]] = i - 1
=============================================================================
