--------------------------- MODULE IncTable_proofs ---------------------------
(***************************************************************************)
(* Theorems about an incremental table: what DecodeIncEntry makes of the   *)
(* rows of EncodeIncEntry, what the operations of the entry-key index keep *)
(* and, for any clients and requests, the types of the state, the index    *)
(* one-to-one, the answered id the place of the row, the rows kept.        *)
(***************************************************************************)
EXTENDS IncTable, SequenceTheorems, FiniteSetTheorems, WellFoundedInduction, TLAPS

-----------------------------------------------------------------------------
(* Rows *)

\* An encoded row has the length of every row of its table, and nothing but zeros in
\* front of its marker (EncodeIncEntry).
LEMMA EncodedRow ==
    ASSUME NEW size \in Nat, NEW body \in Seq(Byte), Len(body) <= size
    PROVE  LET row == EncodeIncEntry(size, body)
               m == MarkerOf(size, body)
           IN  /\ row \in Seq(Byte) /\ Len(row) = RowLength(size)
               /\ m \in 3 .. RowLength(size)
               /\ row[m] = Marker
               /\ \A i \in 1 .. m - 1 : row[i] = 0
               /\ \A i \in 1 .. Len(body) : row[m + i] = body[i]
<1> DEFINE row == EncodeIncEntry(size, body)
           m == MarkerOf(size, body)
           n == RowLength(size)
<1>1. n \in Nat /\ m \in 3 .. n /\ Len(body) \in Nat /\ n = m + Len(body)
  BY DEF RowLength, MarkerOf
<1>2. row = [i \in 1 .. n |-> IF i < m THEN 0 ELSE IF i = m THEN Marker ELSE body[i - m]]
  BY DEF EncodeIncEntry
<1>3. \A i \in 1 .. Len(body) : body[i] \in Byte
  OBVIOUS
<1> HIDE DEF row, m, n
<1>4. \A i \in 1 .. n :
          (IF i < m THEN 0 ELSE IF i = m THEN Marker ELSE body[i - m]) \in Byte
  <2> SUFFICES ASSUME NEW i \in 1 .. n, i > m PROVE body[i - m] \in Byte
    BY <1>1 DEF Byte, Marker
  <2>1. i - m \in 1 .. Len(body)
    BY <1>1
  <2> QED BY <2>1, <1>3
<1>5. row \in Seq(Byte) /\ Len(row) = n
  BY <1>1, <1>2, <1>4
<1>6. row[m] = Marker /\ \A i \in 1 .. m - 1 : row[i] = 0
  BY <1>1, <1>2
<1>7. \A i \in 1 .. Len(body) : row[m + i] = body[i]
  <2> SUFFICES ASSUME NEW i \in 1 .. Len(body) PROVE row[m + i] = body[i]
    OBVIOUS
  <2>1. m + i \in 1 .. n /\ m + i > m /\ (m + i) - m = i
    BY <1>1
  <2> QED BY <2>1, <1>1, <1>2
<1> QED BY <1>1, <1>5, <1>6, <1>7 DEF row, m, n

\* A body comes back from its row whatever bytes it has, be they zeros in front or
\* the byte of the marker (EncodeIncEntry, DecodeIncEntry).
THEOREM RowRoundTrip ==
    ASSUME NEW size \in Nat, NEW body \in Seq(Byte), Len(body) <= size
    PROVE  DecodeIncEntry(EncodeIncEntry(size, body)) = body
<1> DEFINE row == EncodeIncEntry(size, body)
           m == MarkerOf(size, body)
           n == RowLength(size)
<1>1. /\ row \in Seq(Byte) /\ Len(row) = n
      /\ m \in 3 .. n
      /\ row[m] = Marker
      /\ \A i \in 1 .. m - 1 : row[i] = 0
      /\ \A i \in 1 .. Len(body) : row[m + i] = body[i]
  BY EncodedRow
<1>2. n \in Nat /\ m \in Nat /\ Len(body) \in Nat /\ n = m + Len(body)
  BY DEF RowLength, MarkerOf
<1> HIDE DEF row, m, n
<1>3. row[1] = 0
  BY <1>1, <1>2
<1>4. ~Skipped(row)
  BY <1>3 DEF Skipped
<1>5. m \in Markers(row) /\ \A j \in Markers(row) : m <= j
  <2>1. m \in Markers(row)
    BY <1>1, <1>2 DEF Markers
  <2>2. ASSUME NEW j \in Markers(row) PROVE m <= j
    <3>1. j \in 2 .. n /\ row[j] = Marker
      BY <1>1 DEF Markers
    <3> QED BY <3>1, <1>1, <1>2 DEF Marker
  <2> QED BY <2>1, <2>2
<1>6. \A i \in Markers(row) : i \in Nat
  BY <1>1, <1>2 DEF Markers
<1>7. FirstMarker(row) = m
  <2> DEFINE f == CHOOSE i \in Markers(row) : \A j \in Markers(row) : i <= j
  <2>1. \E i \in Markers(row) : \A j \in Markers(row) : i <= j
    BY <1>5
  <2>2. f \in Markers(row) /\ \A j \in Markers(row) : f <= j
    BY <2>1
  <2>3. FirstMarker(row) = f
    BY DEF FirstMarker
  <2> HIDE DEF f
  <2>4. f \in Nat /\ f <= m /\ m <= f
    BY <1>5, <1>6, <2>2
  <2> QED BY <1>2, <2>3, <2>4
<1>8. DecodeIncEntry(row) = SubSeq(row, m + 1, n)
  BY <1>1, <1>4, <1>5, <1>7 DEF DecodeIncEntry
<1> DEFINE tail == SubSeq(row, m + 1, n)
<1>9. tail \in Seq(Byte) /\ Len(tail) = Len(body)
      /\ \A i \in 1 .. Len(body) : tail[i] = row[m + i]
  BY <1>1, <1>2, SubSeqProperties
<1>10. tail = body
  BY <1>1, <1>9, SeqEqual
<1> QED BY <1>8, <1>10 DEF row

\* A set of natural numbers that has a member has a least one.
LEMMA LeastNatural ==
    ASSUME NEW S \in SUBSET Nat, S # {}
    PROVE  \E i \in S : \A j \in S : i <= j
<1>1. IsWellFoundedOn(OpToRel(<, Nat), Nat)
  BY NatLessThanWellFounded, Zenon
<1>2. PICK i \in S : \A j \in S : <<j, i>> \notin OpToRel(<, Nat)
  BY <1>1, WFMin, Zenon
<1>3. ASSUME NEW j \in S PROVE i <= j
  <2>1. ~(j < i)
    BY <1>2 DEF OpToRel
  <2> QED BY <2>1
<1> QED BY <1>3

\* Whatever row is decoded, the answer is bytes (DecodeIncEntry).
LEMMA DecodedRow ==
    ASSUME NEW row \in Seq(Byte)
    PROVE  DecodeIncEntry(row) \in Seq(Byte)
<1> DEFINE m == FirstMarker(row)
<1>1. CASE Skipped(row) \/ Markers(row) = {}
  BY <1>1 DEF DecodeIncEntry
<1>2. CASE ~(Skipped(row) \/ Markers(row) = {})
  <2>1. Markers(row) \in SUBSET Nat
    BY DEF Markers
  <2>2. \E i \in Markers(row) : \A j \in Markers(row) : i <= j
    BY <1>2, <2>1, LeastNatural
  <2>3. m \in Markers(row)
    BY <2>2 DEF FirstMarker
  <2>4. m \in 2 .. Len(row) /\ Len(row) \in Nat
    BY <2>3 DEF Markers
  <2>5. DecodeIncEntry(row) = SubSeq(row, m + 1, Len(row))
    BY <1>2 DEF DecodeIncEntry
  <2> HIDE DEF m
  <2>6. \A i \in m + 1 .. Len(row) : row[i] \in Byte
    BY <2>4
  <2> QED BY <2>4, <2>5, <2>6, SubSeqProperties
<1> QED BY <1>1, <1>2

-----------------------------------------------------------------------------
(* The entry-key index *)

\* No two slots of a list name the same key.
Distinct(keys) ==
    \A i, j \in DOMAIN keys : keys[i] = keys[j] /\ keys[i] # NoKey => i = j

Good(t) == Table(t) /\ OneToOne(t)

\* Padding keeps every slot and adds empty ones (ensureLength).
LEMMA PadFacts ==
    ASSUME NEW keys \in Seq(Slots), NEW n \in Nat
    PROVE  LET p == Pad(keys, n)
           IN  /\ p \in Seq(Slots)
               /\ Len(p) = IF n > Len(keys) THEN n ELSE Len(keys)
               /\ \A i \in 1 .. Len(keys) : p[i] = keys[i]
               /\ \A i \in 1 .. Len(p) : i > Len(keys) => p[i] = NoKey
<1> DEFINE p == Pad(keys, n)
           m == IF n > Len(keys) THEN n ELSE Len(keys)
<1>1. Len(keys) \in Nat /\ m \in Nat /\ m >= Len(keys)
  OBVIOUS
<1>2. p = [i \in 1 .. m |-> IF i <= Len(keys) THEN keys[i] ELSE NoKey]
  BY DEF Pad
<1>3. \A i \in 1 .. Len(keys) : keys[i] \in Slots
  OBVIOUS
<1> HIDE DEF p, m
<1>4. \A i \in 1 .. m : (IF i <= Len(keys) THEN keys[i] ELSE NoKey) \in Slots
  BY <1>1, <1>3 DEF Slots
<1>5. p \in Seq(Slots) /\ Len(p) = m
  BY <1>1, <1>2, <1>4
<1>6. \A i \in 1 .. Len(keys) : p[i] = keys[i]
  BY <1>1, <1>2
<1>7. \A i \in 1 .. Len(p) : i > Len(keys) => p[i] = NoKey
  BY <1>1, <1>2, <1>5
<1> QED BY <1>5, <1>6, <1>7 DEF p, m

\* Padding leaves a one-to-one index one-to-one (ensureLength).
LEMMA PadGood ==
    ASSUME NEW t, Good(t), NEW n \in Nat
    PROVE  Good([t EXCEPT !.keys = Pad(@, n)])
<1> DEFINE p == Pad(t.keys, n)
           u == [t EXCEPT !.keys = p]
<1>1. /\ t = [keys |-> t.keys, positions |-> t.positions]
      /\ t.keys \in Seq(Slots) /\ Len(t.keys) \in Nat
      /\ DOMAIN t.keys = 1 .. Len(t.keys)
  BY DEF Good, Table
<1>2. /\ p \in Seq(Slots) /\ DOMAIN p = 1 .. Len(p)
      /\ Len(p) >= Len(t.keys) /\ Len(p) \in Nat
      /\ \A i \in 1 .. Len(t.keys) : p[i] = t.keys[i]
      /\ \A i \in 1 .. Len(p) : i > Len(t.keys) => p[i] = NoKey
  BY <1>1, PadFacts
<1> HIDE DEF p
<1>3. u = [keys |-> p, positions |-> t.positions]
  BY <1>1
<1> HIDE DEF u
<1>4. u.keys = p /\ u.positions = t.positions
  BY <1>3
<1>5. Table(u)
  BY <1>2, <1>3, <1>4 DEF Good, Table
<1>6. OneToOne(u)
  <2>1. ASSUME NEW k \in DOMAIN t.positions
        PROVE  t.positions[k] + 1 \in DOMAIN p /\ p[t.positions[k] + 1] = k
    BY <1>1, <1>2 DEF Good, Table, OneToOne
  <2>2. ASSUME NEW i \in DOMAIN p, p[i] # NoKey
        PROVE  p[i] \in DOMAIN t.positions /\ t.positions[p[i]] = i - 1
    <3>1. i \in 1 .. Len(t.keys) /\ p[i] = t.keys[i]
      BY <1>1, <1>2, <2>2
    <3> QED BY <3>1, <2>2, <1>1 DEF Good, OneToOne
  <2> QED BY <1>4, <2>1, <2>2 DEF OneToOne
<1> QED BY <1>1, <1>5, <1>6 DEF u, p, Good

\* The keys of a one-to-one index are distinct.
LEMMA GoodDistinct ==
    ASSUME NEW t, Good(t)
    PROVE  Distinct(t.keys)
<1> SUFFICES ASSUME NEW i \in DOMAIN t.keys, NEW j \in DOMAIN t.keys,
                    t.keys[i] = t.keys[j], t.keys[i] # NoKey
             PROVE  i = j
  BY DEF Distinct
<1>1. i \in Int /\ j \in Int
  BY DEF Good, Table
<1>2. t.positions[t.keys[i]] = i - 1 /\ t.positions[t.keys[j]] = j - 1
  BY DEF Good, OneToOne
<1> QED BY <1>1, <1>2

\* Of distinct keys, the last slot of a key is its only one (reindexFrom).
LEMMA LastSlotOf ==
    ASSUME NEW keys \in Seq(Slots), Distinct(keys),
           NEW i \in 1 .. Len(keys), keys[i] # NoKey
    PROVE  LastSlot(keys, keys[i]) = i
<1> DEFINE P(x) == keys[x] = keys[i] /\ \A j \in 1 .. Len(keys) : j > x => keys[j] # keys[i]
<1>1. P(i)
  BY DEF Distinct
<1>2. \A x \in 1 .. Len(keys) : P(x) => x = i
  BY DEF Distinct
<1>3. LastSlot(keys, keys[i]) = CHOOSE x \in 1 .. Len(keys) : P(x)
  BY DEF LastSlot
<1> HIDE DEF P
<1> QED BY <1>1, <1>2, <1>3

\* Indexing distinct keys anew from pos on gives a one-to-one index, when the slots
\* below pos and the keys that are in none of the others were right (reindexFrom).
LEMMA ReindexGood ==
    ASSUME NEW keys \in Seq(Slots), Distinct(keys), NEW pos \in Nat,
           NEW positions, DOMAIN positions \subseteq EntryKeys,
           positions \in [DOMAIN positions -> Nat],
           \A k \in DOMAIN positions \ KeysFrom(keys, pos) :
               positions[k] + 1 \in 1 .. Len(keys) /\ keys[positions[k] + 1] = k,
           \A i \in 1 .. Len(keys) : i <= pos /\ keys[i] # NoKey =>
               keys[i] \in DOMAIN positions /\ positions[keys[i]] = i - 1
    PROVE  Good([keys |-> keys, positions |-> ReindexFrom(keys, positions, pos)])
<1> DEFINE moved == KeysFrom(keys, pos)
           new == ReindexFrom(keys, positions, pos)
           u == [keys |-> keys, positions |-> new]
<1>1. new = [k \in DOMAIN positions \cup moved |->
                IF k \in moved THEN LastSlot(keys, k) - 1 ELSE positions[k]]
  BY DEF ReindexFrom
<1>2. moved \subseteq EntryKeys
  BY DEF KeysFrom
<1>3. ASSUME NEW i \in 1 .. Len(keys), keys[i] # NoKey, i > pos
      PROVE  keys[i] \in moved
  <2>1. keys[i] \in EntryKeys
    BY <1>3 DEF Slots
  <2> QED BY <2>1, <1>3 DEF KeysFrom
<1>4. ASSUME NEW k \in moved
      PROVE  \E i \in 1 .. Len(keys) :
                i > pos /\ keys[i] = k /\ k # NoKey /\ LastSlot(keys, k) = i
  <2>1. PICK i \in 1 .. Len(keys) : i > pos /\ keys[i] = k
    BY DEF KeysFrom
  <2>2. k # NoKey
    BY <1>2, NoKeyAssumption
  <2> QED BY <2>1, <2>2, LastSlotOf
<1> HIDE DEF moved, new
<1>5. ASSUME NEW k \in DOMAIN new
      PROVE  new[k] \in Nat /\ new[k] + 1 \in 1 .. Len(keys) /\ keys[new[k] + 1] = k
  <2>1. CASE k \in moved
    <3>1. PICK i \in 1 .. Len(keys) : keys[i] = k /\ LastSlot(keys, k) = i
      BY <2>1, <1>4
    <3>2. new[k] = i - 1
      BY <2>1, <3>1, <1>1
    <3>3. (i - 1) + 1 = i /\ i - 1 \in Nat
      OBVIOUS
    <3> QED BY <3>1, <3>2, <3>3
  <2>2. CASE k \notin moved
    <3>1. k \in DOMAIN positions \ moved /\ new[k] = positions[k]
      BY <2>2, <1>1, <1>5
    <3> QED BY <3>1 DEF moved
  <2> QED BY <2>1, <2>2
<1>6. ASSUME NEW i \in 1 .. Len(keys), keys[i] # NoKey
      PROVE  keys[i] \in DOMAIN new /\ new[keys[i]] = i - 1
  <2>1. CASE keys[i] \in moved
    <3>1. LastSlot(keys, keys[i]) = i
      BY <1>6, LastSlotOf
    <3> QED BY <2>1, <3>1, <1>1
  <2>2. CASE keys[i] \notin moved
    <3>1. i <= pos
      BY <2>2, <1>3, <1>6
    <3>2. keys[i] \in DOMAIN positions /\ positions[keys[i]] = i - 1
      BY <3>1, <1>6
    <3> QED BY <2>2, <3>2, <1>1
  <2> QED BY <2>1, <2>2
<1>7. DOMAIN new \subseteq EntryKeys /\ new \in [DOMAIN new -> Nat]
  <2>1. DOMAIN new \subseteq EntryKeys
    BY <1>1, <1>2
  <2>2. new = [k \in DOMAIN new |-> new[k]]
    BY <1>1
  <2> QED BY <2>1, <2>2, <1>5
<1>8. DOMAIN keys = 1 .. Len(keys)
  OBVIOUS
<1> QED BY <1>5, <1>6, <1>7, <1>8 DEF Good, Table, OneToOne, new

\* A list of distinct keys is loaded as a one-to-one index, and no other (load).
LEMMA LoadGood ==
    ASSUME NEW keys \in Seq(Slots)
    PROVE  /\ Distinct(keys) => Good(Load(keys))
           /\ OneToOne(Load(keys)) => Distinct(keys)
<1> DEFINE none == [k \in {} |-> 0]
<1>1. ASSUME Distinct(keys) PROVE Good(Load(keys))
  <2>1. DOMAIN none = {} /\ none \in [{} -> Nat] /\ 0 \in Nat
    OBVIOUS
  <2>2. \A i \in 1 .. Len(keys) : ~(i <= 0)
    OBVIOUS
  <2> HIDE DEF none
  <2>3. Good([keys |-> keys, positions |-> ReindexFrom(keys, none, 0)])
    BY <1>1, <2>1, <2>2, ReindexGood
  <2> QED BY <2>3 DEF Load, none
<1>2. ASSUME OneToOne(Load(keys)) PROVE Distinct(keys)
  <2>1. Load(keys).keys = keys
    BY DEF Load
  <2>2. ASSUME NEW i \in DOMAIN keys, NEW j \in DOMAIN keys,
               keys[i] = keys[j], keys[i] # NoKey
        PROVE  i = j
    <3>1. i \in Int /\ j \in Int
      OBVIOUS
    <3>2. /\ Load(keys).positions[keys[i]] = i - 1
          /\ Load(keys).positions[keys[j]] = j - 1
      BY <1>2, <2>1, <2>2 DEF OneToOne
    <3> QED BY <3>1, <3>2, <2>2
  <2> QED BY <2>2 DEF Distinct
<1> QED BY <1>1, <1>2

\* Opening a slot keeps the others, those behind it one place up (Insert).
LEMMA OpenedFacts ==
    ASSUME NEW keys \in Seq(Slots), NEW pos \in 0 .. Len(keys), NEW key \in Slots
    PROVE  LET new == Opened(keys, pos, key)
           IN  /\ new \in Seq(Slots) /\ Len(new) = Len(keys) + 1
               /\ new[pos + 1] = key
               /\ \A i \in 1 .. pos : new[i] = keys[i]
               /\ \A i \in pos + 1 .. Len(keys) : new[i + 1] = keys[i]
<1> DEFINE new == Opened(keys, pos, key)
           n == Len(keys)
           V(i) == IF i <= pos THEN keys[i] ELSE IF i = pos + 1 THEN key ELSE keys[i - 1]
<1>1. n \in Nat /\ pos \in Nat /\ pos <= n
  OBVIOUS
<1>2. new = [i \in 1 .. n + 1 |-> V(i)]
  BY DEF Opened
<1>3. \A i \in 1 .. n : keys[i] \in Slots
  OBVIOUS
<1>4. ASSUME NEW i \in 1 .. n + 1 PROVE V(i) \in Slots
  <2>1. i <= pos => i \in 1 .. n
    BY <1>1
  <2>2. i > pos + 1 => i - 1 \in 1 .. n
    BY <1>1
  <2>3. i <= pos \/ i = pos + 1 \/ i > pos + 1
    BY <1>1
  <2> QED BY <1>3, <2>1, <2>2, <2>3
<1> HIDE DEF new, n
<1>5. new \in Seq(Slots) /\ Len(new) = n + 1
  <2> HIDE DEF V
  <2> QED BY <1>1, <1>2, <1>4
<1>6. new[pos + 1] = key
  BY <1>1, <1>2
<1>7. \A i \in 1 .. pos : new[i] = keys[i]
  BY <1>1, <1>2
<1>8. ASSUME NEW i \in pos + 1 .. n PROVE new[i + 1] = keys[i]
  <2>1. i + 1 \in 1 .. n + 1 /\ ~(i + 1 <= pos) /\ i + 1 # pos + 1 /\ (i + 1) - 1 = i
    BY <1>1
  <2> QED BY <1>2, <2>1
<1> QED BY <1>5, <1>6, <1>7, <1>8 DEF new, n

\* Insert keeps the index one-to-one, and writes distinct keys to the file.
LEMMA InsertGood ==
    ASSUME NEW t, Good(t), NEW pos \in Nat, NEW key \in EntryKeys, ~Has(t, key)
    PROVE  Good(Insert(t, pos, key))
<1> DEFINE padded == Pad(t.keys, pos)
           keys == Opened(padded, pos, key)
           n == Len(padded)
<1>1. /\ t.keys \in Seq(Slots) /\ Len(t.keys) \in Nat
      /\ DOMAIN t.keys = 1 .. Len(t.keys) /\ key \in Slots /\ key # NoKey
  BY NoKeyAssumption DEF Good, Table, Slots
<1>2. /\ padded \in Seq(Slots) /\ n \in Nat /\ n >= Len(t.keys) /\ n >= pos
      /\ \A i \in 1 .. Len(t.keys) : padded[i] = t.keys[i]
      /\ \A i \in 1 .. n : i > Len(t.keys) => padded[i] = NoKey
  BY <1>1, PadFacts
<1>3. pos \in 0 .. n
  BY <1>2
<1> HIDE DEF padded
<1>4. /\ keys \in Seq(Slots) /\ Len(keys) = n + 1
      /\ keys[pos + 1] = key
      /\ \A i \in 1 .. pos : keys[i] = padded[i]
      /\ \A i \in pos + 1 .. n : keys[i + 1] = padded[i]
  BY <1>1, <1>2, <1>3, OpenedFacts
<1> HIDE DEF keys, n
<1>5. ASSUME NEW i \in 1 .. n, padded[i] # NoKey
      PROVE  /\ i \in 1 .. Len(t.keys) /\ padded[i] = t.keys[i]
             /\ padded[i] \in DOMAIN t.positions /\ t.positions[padded[i]] = i - 1
             /\ padded[i] # key
  <2>1. i \in 1 .. Len(t.keys) /\ padded[i] = t.keys[i]
    BY <1>1, <1>2, <1>5
  <2>2. padded[i] \in DOMAIN t.positions /\ t.positions[padded[i]] = i - 1
    BY <1>1, <1>5, <2>1 DEF Good, OneToOne
  <2> QED BY <2>1, <2>2 DEF Has
<1>6. \* where the key of a new slot was
      ASSUME NEW i \in 1 .. n + 1, keys[i] # NoKey, i # pos + 1
      PROVE  /\ keys[i] # key /\ keys[i] \in DOMAIN t.positions
             /\ t.positions[keys[i]] = IF i <= pos THEN i - 1 ELSE i - 2
  <2>1. CASE i <= pos
    <3>1. i \in 1 .. n /\ i \in 1 .. pos
      BY <1>2, <2>1
    <3>2. keys[i] = padded[i]
      BY <1>4, <3>1
    <3> QED BY <3>1, <3>2, <1>5, <1>6, <2>1
  <2>2. CASE ~(i <= pos)
    <3>1. i - 1 \in pos + 1 .. n /\ i - 1 \in 1 .. n /\ (i - 1) + 1 = i /\ (i - 1) - 1 = i - 2
      BY <1>2, <1>6, <2>2
    <3>2. keys[i] = padded[i - 1]
      BY <1>4, <3>1
    <3> QED BY <3>1, <3>2, <1>5, <1>6, <2>2
  <2> QED BY <2>1, <2>2
<1>7. Distinct(keys)
  <2> SUFFICES ASSUME NEW i \in 1 .. n + 1, NEW j \in 1 .. n + 1,
                      keys[i] = keys[j], keys[i] # NoKey
               PROVE  i = j
    BY <1>4 DEF Distinct
  <2>1. CASE i = pos + 1 \/ j = pos + 1
    BY <2>1, <1>4, <1>6
  <2>2. CASE i # pos + 1 /\ j # pos + 1
    <3>1. (IF i <= pos THEN i - 1 ELSE i - 2) = (IF j <= pos THEN j - 1 ELSE j - 2)
      BY <2>2, <1>6
    <3> QED BY <3>1, <2>2, <1>2
  <2> QED BY <2>1, <2>2
<1>8. ASSUME NEW k \in DOMAIN t.positions \ KeysFrom(keys, pos)
      PROVE  t.positions[k] + 1 \in 1 .. Len(keys) /\ keys[t.positions[k] + 1] = k
  <2> DEFINE i == t.positions[k] + 1
  <2>1. /\ i \in 1 .. Len(t.keys) /\ t.keys[i] = k /\ k \in EntryKeys
    BY <1>1 DEF Good, Table, OneToOne
  <2> HIDE DEF i
  <2>2. i \in 1 .. n /\ padded[i] = k
    BY <1>1, <1>2, <2>1
  <2>3. i <= pos
    <3> SUFFICES ASSUME i > pos PROVE FALSE
      BY <1>2, <2>2
    <3>1. i \in pos + 1 .. n /\ i + 1 \in 1 .. Len(keys) /\ i + 1 > pos
      BY <1>2, <1>4, <2>2
    <3>2. keys[i + 1] = k
      BY <1>4, <2>2, <3>1
    <3> QED BY <2>1, <3>1, <3>2 DEF KeysFrom
  <2>4. keys[i] = k /\ i \in 1 .. Len(keys)
    BY <1>2, <1>4, <2>2, <2>3
  <2> QED BY <2>4 DEF i
<1>9. ASSUME NEW i \in 1 .. Len(keys), i <= pos, keys[i] # NoKey
      PROVE  keys[i] \in DOMAIN t.positions /\ t.positions[keys[i]] = i - 1
  BY <1>2, <1>4, <1>6, <1>9
<1>10. DOMAIN t.positions \subseteq EntryKeys /\ t.positions \in [DOMAIN t.positions -> Nat]
  BY DEF Good, Table
<1>11. Good([keys |-> keys, positions |-> ReindexFrom(keys, t.positions, pos)])
  BY <1>4, <1>7, <1>8, <1>9, <1>10, ReindexGood
<1> QED BY <1>11 DEF Insert, keys, padded

\* Set, of a key that no other slot has, keeps the index one-to-one.
LEMMA SetGood ==
    ASSUME NEW t, Good(t), NEW pos \in Nat, NEW key \in EntryKeys,
           ~TakenElsewhere(t, pos, key)
    PROVE  Good(Set(t, pos, key))
<1> DEFINE padded == Pad(t.keys, pos + 1)
           old == padded[pos + 1]
           keys == [padded EXCEPT ![pos + 1] = key]
           positions == [k \in (DOMAIN t.positions \ {old}) \cup {key} |->
                            IF k = key THEN pos ELSE t.positions[k]]
           u == [t EXCEPT !.keys = padded]
<1>1. /\ t.keys \in Seq(Slots) /\ Len(t.keys) \in Nat /\ key \in Slots /\ key # NoKey
      /\ t = [keys |-> t.keys, positions |-> t.positions]
  BY NoKeyAssumption DEF Good, Table, Slots
<1>2. padded \in Seq(Slots) /\ pos + 1 \in 1 .. Len(padded)
  <2>1. PICK n \in Nat : n = pos + 1
    OBVIOUS
  <2>2. /\ Pad(t.keys, n) \in Seq(Slots)
        /\ Len(Pad(t.keys, n)) = IF n > Len(t.keys) THEN n ELSE Len(t.keys)
    BY <1>1, PadFacts
  <2> QED BY <1>1, <2>1, <2>2
<1>3. Good(u) /\ u.keys = padded /\ u.positions = t.positions
  <2>1. PICK n \in Nat : n = pos + 1
    OBVIOUS
  <2>2. Good([t EXCEPT !.keys = Pad(@, n)])
    BY PadGood
  <2>3. u = [t EXCEPT !.keys = Pad(@, n)] /\ u = [keys |-> padded, positions |-> t.positions]
    BY <1>1, <2>1
  <2> HIDE DEF u, padded
  <2> QED BY <2>2, <2>3
<1>4. Distinct(padded)
  BY <1>3, GoodDistinct
<1>5. old # key => key \notin DOMAIN t.positions
  BY DEF TakenElsewhere, Has
<1>6. /\ DOMAIN t.positions \subseteq EntryKeys /\ t.positions \in [DOMAIN t.positions -> Nat]
      /\ DOMAIN padded = 1 .. Len(padded)
  BY <1>2 DEF Good, Table
<1> HIDE DEF padded, u
<1>7. /\ keys \in Seq(Slots) /\ DOMAIN keys = DOMAIN padded /\ keys[pos + 1] = key
      /\ \A i \in DOMAIN padded : i # pos + 1 => keys[i] = padded[i]
  BY <1>1, <1>2
<1>8. /\ DOMAIN positions = (DOMAIN t.positions \ {old}) \cup {key}
      /\ positions[key] = pos
      /\ \A k \in DOMAIN t.positions \ {old} : k # key => positions[k] = t.positions[k]
  OBVIOUS
<1>9. DOMAIN positions \subseteq EntryKeys /\ positions \in [DOMAIN positions -> Nat]
  BY <1>6
<1> HIDE DEF keys, positions, old
<1>10. ASSUME NEW k \in DOMAIN positions
       PROVE  positions[k] + 1 \in DOMAIN keys /\ keys[positions[k] + 1] = k
  <2>1. CASE k = key
    BY <2>1, <1>2, <1>6, <1>7, <1>8
  <2>2. CASE k # key
    <3>1. k \in DOMAIN t.positions /\ k # old /\ positions[k] = t.positions[k]
      BY <2>2, <1>8, <1>10
    <3>2. t.positions[k] + 1 \in DOMAIN padded /\ padded[t.positions[k] + 1] = k
      BY <3>1, <1>3 DEF Good, OneToOne
    <3>3. t.positions[k] + 1 # pos + 1
      BY <3>1, <3>2 DEF old
    <3> QED BY <3>1, <3>2, <3>3, <1>7
  <2> QED BY <2>1, <2>2
<1>11. ASSUME NEW i \in DOMAIN keys, keys[i] # NoKey
       PROVE  keys[i] \in DOMAIN positions /\ positions[keys[i]] = i - 1
  <2>1. CASE i = pos + 1
    <3>1. keys[i] = key /\ i - 1 = pos
      BY <2>1, <1>7
    <3> QED BY <3>1, <1>8
  <2>2. CASE i # pos + 1
    <3>1. i \in DOMAIN padded /\ keys[i] = padded[i] /\ padded[i] # NoKey
      BY <2>2, <1>7, <1>11
    <3>2. padded[i] \in DOMAIN t.positions /\ t.positions[padded[i]] = i - 1
      BY <3>1, <1>3 DEF Good, OneToOne
    <3>3. padded[i] # old
      BY <2>2, <3>1, <1>2, <1>4, <1>6 DEF Distinct, old
    <3>4. padded[i] # key
      BY <3>2, <3>3, <1>5
    <3> QED BY <3>1, <3>2, <3>3, <3>4, <1>8
  <2> QED BY <2>1, <2>2
<1>12. Good([keys |-> keys, positions |-> positions])
  BY <1>7, <1>9, <1>10, <1>11 DEF Good, Table, OneToOne
<1>13. Set(t, pos, key) = [keys |-> keys, positions |-> positions]
  BY DEF Set, keys, positions, old, padded
<1> QED BY <1>12, <1>13

-----------------------------------------------------------------------------
(* The queue of the worker *)

\* Appending adds one member.
LEMMA InAppend ==
    ASSUME NEW S, NEW s \in Seq(S), NEW x \in S
    PROVE  /\ \A c : In(Append(s, x), c) <=> In(s, c) \/ c = x
           /\ Once(s) /\ ~In(s, x) => Once(Append(s, x))
<1> DEFINE u == Append(s, x)
           n == Len(s)
<1>1. /\ n \in Nat /\ DOMAIN s = 1 .. n /\ u \in Seq(S) /\ Len(u) = n + 1
      /\ DOMAIN u = 1 .. n + 1
      /\ \A i \in 1 .. n : u[i] = s[i]
      /\ u[n + 1] = x
  BY AppendProperties
<1> HIDE DEF u, n
<1>2. ASSUME NEW c PROVE In(u, c) <=> In(s, c) \/ c = x
  <2>1. ASSUME In(u, c) PROVE In(s, c) \/ c = x
    <3>1. PICK i \in 1 .. n + 1 : u[i] = c
      BY <1>1, <2>1 DEF In
    <3>2. i = n + 1 \/ i \in 1 .. n
      BY <1>1
    <3> QED BY <1>1, <3>1, <3>2 DEF In
  <2>2. ASSUME In(s, c) PROVE In(u, c)
    <3>1. PICK i \in 1 .. n : s[i] = c
      BY <1>1, <2>2 DEF In
    <3>2. i \in 1 .. n + 1
      BY <1>1
    <3> QED BY <1>1, <3>1, <3>2 DEF In
  <2>3. In(u, x)
    <3>1. n + 1 \in 1 .. n + 1
      BY <1>1
    <3> QED BY <1>1, <3>1 DEF In
  <2> QED BY <2>1, <2>2, <2>3
<1>3. ASSUME Once(s), ~In(s, x) PROVE Once(u)
  <2> SUFFICES ASSUME NEW i \in 1 .. n + 1, NEW j \in 1 .. n + 1, u[i] = u[j]
               PROVE  i = j
    BY <1>1 DEF Once
  <2>1. (i = n + 1 \/ i \in 1 .. n) /\ (j = n + 1 \/ j \in 1 .. n)
    BY <1>1
  <2> QED BY <1>1, <1>3, <2>1 DEF Once, In
<1> QED BY <1>2, <1>3 DEF u

\* Taking the head removes that member.
LEMMA InTail ==
    ASSUME NEW S, NEW s \in Seq(S), s # <<>>, Once(s)
    PROVE  /\ Head(s) \in S /\ Tail(s) \in Seq(S) /\ In(s, Head(s))
           /\ \A c : In(Tail(s), c) <=> In(s, c) /\ c # Head(s)
           /\ Once(Tail(s))
<1> DEFINE u == Tail(s)
           n == Len(s)
<1>1. /\ n \in Nat /\ n > 0 /\ DOMAIN s = 1 .. n /\ u \in Seq(S) /\ Len(u) = n - 1
      /\ DOMAIN u = 1 .. n - 1 /\ Head(s) = s[1] /\ Head(s) \in S
      /\ \A i \in 1 .. n - 1 : u[i] = s[i + 1]
  BY HeadTailProperties
<1> HIDE DEF u, n
<1>2. In(s, Head(s))
  <2>1. 1 \in 1 .. n
    BY <1>1
  <2> QED BY <1>1, <2>1 DEF In
<1>3. ASSUME NEW c PROVE In(u, c) <=> In(s, c) /\ c # Head(s)
  <2>1. ASSUME In(u, c) PROVE In(s, c) /\ c # Head(s)
    <3>1. PICK i \in 1 .. n - 1 : u[i] = c
      BY <1>1, <2>1 DEF In
    <3>2. i + 1 \in 1 .. n /\ i + 1 # 1 /\ s[i + 1] = c /\ 1 \in 1 .. n
      BY <1>1, <3>1
    <3>3. s[1] # c
      BY <1>1, <3>2 DEF Once
    <3> QED BY <1>1, <3>2, <3>3 DEF In
  <2>2. ASSUME In(s, c), c # Head(s) PROVE In(u, c)
    <3>1. PICK i \in 1 .. n : s[i] = c
      BY <1>1, <2>2 DEF In
    <3>2. i # 1
      BY <1>1, <2>2, <3>1
    <3>3. i - 1 \in 1 .. n - 1 /\ (i - 1) + 1 = i
      BY <1>1, <3>2
    <3> QED BY <1>1, <3>1, <3>3 DEF In
  <2> QED BY <2>1, <2>2
<1>4. Once(u)
  <2> SUFFICES ASSUME NEW i \in 1 .. n - 1, NEW j \in 1 .. n - 1, u[i] = u[j]
               PROVE  i = j
    BY <1>1 DEF Once
  <2>1. i + 1 \in 1 .. n /\ j + 1 \in 1 .. n /\ s[i + 1] = s[j + 1]
    BY <1>1
  <2>2. i + 1 = j + 1
    BY <1>1, <2>1 DEF Once
  <2> QED BY <2>2
<1> QED BY <1>1, <1>2, <1>3, <1>4 DEF u

\* Serving one request removes it from the batch (executeBatch).
LEMMA InWithout ==
    ASSUME batch \in Seq(Clients), Once(batch), NEW i \in DOMAIN batch
    PROVE  /\ Without(i) \in Seq(Clients) /\ Len(Without(i)) = Len(batch) - 1
           /\ \A c : In(Without(i), c) <=> In(batch, c) /\ c # batch[i]
           /\ Once(Without(i))
<1> DEFINE u == Without(i)
           n == Len(batch)
<1>1. n \in Nat /\ DOMAIN batch = 1 .. n /\ i \in 1 .. n /\ n > 0 /\ n - 1 \in Nat
  OBVIOUS
<1>2. u = [j \in 1 .. n - 1 |-> IF j < i THEN batch[j] ELSE batch[j + 1]]
  BY DEF Without
<1> HIDE DEF u, n
<1>3. \A j \in 1 .. n - 1 : j \in 1 .. n /\ j + 1 \in 1 .. n
  BY <1>1
<1>4. \A j \in 1 .. n : batch[j] \in Clients
  BY <1>1
<1>5. \A j \in 1 .. n - 1 : (IF j < i THEN batch[j] ELSE batch[j + 1]) \in Clients
  BY <1>3, <1>4
<1>6. u \in Seq(Clients) /\ Len(u) = n - 1 /\ DOMAIN u = 1 .. n - 1
  BY <1>1, <1>2, <1>5
<1>7. \A j \in 1 .. n - 1 : /\ j < i => u[j] = batch[j]
                            /\ ~(j < i) => u[j] = batch[j + 1]
  BY <1>2
<1>8. ASSUME NEW c PROVE In(u, c) <=> In(batch, c) /\ c # batch[i]
  <2>1. ASSUME In(u, c) PROVE In(batch, c) /\ c # batch[i]
    <3>1. PICK j \in 1 .. n - 1 : u[j] = c
      BY <1>6, <2>1 DEF In
    <3>2. PICK k \in 1 .. n : k # i /\ batch[k] = c
      <4>1. CASE j < i
        BY <4>1, <3>1, <1>3, <1>7
      <4>2. CASE ~(j < i)
        <5>1. j + 1 # i /\ j + 1 \in 1 .. n
          BY <1>1, <1>3, <4>2
        <5> QED BY <5>1, <4>2, <3>1, <1>7
      <4> QED BY <4>1, <4>2
    <3> QED BY <1>1, <3>2 DEF In, Once
  <2>2. ASSUME In(batch, c), c # batch[i] PROVE In(u, c)
    <3>1. PICK k \in 1 .. n : k # i /\ batch[k] = c
      BY <1>1, <2>2 DEF In
    <3>2. CASE k < i
      <4>1. k \in 1 .. n - 1
        BY <1>1, <3>2
      <4> QED BY <4>1, <3>1, <3>2, <1>6, <1>7 DEF In
    <3>3. CASE k > i
      <4>1. k - 1 \in 1 .. n - 1 /\ ~(k - 1 < i) /\ (k - 1) + 1 = k
        BY <1>1, <3>3
      <4> QED BY <4>1, <3>1, <1>6, <1>7 DEF In
    <3> QED BY <1>1, <3>1, <3>2, <3>3
  <2> QED BY <2>1, <2>2
<1>9. Once(u)
  <2> SUFFICES ASSUME NEW j \in 1 .. n - 1, NEW k \in 1 .. n - 1, u[j] = u[k]
               PROVE  j = k
    BY <1>6 DEF Once
  <2> DEFINE at(x) == IF x < i THEN x ELSE x + 1
  <2>1. at(j) \in 1 .. n /\ at(k) \in 1 .. n
    BY <1>3
  <2>2. u[j] = batch[at(j)] /\ u[k] = batch[at(k)]
    BY <1>7
  <2>3. at(j) = at(k)
    <3> HIDE DEF at
    <3> QED BY <1>1, <2>1, <2>2 DEF Once
  <2> QED BY <2>3, <1>1
<1> QED BY <1>6, <1>8, <1>9 DEF u, n

-----------------------------------------------------------------------------
(* The rows that the worker writes *)

\* Making room for a row keeps the rows up to src where they are and moves the
\* others up by one (executeBatch, "reverse-copy").
LEMMA ShiftedFacts ==
    ASSUME rows \in Seq(Seq(Byte)), NEW size \in Nat, NEW pos, NEW src \in 0 .. Len(rows)
    PROVE  LET new == Shifted(size, pos, src)
           IN  /\ new \in Seq(Seq(Byte)) /\ Len(new) = Len(rows) + 1
               /\ \A i \in 1 .. src : new[i] = rows[i]
               /\ \A i \in src + 1 .. Len(rows) : new[i + 1] = rows[i]
<1> DEFINE new == Shifted(size, pos, src)
           n == Len(rows)
           zero == ZeroRow(size)
           V(i) == IF i > src + 1 THEN rows[i - 1] ELSE IF i <= n THEN rows[i] ELSE zero
<1>1. n \in Nat /\ src \in Nat /\ src <= n
  OBVIOUS
<1>2. new = [i \in 1 .. n + 1 |-> V(i)]
  BY DEF Shifted
<1>3. zero \in Seq(Byte)
  <2>1. PICK k \in Nat : k = RowLength(size)
    BY DEF RowLength
  <2>2. zero = [i \in 1 .. k |-> 0] /\ 0 \in Byte
    BY <2>1 DEF ZeroRow, Byte
  <2> HIDE DEF zero
  <2> QED BY <2>2
<1>4. \A i \in 1 .. n : rows[i] \in Seq(Byte)
  BY ElementOfSeq
<1> HIDE DEF zero, n, new
<1>5. ASSUME NEW i \in 1 .. n + 1 PROVE V(i) \in Seq(Byte)
  <2>1. i > src + 1 => i - 1 \in 1 .. n
    BY <1>1
  <2>2. i <= n => i \in 1 .. n
    BY <1>1
  <2> QED BY <1>3, <1>4, <2>1, <2>2
<1>6. new \in Seq(Seq(Byte)) /\ Len(new) = n + 1
  <2> HIDE DEF V
  <2> QED BY <1>1, <1>2, <1>5
<1>7. \A i \in 1 .. src : new[i] = rows[i]
  BY <1>1, <1>2
<1>8. ASSUME NEW i \in src + 1 .. n PROVE new[i + 1] = rows[i]
  <2>1. i + 1 \in 1 .. n + 1 /\ i + 1 > src + 1 /\ (i + 1) - 1 = i
    BY <1>1
  <2> QED BY <1>2, <2>1
<1> QED BY <1>6, <1>7, <1>8 DEF new, n

\* The fields of a handler.
LEMMA HandlerFields ==
    ASSUME NEW h \in Handler
    PROVE  /\ h.size \in Nat /\ h.pos \in Nat /\ h.obj \in Objects \cup {0}
           /\ h.r.id \in Nat /\ h.r.key \in Slots /\ h.r.from \in {"top", "bottom"}
           /\ h.r.op \in SaveOps \cup ReadOps \cup {"delete", "none"}
<1>1. h.size \in Sizes \cup {0} /\ h.pos \in Nat /\ h.obj \in Objects \cup {0}
  BY DEF Handler
<1>2. h.r \in Request(SaveOps \cup ReadOps \cup {"delete", "none"})
  BY DEF Handler
<1>3. h.size \in Nat
  <2>1. Sizes \subseteq Nat
    BY DataAssumption
  <2>2. \A x : x \in Sizes \cup {0} => x \in Nat
    BY <2>1
  <2> QED BY <1>1, <2>2
<1> QED BY <1>1, <1>2, <1>3 DEF Request

\* What the worker writes for a save: the row of its body at the place that it
\* answers, the other rows where they were or, behind an insert, one further.
LEMMA WrittenFacts ==
    ASSUME rows \in Seq(Seq(Byte)), Len(rows) <= MaxLength,
           NEW c \in Clients, req[c] \in Handler, req[c].r.op \in SaveOps,
           Fits(req[c].r, req[c].size), InRange(req[c].r)
    PROVE  LET r == req[c].r
               pos == EffID(r)
               new == Written(c)
               row == EncodeIncEntry(req[c].size, Body[r.key])
           IN  /\ row \in Seq(Byte) /\ DecodeIncEntry(row) = Body[r.key]
               /\ pos \in Nat /\ pos + 1 \in 1 .. Len(new) /\ new[pos + 1] = row
               /\ new \in Seq(Seq(Byte)) /\ Len(new) <= MaxLength
               /\ r.op # "overwrite" =>
                     /\ Len(new) = Len(rows) + 1 /\ pos \in 0 .. Len(rows)
                     /\ \A i \in 1 .. pos : new[i] = rows[i]
                     /\ \A i \in pos + 1 .. Len(rows) : new[i + 1] = rows[i]
               /\ r.op = "overwrite" =>
                     /\ Len(new) = Len(rows)
                     /\ \A i \in 1 .. Len(rows) : i # pos + 1 => new[i] = rows[i]
               /\ r.op = "append" => pos = Len(rows)
               /\ r.op # "append" =>
                     r.id = IF r.from = "top" THEN Len(new) - (pos + 1) ELSE pos
<1> DEFINE r == req[c].r
           size == req[c].size
           body == Body[r.key]
           pos == EffID(r)
           new == Written(c)
           row == EncodeIncEntry(size, body)
           n == Len(rows)
<1>1. /\ size \in Nat /\ r.id \in Nat /\ r.key \in Slots /\ r.op \in SaveOps
      /\ r.from \in {"top", "bottom"}
  BY HandlerFields
<1>2. body \in Seq(Byte) /\ Len(body) <= size
  BY <1>1, DataAssumption DEF Fits
<1>3. row \in Seq(Byte) /\ DecodeIncEntry(row) = body
  BY <1>1, <1>2, EncodedRow, RowRoundTrip
<1>4. n \in Nat /\ n <= MaxLength /\ MaxRows \in Nat /\ MaxLength \in Nat /\ MaxRows <= MaxLength
      /\ DOMAIN rows = 1 .. n
  BY CapacityAssumption
<1>5. InRange(r)
  OBVIOUS
<1>6. Written(c) = CASE r.op = "append" -> Append(rows, row)
                     [] r.op = "insert" -> [Shifted(size, pos, pos) EXCEPT ![pos + 1] = row]
                     [] OTHER -> [rows EXCEPT ![pos + 1] = row]
  BY DEF Written, Inserted
<1> HIDE DEF r, size, body, pos, new, row
<1>7. CASE r.op = "append"
  <2>1. pos = n /\ n < MaxRows
    BY <1>5, <1>7 DEF pos, EffID, InRange, n
  <2>2. new = Append(rows, row)
    BY <1>6, <1>7 DEF new
  <2>3. /\ new \in Seq(Seq(Byte)) /\ Len(new) = n + 1 /\ new[n + 1] = row
        /\ \A i \in 1 .. n : new[i] = rows[i]
    BY <1>3, <2>2, AppendProperties
  <2>4. /\ pos \in Nat /\ pos + 1 \in 1 .. Len(new) /\ new[pos + 1] = row
        /\ Len(new) <= MaxLength /\ pos \in 0 .. n
        /\ \A i \in 1 .. pos : new[i] = rows[i]
        /\ \A i \in pos + 1 .. n : new[i + 1] = rows[i]
    <3> HIDE DEF n
    <3> QED BY <1>4, <2>1, <2>3
  <2> QED BY <1>3, <1>7, <2>1, <2>3, <2>4 DEF r, size, body, pos, new, row
<1>8. CASE r.op = "insert"
  <2>1. /\ n < MaxRows /\ r.id <= n
        /\ pos = IF r.from = "top" THEN n - r.id ELSE r.id
    BY <1>1, <1>5, <1>8 DEF pos, EffID, InRange, n
  <2>2. pos \in 0 .. n /\ pos \in Nat
    <3> HIDE DEF n
    <3> QED BY <1>1, <1>4, <2>1
  <2> DEFINE moved == Shifted(size, pos, pos)
  <2>3. /\ moved \in Seq(Seq(Byte)) /\ Len(moved) = n + 1
        /\ \A i \in 1 .. pos : moved[i] = rows[i]
        /\ \A i \in pos + 1 .. n : moved[i + 1] = rows[i]
    BY <1>1, <2>2, ShiftedFacts
  <2>4. new = [moved EXCEPT ![pos + 1] = row]
    BY <1>6, <1>8 DEF new
  <2> HIDE DEF moved, n
  <2>5. pos + 1 \in 1 .. Len(moved) /\ Len(moved) \in Nat
    BY <1>4, <2>2, <2>3
  <2>6. /\ new \in Seq(Seq(Byte)) /\ Len(new) = n + 1 /\ new[pos + 1] = row
        /\ \A i \in 1 .. n + 1 : i # pos + 1 => new[i] = moved[i]
    BY <1>3, <2>3, <2>4, <2>5
  <2>7. ASSUME NEW i \in 1 .. pos PROVE new[i] = rows[i]
    <3>1. i \in 1 .. n + 1 /\ i # pos + 1
      BY <1>4, <2>2
    <3> QED BY <2>3, <2>6, <3>1
  <2>8. ASSUME NEW i \in pos + 1 .. n PROVE new[i + 1] = rows[i]
    <3>1. i + 1 \in 1 .. n + 1 /\ i + 1 # pos + 1
      BY <1>4, <2>2
    <3> QED BY <2>3, <2>6, <3>1
  <2>9. Len(new) <= MaxLength /\ pos + 1 \in 1 .. Len(new)
    BY <1>4, <2>1, <2>2, <2>6
  <2>10. r.id = IF r.from = "top" THEN Len(new) - (pos + 1) ELSE pos
    <3>1. Len(new) - (pos + 1) = n - pos
      BY <1>4, <2>2, <2>6
    <3>2. r.from = "top" => pos = n - r.id
      BY <2>1
    <3>3. r.from # "top" => pos = r.id
      BY <2>1
    <3> QED BY <1>1, <1>4, <3>1, <3>2, <3>3
  <2> QED BY <1>3, <1>8, <2>2, <2>6, <2>7, <2>8, <2>9, <2>10
       DEF r, size, body, pos, new, row, n
<1>9. CASE r.op = "overwrite"
  <2>1. /\ r.id < n
        /\ pos = IF r.from = "top" THEN n - 1 - r.id ELSE r.id
    BY <1>1, <1>5, <1>9 DEF pos, EffID, InRange, n
  <2> HIDE DEF n
  <2>2. pos \in Nat /\ pos + 1 \in 1 .. n
    <3>1. r.id \in Nat /\ n \in Nat
      BY <1>1, <1>4
    <3>2. CASE r.from = "top"
      <4>1. pos = n - 1 - r.id /\ r.id < n
        BY <2>1, <3>2
      <4> QED BY <3>1, <4>1
    <3>3. CASE r.from # "top"
      <4>1. pos = r.id /\ r.id < n
        BY <2>1, <3>3
      <4> QED BY <3>1, <4>1
    <3> QED BY <3>2, <3>3
  <2>3. new = [rows EXCEPT ![pos + 1] = row]
    BY <1>6, <1>9 DEF new
  <2>4. /\ new \in Seq(Seq(Byte)) /\ Len(new) = n /\ new[pos + 1] = row
        /\ \A i \in 1 .. n : i # pos + 1 => new[i] = rows[i]
    BY <1>3, <2>2, <2>3, ExceptSeq DEF n
  <2>5. r.id = IF r.from = "top" THEN Len(new) - (pos + 1) ELSE pos
    <3>1. Len(new) - (pos + 1) = n - 1 - pos
      BY <1>4, <2>2, <2>4
    <3>2. r.from = "top" => pos = n - 1 - r.id
      BY <2>1
    <3>3. r.from # "top" => pos = r.id
      BY <2>1
    <3> QED BY <1>1, <1>4, <3>1, <3>2, <3>3
  <2> QED BY <1>3, <1>4, <1>9, <2>2, <2>4, <2>5 DEF r, size, body, pos, new, row, n
<1> QED BY <1>1, <1>7, <1>8, <1>9 DEF SaveOps

\* A refused save leaves the rows, or adds one row of zeros.
LEMMA RefusedFacts ==
    ASSUME rows \in Seq(Seq(Byte)), Len(rows) <= MaxLength,
           NEW c \in Clients, req[c] \in Handler
    PROVE  LET new == Refused(c)
           IN  /\ new \in Seq(Seq(Byte)) /\ Len(new) <= MaxLength
               /\ Len(new) >= Len(rows)
               /\ \A i \in 1 .. Len(rows) : new[i] = rows[i]
<1>1. req[c].size \in Nat
  BY HandlerFields
<1> DEFINE zero == ZeroRow(req[c].size)
<1>2. zero \in Seq(Byte)
  <2>1. PICK k \in Nat : k = RowLength(req[c].size)
    BY <1>1 DEF RowLength
  <2>2. zero = [i \in 1 .. k |-> 0] /\ 0 \in Byte
    BY <2>1 DEF ZeroRow, Byte
  <2> HIDE DEF zero
  <2> QED BY <2>2
<1> HIDE DEF zero
<1>3. /\ Append(rows, zero) \in Seq(Seq(Byte)) /\ Len(Append(rows, zero)) = Len(rows) + 1
      /\ \A i \in 1 .. Len(rows) : Append(rows, zero)[i] = rows[i]
  BY <1>2, AppendProperties
<1> DEFINE P == req[c].r.op = "insert" /\ req[c].r.id <= Len(rows) /\ Len(rows) < MaxLength
<1>4. Refused(c) = IF P THEN Append(rows, zero) ELSE rows
  BY DEF Refused, zero
<1>5. Len(rows) \in Nat /\ MaxLength \in Nat /\ (P => Len(rows) < MaxLength)
  BY CapacityAssumption
<1> HIDE DEF P
<1>6. CASE P
  <2>1. Refused(c) = Append(rows, zero)
    BY <1>4, <1>6
  <2>2. Len(rows) + 1 <= MaxLength /\ Len(rows) + 1 >= Len(rows)
    BY <1>5, <1>6
  <2> QED BY <1>3, <2>1, <2>2
<1>7. CASE ~P
  <2>1. Refused(c) = rows /\ Len(rows) >= Len(rows)
    BY <1>4, <1>5, <1>7
  <2> QED BY <2>1
<1> QED BY <1>6, <1>7

-----------------------------------------------------------------------------
(* The inductive invariant: types, index objects that are one-to-one and held by *)
(* someone, a .idx file that would be loaded as one, who waits where.            *)

Values ==
    /\ meta \in Sizes \cup {NoTable}
    /\ rows \in Seq(Seq(Byte)) /\ Len(rows) <= MaxLength
    /\ chan \in Seq(Clients) /\ batch \in Seq(Clients) /\ running \in BOOLEAN
    /\ pc \in [Clients -> Steps] /\ req \in [Clients -> Handler]

GoodObjects(o) ==
    /\ o = [x \in DOMAIN o |-> o[x]] /\ DOMAIN o \subseteq Objects
    /\ \A x \in DOMAIN o : Good(o[x])

IndexOK ==
    /\ file \in Seq(Slots) /\ Distinct(file)
    /\ GoodObjects(objs)
    /\ cur \in DOMAIN objs \cup {0}

StepsOK == \A c \in Clients : StepOK(pc[c], req[c])

Inv == Values /\ IndexOK /\ ObjectsOK /\ StepsOK /\ QueueOK

LEMMA InvGives == Inv => TypeOK /\ IndexSound
<1> SUFFICES ASSUME Inv PROVE TypeOK /\ IndexSound
  OBVIOUS
<1>1. \A o \in DOMAIN objs : Table(objs[o]) /\ OneToOne(objs[o])
  BY DEF Inv, IndexOK, GoodObjects, Good
<1>2. OneToOne(Load(file))
  BY LoadGood DEF Inv, IndexOK, Good
<1>3. Types
  BY <1>1 DEF Inv, Values, IndexOK, GoodObjects, Types
<1>4. TypeOK
  BY <1>3 DEF Inv, StepsOK, TypeOK
<1> QED BY <1>1, <1>2, <1>4 DEF IndexSound

LEMMA IdleHandler == Idle \in Handler /\ Idle.obj = 0 /\ StepOK("idle", Idle)
<1>1. NoKey \in Slots /\ 0 \in Nat
  BY DEF Slots
<1>2. NoRequest \in Request(SaveOps \cup ReadOps \cup {"delete", "none"})
  BY <1>1 DEF NoRequest, Request
<1> QED BY <1>1, <1>2 DEF Idle, Handler, StepOK

LEMMA Initially == Init => Inv
<1> SUFFICES ASSUME Init PROVE Inv
  OBVIOUS
<1>1. Idle \in Handler
  BY IdleHandler
<1>2. Values
  <2>1. pc \in [Clients -> Steps]
    BY DEF Init, Steps
  <2>2. req \in [Clients -> Handler]
    BY <1>1 DEF Init
  <2>3. rows \in Seq(Seq(Byte)) /\ Len(rows) <= MaxLength
    <3>1. rows \in Seq(Seq(Byte)) /\ Len(rows) = 0
      BY DEF Init
    <3>2. MaxLength \in Nat
      BY CapacityAssumption
    <3> QED BY <3>1, <3>2
  <2>4. chan \in Seq(Clients)
    BY DEF Init
  <2>5. batch \in Seq(Clients)
    BY DEF Init
  <2>6. running \in BOOLEAN
    BY DEF Init
  <2>7. meta \in Sizes \cup {NoTable}
    BY DEF Init
  <2> QED BY <2>1, <2>2, <2>3, <2>4, <2>5, <2>6, <2>7 DEF Values
<1>3. IndexOK
  <2>1. DOMAIN NoObjects = {} /\ NoObjects = [x \in DOMAIN NoObjects |-> NoObjects[x]]
    BY DEF NoObjects
  <2>2. Distinct(<<>>)
    BY DEF Distinct
  <2> QED BY <2>1, <2>2 DEF Init, IndexOK, GoodObjects
<1>4. ObjectsOK
  <2>1. Held(Clients) = {}
    BY DEF Init, Held, Idle
  <2>2. DOMAIN objs = {}
    BY DEF Init, NoObjects
  <2> QED BY <2>1, <2>2 DEF Init, ObjectsOK, Holding, Idle
<1>5. StepsOK
  BY DEF Init, StepsOK, StepOK
<1>6. QueueOK
  BY DEF Init, QueueOK, Once, In
<1> QED BY <1>2, <1>3, <1>4, <1>5, <1>6 DEF Inv

\* Who holds an object, apart from one client.
LEMMA HeldSplit ==
    ASSUME NEW c \in Clients
    PROVE  Held(Clients) = Held(Clients \ {c}) \cup ({req[c].obj} \ {0})
BY DEF Held

\* Objects that nobody refers to are collected, the others stay as they are.
LEMMA CollectGood ==
    ASSUME NEW o, GoodObjects(o), NEW live
    PROVE  /\ GoodObjects(Collect(o, live))
           /\ DOMAIN Collect(o, live) = DOMAIN o \cap live
BY DEF Collect, GoodObjects

\* There is a name for one more object when "indices" has none.
LEMMA FreshObject ==
    ASSUME Values, DOMAIN objs \subseteq Held(Clients)
    PROVE  Objects \ DOMAIN objs # {}
<1> DEFINE holders == {c \in Clients : req[c].obj # 0}
           f == [c \in holders |-> req[c].obj]
           H == Held(Clients)
<1>1. IsFiniteSet(holders) /\ Cardinality(holders) <= Cardinality(Clients)
      /\ IsFiniteSet(Clients) /\ Cardinality(Clients) \in Nat
  BY ClientsAssumption, FS_Subset, FS_CardinalityType
<1>2. f \in Surjection(holders, H)
  <2>1. f \in [holders -> H] /\ \A x \in H : \E c \in holders : f[c] = x
    BY DEF Held
  <2> QED BY <2>1 DEF Surjection
<1>3. IsFiniteSet(H) /\ Cardinality(H) <= Cardinality(holders)
  BY <1>1, <1>2, FS_Surjection
<1>4. Cardinality(holders) \in Nat /\ Cardinality(H) \in Nat
  BY <1>1, <1>3, FS_CardinalityType
<1> HIDE DEF holders, f, H
<1>5. IsFiniteSet(Objects) /\ Cardinality(Objects) = Cardinality(Clients) + 1
  <2>1. PICK n \in Int : n = Cardinality(Clients) + 1 /\ n >= 1
    BY <1>1
  <2>2. IsFiniteSet(1 .. n) /\ Cardinality(1 .. n) = IF 1 > n THEN 0 ELSE n - 1 + 1
    BY FS_Interval
  <2> QED BY <2>1, <2>2 DEF Objects
<1>6. ~(Objects \subseteq H)
  <2> SUFFICES ASSUME Objects \subseteq H PROVE FALSE
    OBVIOUS
  <2>1. Cardinality(Objects) <= Cardinality(H)
    BY <1>3, FS_Subset
  <2> QED BY <1>1, <1>3, <1>4, <1>5, <2>1
<1> QED BY <1>6 DEF H

\* A client goes to step s with h in hand.
LEMMA Move ==
    ASSUME Values, ObjectsOK, StepsOK,
           NEW c \in Clients, NEW s \in Steps, NEW h \in Handler,
           pc' = [pc EXCEPT ![c] = s], req' = [req EXCEPT ![c] = h],
           StepOK(s, h),
           Holding(s) => h.obj # 0,
           h.obj # 0 => Holding(s) \/ s \in {"check", "look", "index"},
           0 \notin DOMAIN objs',
           Held(Clients \ {c}) \subseteq DOMAIN objs',
           h.obj \in DOMAIN objs' \cup {0},
           DOMAIN objs' \subseteq Held(Clients \ {c}) \cup {h.obj, cur'}
    PROVE  /\ pc' \in [Clients -> Steps] /\ req' \in [Clients -> Handler]
           /\ ObjectsOK' /\ StepsOK'
<1>1. pc' \in [Clients -> Steps] /\ req' \in [Clients -> Handler]
  BY DEF Values
<1>2. pc'[c] = s /\ req'[c] = h
      /\ \A d \in Clients \ {c} : pc'[d] = pc[d] /\ req'[d] = req[d]
  BY DEF Values
<1>3. Held(Clients)' = Held(Clients \ {c}) \cup ({h.obj} \ {0})
  BY <1>2 DEF Held
<1>4. ASSUME NEW d \in Clients
      PROVE  /\ Holding(pc'[d]) => req'[d].obj # 0
             /\ req'[d].obj # 0 => Holding(pc'[d]) \/ pc'[d] \in {"check", "look", "index"}
  <2>1. CASE d = c
    BY <2>1, <1>2
  <2>2. CASE d # c
    BY <2>2, <1>2 DEF ObjectsOK, Getting
  <2> QED BY <2>1, <2>2
<1>5. ObjectsOK'
  BY <1>3, <1>4 DEF ObjectsOK, Getting
<1>6. StepsOK'
  <2> SUFFICES ASSUME NEW d \in Clients PROVE StepOK(pc'[d], req'[d])
    BY DEF StepsOK, StepOK, Fits, NeedIndexInsert
  <2> QED BY <1>2 DEF StepsOK
<1> QED BY <1>1, <1>5, <1>6

\* A client that does not wait for the worker goes on to a step where it does not
\* either.
LEMMA QueueSame ==
    ASSUME Values, QueueOK, NEW c \in Clients, NEW s, NEW h,
           pc' = [pc EXCEPT ![c] = s], req' = [req EXCEPT ![c] = h],
           pc[c] # "queued", s # "queued", UNCHANGED worker
    PROVE  QueueOK'
<1>1. chan' = chan /\ batch' = batch /\ running' = running
  BY DEF worker
<1>2. pc'[c] = s /\ \A d \in Clients \ {c} : pc'[d] = pc[d] /\ req'[d] = req[d]
  BY DEF Values
<1>3. ~In(chan, c) /\ ~In(batch, c)
  BY DEF QueueOK
<1>4. ASSUME NEW d \in Clients
      PROVE  /\ ~(In(chan, d) /\ In(batch, d))
             /\ pc'[d] = "queued" <=> In(chan, d) \/ In(batch, d)
             /\ In(batch, d) => req'[d].r.op # "delete"
  <2>1. CASE d = c
    BY <2>1, <1>2, <1>3
  <2>2. CASE d # c
    BY <2>2, <1>2 DEF QueueOK
  <2> QED BY <2>1, <2>2
<1>5. Once(chan) /\ Once(batch) /\ (running => batch # <<>>)
  BY DEF QueueOK
<1>6. /\ Once(chan)' /\ Once(batch)'
      /\ \A d \in Clients : In(chan, d)' = In(chan, d) /\ In(batch, d)' = In(batch, d)
  BY <1>1, <1>5 DEF Once, In
<1> QED BY <1>1, <1>4, <1>5, <1>6 DEF QueueOK

LEMMA ZeroIsNoObject == 0 \notin Objects
BY DEF Objects

\* The index stays.
LEMMA IndexSame == IndexOK /\ UNCHANGED index => IndexOK'
BY DEF IndexOK, index, GoodObjects, Good, Distinct, Table, OneToOne

\* Values but for who is where.
LEMMA ValuesSame ==
    ASSUME Values, UNCHANGED <<meta, rows, worker>>,
           pc' \in [Clients -> Steps], req' \in [Clients -> Handler]
    PROVE  Values'
BY DEF Values, worker

\* A client without an object in hand goes to a step that has none either.
LEMMA MoveEmpty ==
    ASSUME Inv, NEW c \in Clients, NEW s \in Steps, NEW h \in Handler,
           pc' = [pc EXCEPT ![c] = s], req' = [req EXCEPT ![c] = h],
           StepOK(s, h), ~Holding(s), h.obj = 0,
           ~Holding(pc[c]), ~Getting(c), UNCHANGED <<objs, cur>>
    PROVE  /\ pc' \in [Clients -> Steps] /\ req' \in [Clients -> Handler]
           /\ ObjectsOK' /\ StepsOK'
<1>1. req[c].obj = 0
  BY DEF Inv, ObjectsOK
<1>2. Held(Clients) = Held(Clients \ {c})
  BY <1>1, HeldSplit
<1>3. 0 \notin DOMAIN objs'
  BY ZeroIsNoObject DEF Inv, IndexOK, GoodObjects
<1> QED BY <1>2, <1>3, Move DEF Inv, ObjectsOK

\* A client that does not wait for the worker, with no object in hand, changes
\* nothing but its own state.
LEMMA MoveAlone ==
    ASSUME Inv, NEW c \in Clients, NEW s \in Steps, NEW h \in Handler,
           pc' = [pc EXCEPT ![c] = s], req' = [req EXCEPT ![c] = h],
           StepOK(s, h), ~Holding(s), h.obj = 0,
           ~Holding(pc[c]), ~Getting(c), pc[c] # "queued", s # "queued",
           UNCHANGED <<rows, index, worker>>, meta' \in Sizes \cup {NoTable}
    PROVE  Inv'
<1>1. UNCHANGED <<objs, cur>>
  BY DEF index
<1>2. /\ pc' \in [Clients -> Steps] /\ req' \in [Clients -> Handler]
      /\ ObjectsOK' /\ StepsOK'
  BY <1>1, MoveEmpty
<1>3. QueueOK'
  BY QueueSame DEF Inv
<1>4. IndexOK'
  BY IndexSame DEF Inv
<1>5. Values'
  BY <1>2 DEF Inv, Values, worker
<1> QED BY <1>2, <1>3, <1>4, <1>5 DEF Inv

-----------------------------------------------------------------------------
(* getIndex *)

\* A handler gets an index object.
LEMMA HandObject ==
    ASSUME NEW step \in {"check", "look", "index"}, NEW h \in Handler,
           NEW x \in Objects \cup {0}, StepOK(step, h)
    PROVE  LET g == [h EXCEPT !.obj = x]
           IN  /\ g \in Handler /\ g.obj = x
               /\ StepOK(step, g) /\ StepOK(WithIndex(step), g)
               /\ WithIndex(step) \in Steps /\ WithIndex(step) # "queued"
               /\ Holding(WithIndex(step))
<1> DEFINE g == [h EXCEPT !.obj = x]
<1>1. g \in Handler /\ g.obj = x /\ g.r = h.r /\ g.size = h.size
  BY DEF Handler
<1> HIDE DEF g
<1>2. \/ step = "check" /\ WithIndex(step) = "checked"
      \/ step = "look" /\ WithIndex(step) = "looking"
      \/ step = "index" /\ WithIndex(step) = "apply"
  BY DEF WithIndex
<1>3. WithIndex(step) \in Steps /\ WithIndex(step) # "queued" /\ Holding(WithIndex(step))
  BY <1>2 DEF Steps, Holding
<1>4. StepOK(step, g) /\ StepOK(WithIndex(step), g)
  BY <1>1, <1>2 DEF StepOK
<1> QED BY <1>1, <1>3, <1>4 DEF g

LEMMA IndexGetInv ==
    ASSUME Inv, NEW c \in Clients, IndexGet(c)
    PROVE  Inv'
<1>1. /\ pc[c] \in {"check", "look", "index"} /\ pc[c] \in Steps /\ req[c] \in Handler
      /\ StepOK(pc[c], req[c]) /\ pc[c] # "queued" /\ req[c].obj = 0
  BY DEF IndexGet, Getting, Inv, Values, StepsOK
<1>2. UNCHANGED <<meta, rows, worker>> /\ file' = file /\ cur' = cur
  BY DEF IndexGet
<1>3. Held(Clients) = Held(Clients \ {c})
  BY <1>1, HeldSplit
<1>4. /\ GoodObjects(objs) /\ cur \in DOMAIN objs \cup {0}
      /\ Held(Clients) \subseteq DOMAIN objs /\ DOMAIN objs \subseteq Held(Clients) \cup {cur}
      /\ DOMAIN objs \subseteq Objects /\ file \in Seq(Slots) /\ Distinct(file)
  BY DEF Inv, IndexOK, ObjectsOK, GoodObjects
<1>5. CASE cur # 0
  <2> DEFINE h == [req[c] EXCEPT !.obj = cur]
             s == WithIndex(pc[c])
  <2>1. cur \in Objects /\ cur \in DOMAIN objs
    BY <1>4, <1>5
  <2>2. /\ h \in Handler /\ h.obj = cur /\ StepOK(s, h) /\ s \in Steps
        /\ s # "queued" /\ Holding(s)
    BY <1>1, <2>1, HandObject
  <2>3. pc' = [pc EXCEPT ![c] = s] /\ req' = [req EXCEPT ![c] = h] /\ objs' = objs
    BY <1>5 DEF IndexGet, Goto
  <2> HIDE DEF h, s
  <2>4. 0 \notin DOMAIN objs'
    BY <2>3, <1>4, ZeroIsNoObject
  <2>5. /\ pc' \in [Clients -> Steps] /\ req' \in [Clients -> Handler]
        /\ ObjectsOK' /\ StepsOK'
    BY <1>2, <1>3, <1>4, <1>5, <2>1, <2>2, <2>3, <2>4, Move DEF Inv
  <2>6. QueueOK'
    BY <1>1, <1>2, <2>2, <2>3, QueueSame DEF Inv
  <2>7. IndexOK'
    BY <1>2, <2>3, IndexSame DEF Inv, index
  <2> QED BY <1>2, <2>5, <2>6, <2>7, ValuesSame DEF Inv
<1>6. CASE cur = 0
  <2> DEFINE o == CHOOSE x \in Objects \ DOMAIN objs : TRUE
             h == [req[c] EXCEPT !.obj = o]
             s == pc[c]
  <2>1. o \in Objects /\ o \notin DOMAIN objs
    <3>1. DOMAIN objs \subseteq Held(Clients)
      BY <1>4, <1>6, ZeroIsNoObject
    <3> QED BY <3>1, FreshObject DEF Inv
  <2>2. objs' = [x \in DOMAIN objs \cup {o} |-> IF x = o THEN Load(file) ELSE objs[x]]
        /\ req' = [req EXCEPT ![c] = h] /\ pc' = pc
    BY <1>6 DEF IndexGet
  <2> HIDE DEF o
  <2>3. h \in Handler /\ h.obj = o /\ StepOK(s, h)
    BY <1>1, <2>1, HandObject
  <2>4. pc' = [pc EXCEPT ![c] = s]
    BY <2>2 DEF Inv, Values
  <2> HIDE DEF h
  <2>5. DOMAIN objs' = DOMAIN objs \cup {o} /\ GoodObjects(objs')
    <3>1. DOMAIN objs' = DOMAIN objs \cup {o}
      BY <2>2
    <3>2. Good(Load(file))
      BY <1>4, LoadGood
    <3>3. objs' = [x \in DOMAIN objs' |-> objs'[x]]
      BY <2>2
    <3>4. \A x \in DOMAIN objs' : Good(objs'[x])
      <4> SUFFICES ASSUME NEW x \in DOMAIN objs' PROVE Good(objs'[x])
        OBVIOUS
      <4>1. CASE x = o
        <5>1. objs'[x] = Load(file)
          BY <2>2, <4>1
        <5> QED BY <5>1, <3>2
      <4>2. CASE x # o
        <5>1. x \in DOMAIN objs /\ objs'[x] = objs[x]
          BY <2>2, <4>2
        <5> QED BY <5>1, <1>4 DEF GoodObjects
      <4> QED BY <4>1, <4>2
    <3> QED BY <1>4, <2>1, <3>1, <3>3, <3>4 DEF GoodObjects
  <2>6. 0 \notin DOMAIN objs'
    BY <2>5, ZeroIsNoObject DEF GoodObjects
  <2>7. /\ pc' \in [Clients -> Steps] /\ req' \in [Clients -> Handler]
        /\ ObjectsOK' /\ StepsOK'
    <3>1. s \in Steps /\ s \in {"check", "look", "index"} /\ ~Holding(s)
      BY <1>1 DEF Holding
    <3> HIDE DEF s
    <3> QED BY <1>2, <1>3, <1>4, <1>6, <2>2, <2>3, <2>4, <2>5, <2>6, <3>1, Move DEF Inv
  <2>8. QueueOK'
    BY <1>1, <1>2, <2>2, <2>4, QueueSame DEF Inv
  <2>9. IndexOK'
    <3>1. cur' \in DOMAIN objs' \cup {0}
      BY <1>2, <1>6
    <3>2. GoodObjects(objs)'
      BY <2>5 DEF GoodObjects, Good, Table, OneToOne
    <3>3. file' \in Seq(Slots) /\ Distinct(file)'
      BY <1>2, <1>4 DEF Distinct
    <3> QED BY <3>1, <3>2, <3>3 DEF IndexOK
  <2> QED BY <1>2, <2>7, <2>8, <2>9, ValuesSame DEF Inv
<1> QED BY <1>5, <1>6

\* A handler goes on with the published object in hand or with none, and what only
\* it referred to is collected.
LEMMA MoveCollect ==
    ASSUME Inv, NEW c \in Clients, NEW s \in Steps, NEW h \in Handler, NEW u,
           pc' = [pc EXCEPT ![c] = s], req' = [req EXCEPT ![c] = h],
           StepOK(s, h), h.obj \in {0, cur},
           Holding(s) => h.obj # 0,
           h.obj # 0 => Holding(s) \/ s \in {"check", "look", "index"},
           GoodObjects(u), DOMAIN u = DOMAIN objs,
           objs' = Collect(u, Held(Clients \ {c}) \cup {cur}),
           file' \in Seq(Slots), Distinct(file'),
           pc[c] # "queued", s # "queued", UNCHANGED <<meta, rows, cur, worker>>
    PROVE  Inv'
<1> DEFINE live == Held(Clients \ {c}) \cup {cur}
<1>1. GoodObjects(objs') /\ DOMAIN objs' = DOMAIN objs \cap live
  BY CollectGood
<1>2. /\ Held(Clients \ {c}) \subseteq DOMAIN objs /\ cur \in DOMAIN objs \cup {0}
      /\ DOMAIN objs \subseteq Objects
  BY HeldSplit DEF Inv, IndexOK, ObjectsOK, GoodObjects
<1>3. 0 \notin DOMAIN objs'
  BY <1>1, <1>2, ZeroIsNoObject
<1>4. Held(Clients \ {c}) \subseteq DOMAIN objs' /\ cur' \in DOMAIN objs' \cup {0}
  BY <1>1, <1>2
<1>5. h.obj \in DOMAIN objs' \cup {0} /\ DOMAIN objs' \subseteq Held(Clients \ {c}) \cup {h.obj, cur'}
  BY <1>1, <1>4
<1>6. /\ pc' \in [Clients -> Steps] /\ req' \in [Clients -> Handler]
      /\ ObjectsOK' /\ StepsOK'
  <2> HIDE DEF live
  <2> QED BY <1>3, <1>4, <1>5, Move DEF Inv
<1>7. QueueOK'
  BY QueueSame DEF Inv
<1>8. IndexOK'
  <2>1. GoodObjects(objs)' /\ Distinct(file)'
    BY <1>1 DEF GoodObjects, Good, Table, OneToOne, Distinct
  <2> QED BY <1>4, <2>1 DEF IndexOK
<1> QED BY <1>6, <1>7, <1>8, ValuesSame DEF Inv

LEMMA IndexPublishInv ==
    ASSUME Inv, NEW c \in Clients, IndexPublish(c)
    PROVE  Inv'
<1> DEFINE s == WithIndex(pc[c])
<1>1. /\ pc[c] \in {"check", "look", "index"} /\ req[c] \in Handler
      /\ StepOK(pc[c], req[c]) /\ pc[c] # "queued" /\ req[c].obj # 0
      /\ req[c].obj \in Objects
  BY DEF IndexPublish, Getting, Inv, Values, StepsOK, Handler
<1>2. UNCHANGED <<meta, rows, worker>> /\ file' = file /\ pc' = [pc EXCEPT ![c] = s]
  BY DEF IndexPublish, Goto
<1>3. /\ GoodObjects(objs) /\ cur \in DOMAIN objs \cup {0} /\ DOMAIN objs \subseteq Objects
      /\ DOMAIN objs \subseteq Held(Clients) \cup {cur} /\ Held(Clients) \subseteq DOMAIN objs
      /\ file \in Seq(Slots) /\ Distinct(file)
  BY DEF Inv, IndexOK, ObjectsOK, GoodObjects
<1>4. Held(Clients) = Held(Clients \ {c}) \cup {req[c].obj}
  BY <1>1, HeldSplit
<1>5. CASE cur = 0
  <2>1. cur' = req[c].obj /\ objs' = objs /\ req' = req
    BY <1>5 DEF IndexPublish
  <2>2. req' = [req EXCEPT ![c] = req[c]]
    BY <2>1 DEF Inv, Values
  <2>3. [req[c] EXCEPT !.obj = req[c].obj] = req[c]
    BY <1>1 DEF Handler
  <2>4. StepOK(s, req[c]) /\ s \in Steps /\ s # "queued" /\ Holding(s)
    BY <1>1, <2>3, HandObject
  <2> HIDE DEF s
  <2>5. 0 \notin DOMAIN objs'
    BY <1>3, <2>1, ZeroIsNoObject
  <2>6. DOMAIN objs' \subseteq Held(Clients \ {c}) \cup {req[c].obj, cur'}
    BY <1>3, <1>4, <1>5, <2>1, ZeroIsNoObject
  <2>7. Held(Clients \ {c}) \subseteq DOMAIN objs' /\ req[c].obj \in DOMAIN objs' \cup {0}
    BY <1>3, <1>4, <2>1
  <2>8. /\ pc' \in [Clients -> Steps] /\ req' \in [Clients -> Handler]
        /\ ObjectsOK' /\ StepsOK'
    BY <1>1, <1>2, <2>2, <2>4, <2>5, <2>6, <2>7, Move DEF Inv
  <2>9. QueueOK'
    BY <1>1, <1>2, <2>2, <2>4, QueueSame DEF Inv
  <2>10. IndexOK'
    <3>1. cur' \in DOMAIN objs' \cup {0}
      BY <2>1, <2>7
    <3>2. GoodObjects(objs)' /\ file' \in Seq(Slots) /\ Distinct(file)'
      BY <1>2, <1>3, <2>1 DEF GoodObjects, Good, Table, OneToOne, Distinct
    <3> QED BY <3>1, <3>2 DEF IndexOK
  <2> QED BY <1>2, <2>8, <2>9, <2>10, ValuesSame DEF Inv
<1>6. CASE cur # 0
  <2> DEFINE h == [req[c] EXCEPT !.obj = cur]
  <2>1. /\ req' = [req EXCEPT ![c] = h] /\ cur' = cur
        /\ objs' = Collect(objs, Held(Clients \ {c}) \cup {cur})
    BY <1>6 DEF IndexPublish
  <2>2. cur \in Objects
    BY <1>3, <1>6
  <2>3. /\ h \in Handler /\ h.obj = cur /\ StepOK(s, h) /\ s \in Steps
        /\ s # "queued" /\ Holding(s)
    BY <1>1, <2>2, HandObject
  <2> HIDE DEF h, s
  <2>4. file' \in Seq(Slots) /\ Distinct(file')
    BY <1>2, <1>3
  <2>5. UNCHANGED <<meta, rows, cur, worker>>
    BY <1>2, <2>1
  <2> QED BY <1>1, <1>2, <1>3, <1>6, <2>1, <2>3, <2>4, <2>5, MoveCollect
<1> QED BY <1>5, <1>6

-----------------------------------------------------------------------------
(* SaveIncremental *)

\* A request in hand.
LEMMA RequestHandler ==
    ASSUME NEW r \in Request(SaveOps \cup ReadOps \cup {"delete", "none"}), NEW size \in Sizes
    PROVE  LET h == [Idle EXCEPT !.r = r, !.size = size]
           IN  h \in Handler /\ h.obj = 0 /\ h.r = r /\ h.size = size
<1>1. PICK g \in Handler : g = Idle /\ g.obj = 0
  BY IdleHandler
<1>2. size \in Sizes \cup {0}
  OBVIOUS
<1> DEFINE h == [g EXCEPT !.r = r, !.size = size]
<1>3. h \in Handler /\ h.obj = 0 /\ h.r = r /\ h.size = size
  BY <1>1, <1>2 DEF Handler
<1> QED BY <1>1, <1>3

\* After the entry size is known a save is checked, sent, or refused.
LEMMA ProceedFacts ==
    ASSUME NEW c \in Clients, NEW r \in Request(SaveOps), NEW size \in Sizes,
           Proceed(c, r, size)
    PROVE  \E s \in Steps : \E h \in Handler :
              /\ pc' = [pc EXCEPT ![c] = s] /\ req' = [req EXCEPT ![c] = h]
              /\ StepOK(s, h) /\ h.obj = 0 /\ ~Holding(s) /\ s # "queued"
<1>1. CASE NeedIndexInsert(r) \/ Fits(r, size)
  <2> DEFINE h == [Idle EXCEPT !.r = r, !.size = size]
             s == Checked(r)
  <2>1. r \in Request(SaveOps \cup ReadOps \cup {"delete", "none"}) /\ r.op \in SaveOps
    BY DEF Request
  <2>2. h \in Handler /\ h.obj = 0 /\ h.r = r /\ h.size = size
    BY <2>1, RequestHandler
  <2>3. pc' = [pc EXCEPT ![c] = s] /\ req' = [req EXCEPT ![c] = h]
    BY <1>1 DEF Proceed, Goto
  <2> HIDE DEF h
  <2>4. s \in Steps /\ ~Holding(s) /\ s # "queued" /\ StepOK(s, h)
    <3>1. CASE NeedIndexInsert(r)
      BY <2>1, <2>2, <3>1 DEF Checked, Steps, Holding, StepOK
    <3>2. CASE ~NeedIndexInsert(r)
      BY <1>1, <2>1, <2>2, <3>2 DEF Checked, Steps, Holding, StepOK
    <3> QED BY <3>1, <3>2
  <2> HIDE DEF s
  <2> QED BY <2>2, <2>3, <2>4
<1>2. CASE ~(NeedIndexInsert(r) \/ Fits(r, size))
  <2>1. pc' = [pc EXCEPT ![c] = "idle"] /\ req' = [req EXCEPT ![c] = Idle]
    BY <1>2 DEF Proceed, Return, Goto
  <2>2. "idle" \in Steps /\ ~Holding("idle")
    BY DEF Steps, Holding
  <2> QED BY <2>1, <2>2, IdleHandler
<1> QED BY <1>1, <1>2

LEMMA SaveOpenInv ==
    ASSUME Inv, NEW c \in Clients, NEW r \in Saves, NEW size \in Sizes, SaveOpen(c, r, size)
    PROVE  Inv'
<1>1. /\ pc[c] = "idle" /\ UNCHANGED <<meta, rows, index, worker>>
      /\ ~Holding(pc[c]) /\ ~Getting(c) /\ meta \in Sizes \cup {NoTable}
  BY DEF SaveOpen, Holding, Getting, Inv, Values
<1>2. /\ r \in Request(SaveOps) /\ r.op \in SaveOps
      /\ r \in Request(SaveOps \cup ReadOps \cup {"delete", "none"})
  BY RequestsAssumption DEF Request
<1>3. PICK s \in Steps, h \in Handler :
          /\ pc' = [pc EXCEPT ![c] = s] /\ req' = [req EXCEPT ![c] = h]
          /\ StepOK(s, h) /\ h.obj = 0 /\ ~Holding(s) /\ s # "queued"
  <2>1. CASE meta = NoTable
    <3> DEFINE g == [Idle EXCEPT !.r = r, !.size = size]
    <3>1. g \in Handler /\ g.obj = 0 /\ g.r = r /\ g.size = size
      BY <1>2, RequestHandler
    <3>2. pc' = [pc EXCEPT ![c] = "create"] /\ req' = [req EXCEPT ![c] = g]
      BY <2>1 DEF SaveOpen, Goto
    <3> HIDE DEF g
    <3>3. StepOK("create", g) /\ "create" \in Steps /\ ~Holding("create")
      BY <1>2, <3>1 DEF StepOK, Steps, Holding
    <3> QED BY <3>1, <3>2, <3>3
  <2>2. CASE meta # NoTable
    <3>1. meta \in Sizes /\ Proceed(c, r, meta)
      BY <1>1, <2>2 DEF SaveOpen
    <3> QED BY <1>2, <3>1, ProceedFacts
  <2> QED BY <2>1, <2>2
<1>4. meta' \in Sizes \cup {NoTable} /\ UNCHANGED <<rows, index, worker>> /\ pc[c] # "queued"
  BY <1>1
<1> QED BY <1>1, <1>3, <1>4, MoveAlone

LEMMA SaveCreateInv ==
    ASSUME Inv, NEW c \in Clients, SaveCreate(c)
    PROVE  Inv'
<1>1. /\ pc[c] = "create" /\ UNCHANGED <<rows, index, worker>>
      /\ ~Holding(pc[c]) /\ ~Getting(c) /\ meta' = req[c].size
      /\ StepOK(pc[c], req[c]) /\ req[c] \in Handler
  BY DEF SaveCreate, Holding, Getting, Inv, StepsOK, Values
<1>2. req[c].size \in Sizes /\ req[c].r \in Request(SaveOps)
  BY <1>1 DEF StepOK, Handler, Request
<1>3. Proceed(c, req[c].r, req[c].size)
  BY DEF SaveCreate
<1>4. PICK s \in Steps, h \in Handler :
          /\ pc' = [pc EXCEPT ![c] = s] /\ req' = [req EXCEPT ![c] = h]
          /\ StepOK(s, h) /\ h.obj = 0 /\ ~Holding(s) /\ s # "queued"
  BY <1>2, <1>3, ProceedFacts
<1> QED BY <1>1, <1>2, <1>4, MoveAlone

LEMMA SaveCheckInv ==
    ASSUME Inv, NEW c \in Clients, SaveCheck(c)
    PROVE  Inv'
<1>1. /\ pc[c] = "checked" /\ req[c] \in Handler /\ StepOK("checked", req[c])
      /\ UNCHANGED <<meta, rows, cur, worker>> /\ file' = file
      /\ objs' = Collect(objs, Held(Clients \ {c}) \cup {cur})
  BY DEF SaveCheck, Drop, Inv, Values, StepsOK
<1>2. /\ GoodObjects(objs) /\ file' \in Seq(Slots) /\ Distinct(file')
  BY <1>1 DEF Inv, IndexOK
<1>3. PICK s \in Steps, h \in Handler :
          /\ pc' = [pc EXCEPT ![c] = s] /\ req' = [req EXCEPT ![c] = h]
          /\ StepOK(s, h) /\ h.obj = 0 /\ ~Holding(s) /\ s # "queued"
  <2>1. CASE Has(objs[req[c].obj], req[c].r.key) \/ ~Fits(req[c].r, req[c].size)
    <3>1. pc' = [pc EXCEPT ![c] = "idle"] /\ req' = [req EXCEPT ![c] = Idle]
      BY <2>1 DEF SaveCheck, Return, Goto
    <3>2. "idle" \in Steps /\ ~Holding("idle")
      BY DEF Steps, Holding
    <3> QED BY <3>1, <3>2, IdleHandler
  <2>2. CASE ~(Has(objs[req[c].obj], req[c].r.key) \/ ~Fits(req[c].r, req[c].size))
    <3> DEFINE h == [req[c] EXCEPT !.obj = 0]
    <3>1. pc' = [pc EXCEPT ![c] = "send"] /\ req' = [req EXCEPT ![c] = h]
      BY <2>2 DEF SaveCheck, Goto
    <3>2. h \in Handler /\ h.obj = 0 /\ h.r = req[c].r /\ h.size = req[c].size
      BY <1>1 DEF Handler
    <3> HIDE DEF h
    <3>3. "send" \in Steps /\ ~Holding("send") /\ StepOK("send", h)
      BY <1>1, <2>2, <3>2 DEF Steps, Holding, StepOK
    <3> QED BY <3>1, <3>2, <3>3
  <2> QED BY <2>1, <2>2
<1>4. pc[c] # "queued"
  BY <1>1
<1> QED BY <1>1, <1>2, <1>3, <1>4, MoveCollect

LEMMA SendInv ==
    ASSUME Inv, NEW c \in Clients, Send(c)
    PROVE  Inv'
<1>1. /\ pc[c] = "send" /\ req[c] \in Handler /\ StepOK("send", req[c])
      /\ ~Holding(pc[c]) /\ ~Getting(c) /\ req[c].obj = 0
  BY DEF Send, Inv, Values, StepsOK, ObjectsOK, Holding, Getting
<1>2. /\ chan' = Append(chan, c) /\ batch' = batch /\ running' = running /\ req' = req
      /\ meta' = meta /\ rows' = rows /\ UNCHANGED index
      /\ pc' = [pc EXCEPT ![c] = "queued"]
  BY DEF Send, Goto
<1>3. req' = [req EXCEPT ![c] = req[c]]
  BY <1>2 DEF Inv, Values
<1>4. "queued" \in Steps /\ ~Holding("queued") /\ StepOK("queued", req[c])
  BY <1>1 DEF Steps, Holding, StepOK
<1>5. /\ pc' \in [Clients -> Steps] /\ req' \in [Clients -> Handler]
      /\ ObjectsOK' /\ StepsOK'
  <2>1. UNCHANGED <<objs, cur>>
    BY <1>2 DEF index
  <2> QED BY <1>1, <1>2, <1>3, <1>4, <2>1, MoveEmpty
<1>6. chan \in Seq(Clients) /\ Once(chan) /\ ~In(chan, c) /\ ~In(batch, c)
  BY <1>1 DEF Inv, Values, QueueOK
<1>7. /\ chan' \in Seq(Clients) /\ Once(chan')
      /\ \A d : In(chan', d) <=> In(chan, d) \/ d = c
  BY <1>2, <1>6, InAppend
<1>8. QueueOK'
  <2>1. ASSUME NEW d \in Clients
        PROVE  /\ ~(In(chan', d) /\ In(batch', d))
               /\ pc'[d] = "queued" <=> In(chan', d) \/ In(batch', d)
               /\ In(batch', d) => req'[d].r.op # "delete"
    <3>1. CASE d = c
      BY <3>1, <1>2, <1>6, <1>7 DEF Inv, Values
    <3>2. CASE d # c
      BY <3>2, <1>2, <1>7 DEF Inv, Values, QueueOK
    <3> QED BY <3>1, <3>2
  <2>2. Once(batch') /\ (running' => batch' # <<>>)
    BY <1>2 DEF Inv, QueueOK
  <2> QED BY <1>7, <2>1, <2>2 DEF QueueOK, In, Once
<1>9. IndexOK'
  BY <1>2, IndexSame DEF Inv
<1>10. Values'
  BY <1>2, <1>5, <1>7 DEF Inv, Values
<1> QED BY <1>5, <1>8, <1>9, <1>10 DEF Inv

\* What a save makes of the index object in hand, and what it writes to the file.
LEMMA Applied ==
    ASSUME Inv, NEW c \in Clients, SaveApply(c)
    PROVE  \E u : /\ GoodObjects(u) /\ DOMAIN u = DOMAIN objs
                  /\ objs' = Collect(u, Held(Clients \ {c}) \cup {cur})
                  /\ file' \in Seq(Slots) /\ Distinct(file')
<1> DEFINE r == req[c].r
           p == req[c].pos
           o == req[c].obj
           t == objs[o]
           live == Held(Clients \ {c}) \cup {cur}
<1>1. /\ r.key \in EntryKeys /\ p \in Nat /\ o \in DOMAIN objs
  <2>1. pc[c] = "apply" /\ req[c] \in Handler /\ StepOK("apply", req[c]) /\ o # 0
    BY DEF SaveApply, Inv, Values, StepsOK, ObjectsOK, Holding
  <2>2. r.key \in Slots /\ r.key # NoKey /\ p \in Nat
    BY <2>1, HandlerFields DEF StepOK
  <2>3. o \in Held(Clients)
    BY <2>1 DEF Held
  <2> QED BY <2>2, <2>3 DEF Slots, Inv, ObjectsOK
<1>2. /\ GoodObjects(objs) /\ file \in Seq(Slots) /\ Distinct(file)
      /\ Good(t)
  BY <1>1 DEF Inv, IndexOK, GoodObjects
<1>3. ASSUME NEW v, Good(v)
      PROVE  /\ GoodObjects([objs EXCEPT ![o] = v])
             /\ DOMAIN [objs EXCEPT ![o] = v] = DOMAIN objs
  <2> DEFINE u == [objs EXCEPT ![o] = v]
  <2>1. DOMAIN u = DOMAIN objs /\ u = [x \in DOMAIN u |-> u[x]]
    OBVIOUS
  <2>2. \A x \in DOMAIN u : u[x] = v \/ u[x] = objs[x]
    OBVIOUS
  <2> HIDE DEF u
  <2>3. \A x \in DOMAIN u : Good(u[x])
    BY <1>2, <1>3, <2>1, <2>2 DEF GoodObjects
  <2>4. GoodObjects(u)
    BY <1>2, <2>1, <2>3 DEF GoodObjects
  <2> QED BY <2>1, <2>4 DEF u
<1>4. \A v : Good(v) => v.keys \in Seq(Slots) /\ Distinct(v.keys)
  BY GoodDistinct DEF Good, Table
<1>5. \E v : /\ Good(v) /\ objs' = Collect([objs EXCEPT ![o] = v], live)
             /\ file' = file \/ file' = v.keys
  <2>1. CASE r.op = "overwrite" /\ TakenElsewhere(t, p, r.key)
    <3> DEFINE v == [t EXCEPT !.keys = Pad(@, p + 1)]
    <3>1. Good(v)
      <4>1. PICK n \in Nat : n = p + 1
        BY <1>1
      <4>2. Good([t EXCEPT !.keys = Pad(@, n)])
        BY <1>2, PadGood
      <4> QED BY <4>1, <4>2
    <3>2. objs' = Collect([objs EXCEPT ![o] = v], live) /\ file' = file
      BY <2>1 DEF SaveApply
    <3> QED BY <3>1, <3>2
  <2>2. CASE r.op = "overwrite" /\ ~TakenElsewhere(t, p, r.key)
    <3>1. Good(Set(t, p, r.key))
      BY <1>1, <1>2, <2>2, SetGood
    <3>2. /\ objs' = Collect([objs EXCEPT ![o] = Set(t, p, r.key)], live)
          /\ file' = Set(t, p, r.key).keys
      BY <2>2 DEF SaveApply
    <3> QED BY <3>1, <3>2
  <2>3. CASE r.op # "overwrite" /\ Has(t, r.key)
    <3>1. objs' = Collect([objs EXCEPT ![o] = t], live) /\ file' = file
      BY <2>3 DEF SaveApply
    <3> QED BY <1>2, <3>1
  <2>4. CASE r.op # "overwrite" /\ ~Has(t, r.key)
    <3>1. Good(Insert(t, p, r.key))
      BY <1>1, <1>2, <2>4, InsertGood
    <3>2. /\ objs' = Collect([objs EXCEPT ![o] = Insert(t, p, r.key)], live)
          /\ file' = Insert(t, p, r.key).keys
      BY <2>4 DEF SaveApply
    <3> QED BY <3>1, <3>2
  <2> QED BY <2>1, <2>2, <2>3, <2>4
<1> QED BY <1>2, <1>3, <1>4, <1>5

LEMMA SaveApplyInv ==
    ASSUME Inv, NEW c \in Clients, SaveApply(c)
    PROVE  Inv'
<1>1. PICK u : /\ GoodObjects(u) /\ DOMAIN u = DOMAIN objs
               /\ objs' = Collect(u, Held(Clients \ {c}) \cup {cur})
               /\ file' \in Seq(Slots) /\ Distinct(file')
  BY Applied
<1>2. /\ pc[c] # "queued" /\ UNCHANGED <<meta, rows, cur, worker>>
      /\ pc' = [pc EXCEPT ![c] = "idle"] /\ req' = [req EXCEPT ![c] = Idle]
  BY DEF SaveApply, Return, Goto
<1>3. "idle" \in Steps /\ ~Holding("idle")
  BY DEF Steps, Holding
<1> QED BY <1>1, <1>2, <1>3, IdleHandler, MoveCollect

-----------------------------------------------------------------------------
(* ReadIncremental *)

LEMMA ReadOpenInv ==
    ASSUME Inv, NEW c \in Clients, NEW r \in Reads, ReadOpen(c, r)
    PROVE  Inv'
<1> DEFINE h == [Idle EXCEPT !.r = r, !.pos = r.id, !.size = meta]
           s == IF r.op = "by_key" THEN "look" ELSE "send"
<1>1. /\ pc[c] = "idle" /\ UNCHANGED <<rows, index, worker>> /\ meta' = meta
      /\ ~Holding(pc[c]) /\ ~Getting(c) /\ meta \in Sizes /\ pc[c] # "queued"
      /\ pc' = [pc EXCEPT ![c] = s] /\ req' = [req EXCEPT ![c] = h]
  BY DEF ReadOpen, Goto, Holding, Getting, Inv, Values
<1>2. /\ r \in Request(SaveOps \cup ReadOps \cup {"delete", "none"})
      /\ r.op \notin SaveOps /\ r.id \in Nat
  BY RequestsAssumption DEF Request, SaveOps, ReadOps
<1>3. h \in Handler /\ h.obj = 0 /\ h.r = r
  <2>1. PICK g \in Handler : g = Idle /\ g.obj = 0
    BY IdleHandler
  <2>2. meta \in Sizes \cup {0}
    BY <1>1
  <2> DEFINE e == [g EXCEPT !.r = r, !.pos = r.id, !.size = meta]
  <2>3. e \in Handler /\ e.obj = 0 /\ e.r = r
    BY <1>2, <2>1, <2>2 DEF Handler
  <2> QED BY <2>1, <2>3
<1> HIDE DEF h
<1>4. s \in Steps /\ ~Holding(s) /\ s # "queued" /\ StepOK(s, h)
  BY <1>2, <1>3 DEF Steps, Holding, StepOK
<1> HIDE DEF s
<1>5. meta' \in Sizes \cup {NoTable}
  BY <1>1
<1> QED BY <1>1, <1>3, <1>4, <1>5, MoveAlone

LEMMA ReadLookupInv ==
    ASSUME Inv, NEW c \in Clients, ReadLookup(c)
    PROVE  Inv'
<1> DEFINE t == objs[req[c].obj]
           k == req[c].r.key
<1>1. /\ pc[c] = "looking" /\ req[c] \in Handler /\ StepOK("looking", req[c])
      /\ UNCHANGED <<meta, rows, cur, worker>> /\ file' = file
      /\ objs' = Collect(objs, Held(Clients \ {c}) \cup {cur})
      /\ req[c].obj # 0
  BY DEF ReadLookup, Drop, Inv, Values, StepsOK, ObjectsOK, Holding
<1>2. /\ GoodObjects(objs) /\ file' \in Seq(Slots) /\ Distinct(file')
  BY <1>1 DEF Inv, IndexOK
<1>3. Good(t)
  <2>1. req[c].obj \in Held(Clients)
    BY <1>1 DEF Held
  <2> QED BY <1>2, <2>1 DEF Inv, ObjectsOK, GoodObjects
<1>4. PICK s \in Steps, h \in Handler :
          /\ pc' = [pc EXCEPT ![c] = s] /\ req' = [req EXCEPT ![c] = h]
          /\ StepOK(s, h) /\ h.obj = 0 /\ ~Holding(s) /\ s # "queued"
  <2>1. CASE ~Has(t, k)
    <3>1. pc' = [pc EXCEPT ![c] = "idle"] /\ req' = [req EXCEPT ![c] = Idle]
      BY <2>1 DEF ReadLookup, Return, Goto
    <3>2. "idle" \in Steps /\ ~Holding("idle")
      BY DEF Steps, Holding
    <3> QED BY <3>1, <3>2, IdleHandler
  <2>2. CASE Has(t, k)
    <3> DEFINE h == [req[c] EXCEPT !.pos = t.positions[k], !.obj = 0]
    <3>1. pc' = [pc EXCEPT ![c] = "send"] /\ req' = [req EXCEPT ![c] = h]
      BY <2>2 DEF ReadLookup, Goto, Inv, Values
    <3>2. t.positions[k] \in Nat
      BY <1>3, <2>2 DEF Good, Table, Has
    <3> HIDE DEF t, k
    <3>3. h \in Handler /\ h.obj = 0 /\ h.r = req[c].r
      BY <1>1, <3>2 DEF Handler
    <3> HIDE DEF h
    <3>4. "send" \in Steps /\ ~Holding("send") /\ StepOK("send", h)
      BY <1>1, <3>3 DEF Steps, Holding, StepOK, SaveOps
    <3> QED BY <3>1, <3>3, <3>4
  <2> QED BY <2>1, <2>2
<1>5. pc[c] # "queued"
  BY <1>1
<1> QED BY <1>1, <1>2, <1>4, <1>5, MoveCollect

\* Steps that end a handler without an object in hand.
LEMMA EndInv ==
    ASSUME Inv, NEW c \in Clients, Return(c), ~Holding(pc[c]), ~Getting(c),
           pc[c] # "queued", UNCHANGED <<rows, index, worker>>,
           meta' \in Sizes \cup {NoTable}
    PROVE  Inv'
<1>1. pc' = [pc EXCEPT ![c] = "idle"] /\ req' = [req EXCEPT ![c] = Idle]
  BY DEF Return, Goto
<1>2. "idle" \in Steps /\ ~Holding("idle")
  BY DEF Steps, Holding
<1> QED BY <1>1, <1>2, IdleHandler, MoveAlone

LEMMA ReadReturnInv ==
    ASSUME Inv, NEW c \in Clients, ReadReturn(c)
    PROVE  Inv'
BY EndInv DEF ReadReturn, Holding, Getting, Inv, Values

LEMMA SaveReturnInv ==
    ASSUME Inv, NEW c \in Clients, SaveReturn(c)
    PROVE  Inv'
BY EndInv DEF SaveReturn, Holding, Getting, Inv, Values

-----------------------------------------------------------------------------
(* DeleteIncremental *)

LEMMA DeleteOpenInv ==
    ASSUME Inv, NEW c \in Clients, DeleteOpen(c)
    PROVE  Inv'
<1> DEFINE h == [req[c] EXCEPT !.r.op = "delete"]
<1>1. /\ pc[c] = "idle" /\ UNCHANGED <<rows, index, worker>> /\ meta' = meta
      /\ ~Holding(pc[c]) /\ ~Getting(c) /\ pc[c] # "queued" /\ req[c] \in Handler
      /\ pc' = [pc EXCEPT ![c] = "send"] /\ req' = [req EXCEPT ![c] = h]
      /\ meta \in Sizes \cup {NoTable}
  BY DEF DeleteOpen, Goto, Holding, Getting, Inv, Values
<1>2. req[c].obj = 0
  BY <1>1 DEF Inv, ObjectsOK
<1>3. h \in Handler /\ h.obj = 0 /\ h.r.op = "delete"
  BY <1>1, <1>2 DEF Handler, Request
<1> HIDE DEF h
<1>4. "send" \in Steps /\ ~Holding("send") /\ StepOK("send", h)
  BY <1>3 DEF Steps, Holding, StepOK, SaveOps
<1>5. meta' \in Sizes \cup {NoTable}
  BY <1>1
<1> QED BY <1>1, <1>3, <1>4, <1>5, MoveAlone

LEMMA DeleteForgetInv ==
    ASSUME Inv, NEW c \in Clients, DeleteForget(c)
    PROVE  Inv'
<1>1. /\ pc[c] = "forget" /\ pc[c] # "queued" /\ UNCHANGED <<meta, rows, worker>>
      /\ file' = file /\ req' = req /\ cur' = 0 /\ objs' = Collect(objs, Held(Clients))
      /\ pc' = [pc EXCEPT ![c] = "unlink"]
      /\ req[c] \in Handler /\ StepOK("forget", req[c]) /\ req[c].obj = 0
  BY DEF DeleteForget, Goto, Inv, Values, StepsOK, ObjectsOK, Holding, Getting
<1>2. req' = [req EXCEPT ![c] = req[c]]
  BY <1>1 DEF Inv, Values
<1>3. "unlink" \in Steps /\ ~Holding("unlink") /\ StepOK("unlink", req[c])
  BY <1>1 DEF Steps, Holding, StepOK
<1>4. /\ GoodObjects(objs) /\ file \in Seq(Slots) /\ Distinct(file)
      /\ Held(Clients) \subseteq DOMAIN objs /\ Held(Clients) = Held(Clients \ {c})
  BY <1>1, HeldSplit DEF Inv, IndexOK, ObjectsOK
<1>5. GoodObjects(objs') /\ DOMAIN objs' = Held(Clients \ {c})
  <2>1. /\ GoodObjects(Collect(objs, Held(Clients)))
        /\ DOMAIN Collect(objs, Held(Clients)) = DOMAIN objs \cap Held(Clients)
    BY <1>4, CollectGood
  <2>2. DOMAIN objs \cap Held(Clients) = Held(Clients \ {c})
    BY <1>4
  <2> QED BY <1>1, <2>1, <2>2, Zenon
<1>6. 0 \notin DOMAIN objs'
  BY <1>5, ZeroIsNoObject DEF GoodObjects
<1>7. /\ pc' \in [Clients -> Steps] /\ req' \in [Clients -> Handler]
      /\ ObjectsOK' /\ StepsOK'
  BY <1>1, <1>2, <1>3, <1>5, <1>6, Move DEF Inv
<1>8. QueueOK'
  BY <1>1, <1>2, QueueSame DEF Inv
<1>9. IndexOK'
  <2>1. GoodObjects(objs)' /\ file' \in Seq(Slots) /\ Distinct(file)'
    BY <1>1, <1>4, <1>5 DEF GoodObjects, Good, Table, OneToOne, Distinct
  <2> QED BY <1>1, <2>1 DEF IndexOK
<1> QED BY <1>1, <1>7, <1>8, <1>9, ValuesSame DEF Inv

LEMMA DeleteUnlinkInv ==
    ASSUME Inv, NEW c \in Clients, DeleteUnlink(c)
    PROVE  Inv'
<1>1. /\ pc[c] = "unlink" /\ pc[c] # "queued" /\ UNCHANGED <<meta, rows, worker>>
      /\ ~Holding(pc[c]) /\ ~Getting(c)
      /\ file' = <<>> /\ req' = req /\ UNCHANGED <<objs, cur>>
      /\ pc' = [pc EXCEPT ![c] = "unmeta"]
      /\ req[c] \in Handler /\ StepOK("unlink", req[c]) /\ req[c].obj = 0
  BY DEF DeleteUnlink, Goto, Inv, Values, StepsOK, ObjectsOK, Holding, Getting
<1>2. req' = [req EXCEPT ![c] = req[c]]
  BY <1>1 DEF Inv, Values
<1>3. "unmeta" \in Steps /\ ~Holding("unmeta") /\ StepOK("unmeta", req[c])
  BY <1>1 DEF Steps, Holding, StepOK
<1>4. /\ pc' \in [Clients -> Steps] /\ req' \in [Clients -> Handler]
      /\ ObjectsOK' /\ StepsOK'
  BY <1>1, <1>2, <1>3, MoveEmpty
<1>5. QueueOK'
  BY <1>1, <1>2, QueueSame DEF Inv
<1>6. IndexOK'
  <2>1. file' \in Seq(Slots) /\ Distinct(file')
    BY <1>1 DEF Distinct
  <2>2. GoodObjects(objs)' /\ cur' \in DOMAIN objs' \cup {0}
    BY <1>1 DEF Inv, IndexOK, GoodObjects, Good, Table, OneToOne
  <2> QED BY <2>1, <2>2 DEF IndexOK, Distinct
<1> QED BY <1>1, <1>4, <1>5, <1>6, ValuesSame DEF Inv

LEMMA DeleteMetaInv ==
    ASSUME Inv, NEW c \in Clients, DeleteMeta(c)
    PROVE  Inv'
BY EndInv DEF DeleteMeta, Holding, Getting

-----------------------------------------------------------------------------
(* The file worker *)

LEMMA WorkerReceiveInv ==
    ASSUME Inv, WorkerReceive
    PROVE  Inv'
<1> DEFINE c == Head(chan)
<1>1. /\ chan # <<>> /\ batch' = Append(batch, c) /\ chan' = Tail(chan)
      /\ UNCHANGED <<meta, rows, index, running, pc, req>> /\ req[c].r.op # "delete"
      /\ ~running
  BY DEF WorkerReceive, DeleteNext
<1>2. chan \in Seq(Clients) /\ batch \in Seq(Clients) /\ Once(chan) /\ Once(batch)
  BY DEF Inv, Values, QueueOK
<1>3. /\ c \in Clients /\ chan' \in Seq(Clients) /\ In(chan, c) /\ Once(chan')
      /\ \A d : In(chan', d) <=> In(chan, d) /\ d # c
  BY <1>1, <1>2, InTail
<1> HIDE DEF c
<1>4. ~In(batch, c)
  BY <1>3 DEF Inv, QueueOK
<1>5. /\ batch' \in Seq(Clients) /\ Once(batch')
      /\ \A d : In(batch', d) <=> In(batch, d) \/ d = c
  BY <1>1, <1>2, <1>3, <1>4, InAppend
<1>6. QueueOK'
  <2>1. ASSUME NEW d \in Clients
        PROVE  /\ ~(In(chan', d) /\ In(batch', d))
               /\ pc'[d] = "queued" <=> In(chan', d) \/ In(batch', d)
               /\ In(batch', d) => req'[d].r.op # "delete"
    <3>1. CASE d = c
      BY <3>1, <1>1, <1>3, <1>5 DEF Inv, QueueOK
    <3>2. CASE d # c
      BY <3>2, <1>1, <1>3, <1>5 DEF Inv, QueueOK
    <3> QED BY <3>1, <3>2
  <2>2. running' = FALSE
    BY <1>1 DEF Inv, Values
  <2> QED BY <1>3, <1>5, <2>1, <2>2 DEF QueueOK, In, Once
<1>7. ObjectsOK' /\ StepsOK'
  BY <1>1 DEF Inv, ObjectsOK, StepsOK, StepOK, Fits, NeedIndexInsert, index, Held,
              Holding, Getting
<1>8. IndexOK'
  BY <1>1, IndexSame DEF Inv
<1>9. Values'
  BY <1>1, <1>3, <1>5 DEF Inv, Values
<1> QED BY <1>6, <1>7, <1>8, <1>9 DEF Inv

LEMMA WorkerStartInv ==
    ASSUME Inv, WorkerStart
    PROVE  Inv'
<1>1. /\ batch # <<>> /\ running' = TRUE
      /\ UNCHANGED <<meta, rows, index, chan, batch, pc, req>>
  BY DEF WorkerStart
<1>2. QueueOK'
  BY <1>1 DEF Inv, QueueOK, In, Once
<1>3. ObjectsOK' /\ StepsOK'
  BY <1>1 DEF Inv, ObjectsOK, StepsOK, StepOK, Fits, NeedIndexInsert, index, Held,
              Holding, Getting
<1>4. IndexOK'
  BY <1>1, IndexSame DEF Inv
<1>5. Values'
  BY <1>1 DEF Inv, Values
<1> QED BY <1>2, <1>3, <1>4, <1>5 DEF Inv

LEMMA WorkerDeleteInv ==
    ASSUME Inv, WorkerDelete
    PROVE  Inv'
<1> DEFINE c == Head(chan)
<1>1. /\ chan # <<>> /\ req[c].r.op = "delete" /\ rows' = <<>> /\ chan' = Tail(chan)
      /\ pc' = [pc EXCEPT ![c] = "forget"] /\ ~running /\ batch = <<>>
      /\ UNCHANGED <<meta, index, batch, running, req>>
  BY DEF WorkerDelete, DeleteNext, Goto
<1>2. chan \in Seq(Clients) /\ Once(chan) /\ Once(batch)
  BY DEF Inv, Values, QueueOK
<1>3. /\ c \in Clients /\ chan' \in Seq(Clients) /\ In(chan, c) /\ Once(chan')
      /\ \A d : In(chan', d) <=> In(chan, d) /\ d # c
  BY <1>1, <1>2, InTail
<1> HIDE DEF c
<1>4. /\ pc[c] = "queued" /\ ~In(batch, c) /\ ~Holding(pc[c]) /\ ~Getting(c)
      /\ req[c] \in Handler /\ req[c].obj = 0
  BY <1>3 DEF Inv, QueueOK, Values, ObjectsOK, Holding, Getting
<1>5. req' = [req EXCEPT ![c] = req[c]]
  BY <1>1 DEF Inv, Values
<1>6. "forget" \in Steps /\ ~Holding("forget") /\ StepOK("forget", req[c])
  BY <1>1 DEF Steps, Holding, StepOK
<1>7. UNCHANGED <<objs, cur>>
  BY <1>1 DEF index
<1>8. /\ pc' \in [Clients -> Steps] /\ req' \in [Clients -> Handler]
      /\ ObjectsOK' /\ StepsOK'
  BY <1>1, <1>3, <1>4, <1>5, <1>6, <1>7, MoveEmpty
<1>9. QueueOK'
  <2>1. ASSUME NEW d \in Clients
        PROVE  /\ ~(In(chan', d) /\ In(batch', d))
               /\ pc'[d] = "queued" <=> In(chan', d) \/ In(batch', d)
               /\ In(batch', d) => req'[d].r.op # "delete"
    <3>1. CASE d = c
      BY <3>1, <1>1, <1>3, <1>4 DEF Inv, Values
    <3>2. CASE d # c
      BY <3>2, <1>1, <1>3 DEF Inv, QueueOK, Values
    <3> QED BY <3>1, <3>2
  <2>2. running' = FALSE /\ Once(batch')
    BY <1>1, <1>2 DEF Inv, Values
  <2> QED BY <1>3, <2>1, <2>2 DEF QueueOK, In, Once
<1>10. IndexOK'
  BY <1>1, IndexSame DEF Inv
<1>11. Values'
  <2>1. rows' \in Seq(Seq(Byte))
    BY <1>1
  <2>2. Len(rows') <= MaxLength
    <3>1. Len(rows') = 0
      BY <1>1
    <3>2. 0 <= MaxLength
      BY CapacityAssumption
    <3> QED BY <3>1, <3>2
  <2> QED BY <1>1, <1>3, <1>8, <2>1, <2>2 DEF Inv, Values
<1> QED BY <1>8, <1>9, <1>10, <1>11 DEF Inv

\* A save is served: its row is written or it is refused.
LEMMA WriteMoves ==
    ASSUME Inv, NEW c \in Clients, pc[c] = "queued", Write(c)
    PROVE  /\ rows' \in Seq(Seq(Byte)) /\ Len(rows') <= MaxLength
           /\ \E s \in Steps, h \in Handler :
                 /\ pc' = [pc EXCEPT ![c] = s] /\ req' = [req EXCEPT ![c] = h]
                 /\ StepOK(s, h) /\ h.obj = 0 /\ ~Holding(s) /\ s # "queued"
<1> DEFINE r == req[c].r
<1>1. /\ r.op \in SaveOps /\ req[c] \in Handler /\ req[c].obj = 0
      /\ Fits(r, req[c].size) /\ StepOK("queued", req[c])
  <2>1. r.op \in SaveOps
    BY DEF Write, Rank, SaveOps
  <2>2. req[c] \in Handler /\ req[c].obj = 0 /\ StepOK("queued", req[c])
    BY DEF Inv, Values, ObjectsOK, StepsOK, Holding, Getting
  <2> QED BY <2>1, <2>2 DEF StepOK
<1>2. rows \in Seq(Seq(Byte)) /\ Len(rows) <= MaxLength
  BY DEF Inv, Values
<1>3. ASSUME Return(c)
      PROVE  \E s \in Steps, h \in Handler :
                 /\ pc' = [pc EXCEPT ![c] = s] /\ req' = [req EXCEPT ![c] = h]
                 /\ StepOK(s, h) /\ h.obj = 0 /\ ~Holding(s) /\ s # "queued"
  <2>1. pc' = [pc EXCEPT ![c] = "idle"] /\ req' = [req EXCEPT ![c] = Idle]
    BY <1>3 DEF Return, Goto
  <2>2. "idle" \in Steps /\ ~Holding("idle")
    BY DEF Steps, Holding
  <2> QED BY <2>1, <2>2, IdleHandler
<1>4. CASE InRange(r)
  <2>1. /\ EffID(r) \in Nat
        /\ Written(c) \in Seq(Seq(Byte)) /\ Len(Written(c)) <= MaxLength
    BY <1>1, <1>2, <1>4, WrittenFacts
  <2>2. rows' = Written(c)
    BY <1>4 DEF Write
  <2> DEFINE s == IF r.key = NoKey THEN "answered" ELSE "index"
             h == [req[c] EXCEPT !.pos = EffID(r)]
  <2>3. pc' = [pc EXCEPT ![c] = s] /\ req' = [req EXCEPT ![c] = h]
    BY <1>4 DEF Write, Goto
  <2>4. PICK p \in Nat : p = EffID(r)
    BY <2>1
  <2>5. h \in Handler /\ h.obj = 0 /\ h.r = r
    BY <1>1, <2>4 DEF Handler
  <2> HIDE DEF h
  <2>6. s \in Steps /\ s # "queued" /\ ~Holding(s) /\ StepOK(s, h)
    BY <1>1, <2>5 DEF Steps, Holding, StepOK
  <2> QED BY <2>1, <2>2, <2>3, <2>5, <2>6
<1>5. CASE ~InRange(r)
  <2>1. rows' = Refused(c) /\ Return(c)
    BY <1>5 DEF Write
  <2>2. Refused(c) \in Seq(Seq(Byte)) /\ Len(Refused(c)) <= MaxLength
    BY <1>1, <1>2, RefusedFacts
  <2> QED BY <1>3, <2>1, <2>2
<1> QED BY <1>4, <1>5

\* A read is served.
LEMMA ReadMoves ==
    ASSUME Inv, NEW c \in Clients, pc[c] = "queued", Read(c)
    PROVE  /\ rows' = rows
           /\ \E s \in Steps, h \in Handler :
                 /\ pc' = [pc EXCEPT ![c] = s] /\ req' = [req EXCEPT ![c] = h]
                 /\ StepOK(s, h) /\ h.obj = 0 /\ ~Holding(s) /\ s # "queued"
<1> DEFINE r == req[c].r
           n == IF r.id < Len(rows) THEN r.id ELSE Len(rows)
           pos == req[c].pos
           found == RowsRead(r, pos)
           got == [i \in DOMAIN found |-> DecodeIncEntry(found[i])]
           h == [req[c] EXCEPT !.got = got]
<1>1. /\ req[c] \in Handler /\ req[c].obj = 0 /\ r.op \notin SaveOps
      /\ r.id \in Nat /\ pos \in Nat
  <2>1. req[c] \in Handler /\ req[c].obj = 0
    BY DEF Inv, Values, ObjectsOK, Holding, Getting
  <2>2. r.op \notin SaveOps
    BY DEF Read, Rank, SaveOps
  <2> QED BY <2>1, <2>2, HandlerFields
<1>2. rows \in Seq(Seq(Byte)) /\ Len(rows) \in Nat /\ \A i \in 1 .. Len(rows) : rows[i] \in Seq(Byte)
  BY DEF Inv, Values
<1>3. rows' = rows /\ pc' = [pc EXCEPT ![c] = "got"] /\ req' = [req EXCEPT ![c] = h]
  BY DEF Read, Goto
<1>4. found \in Seq(Seq(Byte))
  <2>1. n \in Nat /\ n <= Len(rows)
    BY <1>1, <1>2
  <2> HIDE DEF n
  <2>2. SubSeq(rows, 1, n) \in Seq(Seq(Byte))
    <3>1. \A i \in 1 .. n : rows[i] \in Seq(Byte)
      BY <1>2, <2>1
    <3> QED BY <2>1, <3>1, SubSeqProperties
  <2>3. [i \in 1 .. n |-> rows[Len(rows) + 1 - i]] \in Seq(Seq(Byte))
    <3>1. \A i \in 1 .. n : Len(rows) + 1 - i \in 1 .. Len(rows)
      BY <1>2, <2>1
    <3>2. \A i \in 1 .. n : rows[Len(rows) + 1 - i] \in Seq(Byte)
      BY <1>2, <3>1
    <3> QED BY <2>1, <3>2
  <2>4. ASSUME pos < Len(rows) PROVE <<rows[pos + 1]>> \in Seq(Seq(Byte))
    <3>1. pos + 1 \in 1 .. Len(rows)
      BY <1>1, <1>2, <2>4
    <3>2. rows[pos + 1] \in Seq(Byte)
      BY <1>2, <3>1
    <3> QED BY <3>2
  <2>5. CASE r.op = "first"
    <3>1. found = SubSeq(rows, 1, n)
      BY <2>5 DEF RowsRead, n
    <3> QED BY <2>2, <3>1
  <2>6. CASE r.op = "last"
    <3>1. found = [i \in 1 .. n |-> rows[Len(rows) + 1 - i]]
      BY <2>6 DEF RowsRead, n
    <3> QED BY <2>3, <3>1
  <2>7. CASE r.op \notin {"first", "last"}
    <3>1. found = IF pos < Len(rows) THEN <<rows[pos + 1]>> ELSE <<>>
      BY <2>7 DEF RowsRead
    <3>2. <<>> \in Seq(Seq(Byte))
      OBVIOUS
    <3> QED BY <2>4, <3>1, <3>2
  <2> QED BY <2>5, <2>6, <2>7
<1> HIDE DEF found, pos
<1>5. got \in Seq(Seq(Byte))
  <2>1. \A i \in 1 .. Len(found) : found[i] \in Seq(Byte)
    BY <1>4
  <2>2. \A i \in 1 .. Len(found) : DecodeIncEntry(found[i]) \in Seq(Byte)
    BY <2>1, DecodedRow
  <2>3. DOMAIN found = 1 .. Len(found) /\ Len(found) \in Nat
    BY <1>4
  <2> QED BY <2>2, <2>3
<1> HIDE DEF got
<1>6. h \in Handler /\ h.obj = 0 /\ h.r = r
  BY <1>1, <1>5 DEF Handler
<1> HIDE DEF h
<1>7. "got" \in Steps /\ ~Holding("got") /\ StepOK("got", h)
  BY <1>1, <1>6 DEF Steps, Holding, StepOK
<1> QED BY <1>3, <1>6, <1>7

\* The client that the worker serves waits for it.
LEMMA Served ==
    ASSUME Inv, NEW i \in DOMAIN batch
    PROVE  /\ batch[i] \in Clients /\ pc[batch[i]] = "queued"
           /\ ~In(chan, batch[i]) /\ In(batch, batch[i])
<1>1. batch[i] \in Clients /\ In(batch, batch[i])
  BY DEF Inv, Values, In
<1> QED BY <1>1 DEF Inv, QueueOK

LEMMA WorkerServeInv ==
    ASSUME Inv, WorkerServe
    PROVE  Inv'
<1>1. PICK i \in DOMAIN batch : (Write(batch[i]) \/ Read(batch[i])) /\ batch' = Without(i)
  BY DEF WorkerServe
<1>2. running' = (Len(batch) > 1) /\ meta' = meta /\ UNCHANGED index /\ chan' = chan
  BY DEF WorkerServe
<1>3. PICK c \in Clients : /\ c = batch[i] /\ pc[c] = "queued" /\ ~In(chan, c)
                           /\ In(batch, c)
  BY Served
<1>4. PICK s \in Steps, h \in Handler :
          /\ rows' \in Seq(Seq(Byte)) /\ Len(rows') <= MaxLength
          /\ pc' = [pc EXCEPT ![c] = s] /\ req' = [req EXCEPT ![c] = h]
          /\ StepOK(s, h) /\ h.obj = 0 /\ ~Holding(s) /\ s # "queued"
  <2>1. CASE Write(c)
    BY <1>3, <2>1, WriteMoves
  <2>2. CASE Read(c)
    <3>1. rows \in Seq(Seq(Byte)) /\ Len(rows) <= MaxLength
      BY DEF Inv, Values
    <3> QED BY <1>3, <2>2, <3>1, ReadMoves
  <2> QED BY <1>1, <1>3, <2>1, <2>2
<1>5. batch \in Seq(Clients) /\ Once(batch) /\ Len(batch) \in Nat
  BY DEF Inv, Values, QueueOK
<1>6. /\ batch' \in Seq(Clients) /\ Len(batch') = Len(batch) - 1 /\ Once(batch')
      /\ \A d : In(batch', d) <=> In(batch, d) /\ d # c
  BY <1>1, <1>3, <1>5, InWithout
<1>7. ~Holding(pc[c]) /\ ~Getting(c) /\ UNCHANGED <<objs, cur>>
  BY <1>2, <1>3 DEF Holding, Getting, index
<1>8. /\ pc' \in [Clients -> Steps] /\ req' \in [Clients -> Handler]
      /\ ObjectsOK' /\ StepsOK'
  BY <1>4, <1>7, MoveEmpty
<1>9. QueueOK'
  <2>1. ASSUME NEW d \in Clients
        PROVE  /\ ~(In(chan', d) /\ In(batch', d))
               /\ pc'[d] = "queued" <=> In(chan', d) \/ In(batch', d)
               /\ In(batch', d) => req'[d].r.op # "delete"
    <3>1. CASE d = c
      BY <3>1, <1>2, <1>3, <1>4, <1>6 DEF Inv, Values
    <3>2. CASE d # c
      BY <3>2, <1>2, <1>4, <1>6 DEF Inv, QueueOK, Values
    <3> QED BY <3>1, <3>2
  <2>2. running' => batch' # <<>>
    <3>1. ASSUME Len(batch) > 1 PROVE batch' # <<>>
      <4>1. Len(batch') # 0
        BY <1>5, <1>6, <3>1
      <4> QED BY <4>1
    <3> QED BY <1>2, <3>1
  <2>3. Once(chan')
    BY <1>2 DEF Inv, QueueOK
  <2> QED BY <1>6, <2>1, <2>2, <2>3 DEF QueueOK, In, Once
<1>10. IndexOK'
  BY <1>2, IndexSame DEF Inv
<1>11. Values'
  <2>1. running' \in BOOLEAN
    BY <1>2
  <2>2. meta' \in Sizes \cup {NoTable} /\ chan' \in Seq(Clients)
    BY <1>2 DEF Inv, Values
  <2> QED BY <1>4, <1>6, <1>8, <2>1, <2>2 DEF Values
<1> QED BY <1>8, <1>9, <1>10, <1>11 DEF Inv

\* The process dies.
LEMMA CrashInv ==
    ASSUME Inv, Crash
    PROVE  Inv'
<1>1. /\ objs' = NoObjects /\ cur' = 0 /\ chan' = <<>> /\ batch' = <<>> /\ running' = FALSE
      /\ pc' = [c \in Clients |-> "idle"] /\ req' = [c \in Clients |-> Idle]
      /\ meta' = meta /\ file' = file
  BY DEF Crash
<1>2. rows' \in Seq(Seq(Byte)) /\ Len(rows') <= MaxLength
  <2>1. CASE rows' = rows
    BY <2>1 DEF Inv, Values
  <2>2. CASE rows' \in Torn
    <3>1. PICK c \in Clients : \E src \in EffID(req[c].r) .. Len(rows) :
              Inserting(c) /\ rows' = Shifted(req[c].size, EffID(req[c].r), src)
      BY <2>2 DEF Torn
    <3>2. PICK src \in EffID(req[c].r) .. Len(rows) :
              Inserting(c) /\ rows' = Shifted(req[c].size, EffID(req[c].r), src)
      BY <3>1
    <3>3. /\ rows \in Seq(Seq(Byte)) /\ Len(rows) <= MaxLength /\ req[c] \in Handler
          /\ req[c].r.op = "insert" /\ InRange(req[c].r) /\ pc[c] = "queued"
          /\ StepOK(pc[c], req[c])
      BY <3>2, Served DEF Inserting, Inv, Values, StepsOK
    <3>4. req[c].r.op \in SaveOps /\ Fits(req[c].r, req[c].size) /\ req[c].size \in Nat
      BY <3>3, HandlerFields DEF StepOK, SaveOps
    <3>5. EffID(req[c].r) \in Nat
      BY <3>3, <3>4, WrittenFacts
    <3>6. src \in 0 .. Len(rows)
      BY <3>2, <3>5
    <3>7. rows' \in Seq(Seq(Byte)) /\ Len(rows') = Len(rows) + 1
      BY <3>2, <3>3, <3>4, <3>6, ShiftedFacts
    <3>8. Len(rows) < MaxRows
      BY <3>3 DEF InRange
    <3>9. Len(rows) + 1 <= MaxLength
      BY <3>3, <3>8, CapacityAssumption
    <3> QED BY <3>7, <3>9
  <2> QED BY <2>1, <2>2 DEF Crash
<1>3. Values'
  <2>1. pc' \in [Clients -> Steps]
    BY <1>1 DEF Steps
  <2>2. req' \in [Clients -> Handler]
    BY <1>1, IdleHandler
  <2>3. chan' \in Seq(Clients)
    BY <1>1
  <2>4. batch' \in Seq(Clients)
    BY <1>1
  <2>5. running' \in BOOLEAN
    BY <1>1
  <2>6. meta' \in Sizes \cup {NoTable}
    BY <1>1 DEF Inv, Values
  <2> QED BY <1>2, <2>1, <2>2, <2>3, <2>4, <2>5, <2>6 DEF Values
<1>4. IndexOK'
  <2>1. GoodObjects(NoObjects)
    BY DEF NoObjects, GoodObjects
  <2>2. GoodObjects(objs)' /\ file' \in Seq(Slots) /\ Distinct(file)'
    BY <1>1, <2>1 DEF Inv, IndexOK, GoodObjects, Good, Table, OneToOne, Distinct
  <2> QED BY <1>1, <2>2 DEF IndexOK
<1>5. ObjectsOK'
  <2>1. Held(Clients)' = {}
    BY <1>1 DEF Held, Idle
  <2>2. DOMAIN objs' = {}
    BY <1>1 DEF NoObjects
  <2> QED BY <1>1, <2>1, <2>2 DEF ObjectsOK, Holding, Idle
<1>6. StepsOK'
  BY <1>1 DEF StepsOK, StepOK
<1>7. QueueOK'
  BY <1>1 DEF QueueOK, Once, In
<1> QED BY <1>3, <1>4, <1>5, <1>6, <1>7 DEF Inv

-----------------------------------------------------------------------------
(* Theorems *)

LEMMA ClientInv ==
    ASSUME Inv, NEW c \in Clients, Client(c)
    PROVE  Inv'
<1>1. CASE \E r \in Saves, size \in Sizes : c \in Savers /\ SaveOpen(c, r, size)
  BY <1>1, SaveOpenInv
<1>2. CASE \E r \in Reads : c \in Readers /\ ReadOpen(c, r)
  BY <1>2, ReadOpenInv
<1>3. CASE SaveCreate(c) \/ SaveCheck(c) \/ SaveReturn(c) \/ SaveApply(c)
  BY <1>3, SaveCreateInv, SaveCheckInv, SaveReturnInv, SaveApplyInv
<1>4. CASE ReadLookup(c) \/ ReadReturn(c) \/ (c \in Deleters /\ DeleteOpen(c))
  BY <1>4, ReadLookupInv, ReadReturnInv, DeleteOpenInv
<1>5. CASE DeleteForget(c) \/ DeleteUnlink(c) \/ DeleteMeta(c)
  BY <1>5, DeleteForgetInv, DeleteUnlinkInv, DeleteMetaInv
<1>6. CASE IndexGet(c) \/ IndexPublish(c) \/ Send(c)
  BY <1>6, IndexGetInv, IndexPublishInv, SendInv
<1> QED BY <1>1, <1>2, <1>3, <1>4, <1>5, <1>6 DEF Client

LEMMA StepInv == Inv /\ [Next]_vars => Inv'
<1> SUFFICES ASSUME Inv, [Next]_vars PROVE Inv'
  OBVIOUS
<1>1. CASE Worker
  BY <1>1, WorkerReceiveInv, WorkerStartInv, WorkerDeleteInv, WorkerServeInv DEF Worker
<1>2. CASE Crash
  BY <1>2, CrashInv
<1>3. CASE \E c \in Clients : Client(c)
  BY <1>3, ClientInv
<1>4. CASE UNCHANGED vars
  <2>1. /\ UNCHANGED <<meta, rows, worker>> /\ UNCHANGED index /\ pc' = pc /\ req' = req
        /\ chan' = chan /\ batch' = batch /\ running' = running
    BY <1>4 DEF vars, worker, index
  <2>2. QueueOK'
    BY <2>1 DEF Inv, QueueOK, In, Once
  <2>3. ObjectsOK' /\ StepsOK'
    BY <2>1 DEF Inv, ObjectsOK, StepsOK, StepOK, Fits, NeedIndexInsert, index, Held,
                Holding, Getting
  <2>4. IndexOK'
    BY <2>1, IndexSame DEF Inv
  <2>5. Values'
    BY <2>1 DEF Inv, Values
  <2> QED BY <2>2, <2>3, <2>4, <2>5 DEF Inv
<1> QED BY <1>1, <1>2, <1>3, <1>4 DEF Next

THEOREM Invariant == Spec => []Inv
<1>1. Init => Inv
  BY Initially
<1>2. Inv /\ [Next]_vars => Inv'
  BY StepInv
<1> QED BY <1>1, <1>2, PTL DEF Spec

\* Whatever clients save, read and delete, and wherever the process dies, the state
\* keeps its types, every index object is published or in the hands of a handler,
\* and who waits for the worker is in its queue once (getIndex, fileWorkerLoop).
THEOREM Typing == Spec => []TypeOK
<1>1. Inv => TypeOK
  BY InvGives
<1> QED BY <1>1, Invariant, PTL

\* Every index object and the .idx file name each slot by one key and each key by
\* one slot, however saves, deletes and crashes interleave (incIndex Insert, Set).
THEOREM Sound == Spec => []IndexSound
<1>1. Inv => IndexSound
  BY InvGives
<1> QED BY <1>1, Invariant, PTL

\* Until the worker serves it, a handler that waits stays where it is, and the rows
\* are as they were.
LEMMA ClientWaits ==
    ASSUME Inv, NEW c \in Clients, Client(c)
    PROVE  rows' = rows /\ \A d \in Clients : pc[d] = "queued" => pc'[d] \notin {"answered", "index"}
<1>1. pc \in [Clients -> Steps]
  BY DEF Inv, Values
<1>2. ASSUME NEW s, Goto(c, s) PROVE \A d \in Clients \ {c} : pc'[d] = pc[d]
  BY <1>1, <1>2 DEF Goto
<1>3. ASSUME NEW r, NEW size, Proceed(c, r, size)
      PROVE  \A d \in Clients \ {c} : pc'[d] = pc[d]
  BY <1>2, <1>3, Zenon DEF Proceed, Return
<1>4. CASE \E r \in Saves, size \in Sizes : c \in Savers /\ SaveOpen(c, r, size)
  <2>1. PICK r \in Saves, size \in Sizes : SaveOpen(c, r, size)
    BY <1>4
  <2>2. rows' = rows /\ pc[c] # "queued" /\ (Goto(c, "create") \/ Proceed(c, r, meta))
    BY <2>1 DEF SaveOpen
  <2> QED BY <1>2, <1>3, <2>2, Zenon
<1>5. CASE \E r \in Reads : c \in Readers /\ ReadOpen(c, r)
  <2>1. /\ rows' = rows /\ pc[c] # "queued"
        /\ \E r : Goto(c, IF r.op = "by_key" THEN "look" ELSE "send")
    BY <1>5 DEF ReadOpen
  <2> QED BY <1>2, <2>1, Zenon
<1>6. CASE SaveCreate(c)
  <2>1. rows' = rows /\ pc[c] # "queued" /\ Proceed(c, req[c].r, req[c].size)
    BY <1>6 DEF SaveCreate
  <2> QED BY <1>3, <2>1, Zenon
<1>7. CASE SaveCheck(c)
  <2>1. rows' = rows /\ pc[c] # "queued" /\ (Goto(c, "idle") \/ Goto(c, "send"))
    BY <1>7 DEF SaveCheck, Return
  <2> QED BY <1>2, <2>1, Zenon
<1>8. CASE SaveApply(c)
  <2>1. rows' = rows /\ pc[c] # "queued" /\ Goto(c, "idle")
    BY <1>8 DEF SaveApply, Return
  <2> QED BY <1>2, <2>1, Zenon
<1>9. CASE ReadLookup(c)
  <2>1. rows' = rows /\ pc[c] # "queued" /\ (Goto(c, "idle") \/ Goto(c, "send"))
    BY <1>9 DEF ReadLookup, Return
  <2> QED BY <1>2, <2>1, Zenon
<1>10. CASE SaveReturn(c) \/ ReadReturn(c) \/ DeleteMeta(c)
  <2>1. rows' = rows /\ pc[c] # "queued" /\ Goto(c, "idle")
    BY <1>10 DEF SaveReturn, ReadReturn, DeleteMeta, Return
  <2> QED BY <1>2, <2>1, Zenon
<1>11. CASE DeleteOpen(c) \/ DeleteForget(c) \/ DeleteUnlink(c)
  <2>1. /\ rows' = rows /\ pc[c] # "queued"
        /\ Goto(c, "send") \/ Goto(c, "unlink") \/ Goto(c, "unmeta")
    BY <1>11 DEF DeleteOpen, DeleteForget, DeleteUnlink
  <2> QED BY <1>2, <2>1, Zenon
<1>12. CASE IndexGet(c) \/ IndexPublish(c)
  <2>1. rows' = rows /\ pc[c] # "queued" /\ (pc' = pc \/ Goto(c, WithIndex(pc[c])))
    BY <1>12 DEF IndexGet, IndexPublish, Getting
  <2> QED BY <1>2, <2>1, Zenon
<1>13. CASE Send(c)
  <2>1. rows' = rows /\ pc[c] # "queued" /\ Goto(c, "queued")
    BY <1>13 DEF Send
  <2> QED BY <1>2, <2>1, Zenon
<1> QED BY <1>4, <1>5, <1>6, <1>7, <1>8, <1>9, <1>10, <1>11, <1>12, <1>13 DEF Client

\* The id answered to a save, with a key or without, is the place of its row when it
\* was written, as many rows from the end it was counted from as the request asked for
\* (executeBatch).
THEOREM Acknowledged == Spec => AckPlacesRow
<1> DEFINE Ack(c) ==
        pc[c] = "queued" /\ pc'[c] \in {"answered", "index"} =>
          LET r == req[c].r
              i == req'[c].pos + 1
          IN  /\ i \in DOMAIN rows' /\ DecodeIncEntry(rows'[i]) = Body[r.key]
              /\ r.op = "append" => i = Len(rows')
              /\ r.op # "append" =>
                    r.id = IF r.from = "top" THEN Len(rows') - i ELSE i - 1
<1>1. ASSUME Inv, [Next]_vars, NEW c \in Clients PROVE Ack(c)
  <2> SUFFICES ASSUME pc[c] = "queued", pc'[c] \in {"answered", "index"} PROVE Ack(c)
    OBVIOUS
  <2> HIDE DEF Ack
  <2>1. CASE WorkerServe
    <3>1. PICK i \in DOMAIN batch : Write(batch[i]) \/ Read(batch[i])
      BY <2>1 DEF WorkerServe
    <3>2. batch[i] \in Clients /\ pc[batch[i]] = "queued" /\ pc \in [Clients -> Steps]
          /\ req \in [Clients -> Handler]
      BY <1>1, Served DEF Inv, Values
    <3>3. \E s : /\ pc' = [pc EXCEPT ![batch[i]] = s]
                 /\ s \in {"answered", "index"} => Write(batch[i])
      BY <3>1 DEF Write, Read, Goto, Return
    <3>4. batch[i] = c /\ Write(c)
      BY <3>2, <3>3
    <3>5. /\ InRange(req[c].r) /\ rows' = Written(c)
          /\ req' = [req EXCEPT ![c].pos = EffID(req[c].r)]
      BY <3>2, <3>4 DEF Write, Goto, Return
    <3>6. req[c] \in Handler /\ req[c].r.op \in SaveOps /\ StepOK("queued", req[c])
      BY <1>1, <3>2, <3>4 DEF Write, Rank, SaveOps, Inv, StepsOK
    <3>7. Fits(req[c].r, req[c].size)
      BY <3>6 DEF StepOK
    <3>8. rows \in Seq(Seq(Byte)) /\ Len(rows) <= MaxLength
      BY <1>1 DEF Inv, Values
    <3>9. PICK p \in Nat : /\ p = EffID(req[c].r) /\ p + 1 \in 1 .. Len(rows')
                           /\ rows' \in Seq(Seq(Byte))
                           /\ DecodeIncEntry(rows'[p + 1]) = Body[req[c].r.key]
                           /\ req[c].r.op = "append" => p + 1 = Len(rows')
                           /\ req[c].r.op # "append" =>
                                 req[c].r.id = IF req[c].r.from = "top"
                                               THEN Len(rows') - (p + 1) ELSE p
      <4> DEFINE n == Len(rows)
                 p == EffID(req[c].r)
      <4>1. /\ p \in Nat /\ p + 1 \in 1 .. Len(rows') /\ rows' \in Seq(Seq(Byte))
            /\ DecodeIncEntry(rows'[p + 1]) = Body[req[c].r.key]
            /\ req[c].r.op # "overwrite" => Len(rows') = n + 1
            /\ req[c].r.op = "append" => p = n
            /\ req[c].r.op # "append" =>
                  req[c].r.id = IF req[c].r.from = "top" THEN Len(rows') - (p + 1) ELSE p
        BY <3>5, <3>6, <3>7, <3>8, WrittenFacts
      <4> HIDE DEF p, n
      <4>2. req[c].r.op = "append" => p + 1 = Len(rows')
        BY <4>1
      <4> QED BY <4>1, <4>2 DEF p
    <3>10. req'[c].pos = p
      BY <3>2, <3>5, <3>6, <3>9 DEF Handler
    <3>11. DOMAIN rows' = 1 .. Len(rows') /\ (p + 1) - 1 = p
      BY <3>9
    <3> QED BY <3>9, <3>10, <3>11 DEF Ack
  <2>2. CASE WorkerReceive \/ WorkerStart
    BY <2>2 DEF WorkerReceive, WorkerStart
  <2>3. CASE WorkerDelete
    <3>1. pc' = [pc EXCEPT ![Head(chan)] = "forget"] /\ pc \in [Clients -> Steps]
      BY <1>1, <2>3 DEF WorkerDelete, Goto, Inv, Values
    <3> QED BY <3>1
  <2>4. CASE Crash
    BY <2>4 DEF Crash
  <2>5. CASE \E d \in Clients : Client(d)
    BY <1>1, <2>5, ClientWaits
  <2>6. CASE UNCHANGED vars
    BY <2>6 DEF vars
  <2> QED BY <1>1, <2>1, <2>2, <2>3, <2>4, <2>5, <2>6 DEF Next, Worker
<1>2. Inv /\ [Next]_vars => \A c \in Clients : Ack(c)
  BY <1>1
<1>3. Spec => [][\A c \in Clients : Ack(c)]_vars
  <2> HIDE DEF Ack
  <2> QED BY <1>2, Invariant, PTL DEF Spec
<1> QED BY <1>3 DEF AckPlacesRow

\* Rows are embedded in those of a list that has one more among them, or at its end.
LEMMA EmbedsMoved ==
    ASSUME NEW S, NEW a \in Seq(S), NEW b \in Seq(S), NEW src \in 0 .. Len(a),
           Len(b) = Len(a) + 1,
           \A i \in 1 .. src : b[i] = a[i],
           \A i \in src + 1 .. Len(a) : b[i + 1] = a[i]
    PROVE  Embeds(a, b)
<1> DEFINE n == Len(a)
           at(i) == IF i <= src THEN i ELSE i + 1
           f == [i \in 1 .. n |-> at(i)]
<1>1. n \in Nat /\ src \in Nat /\ src <= n /\ DOMAIN a = 1 .. n /\ DOMAIN b = 1 .. n + 1
  OBVIOUS
<1> HIDE DEF n
<1>2. \A i \in 1 .. n : at(i) \in 1 .. n + 1
  BY <1>1
<1>3. f \in [1 .. n -> 1 .. n + 1] /\ \A i \in 1 .. n : f[i] = at(i)
  <2> HIDE DEF at
  <2> QED BY <1>2
<1>4. ASSUME NEW i \in 1 .. n PROVE b[f[i]] = a[i]
  <2>1. CASE i <= src
    <3>1. i \in 1 .. src /\ f[i] = i
      BY <1>1, <1>3, <2>1
    <3> QED BY <3>1
  <2>2. CASE ~(i <= src)
    <3>1. i \in src + 1 .. Len(a) /\ f[i] = i + 1
      BY <1>1, <1>3, <2>2 DEF n
    <3> QED BY <3>1
  <2> QED BY <2>1, <2>2
<1>5. ASSUME NEW i \in 1 .. n, NEW j \in 1 .. n, i < j PROVE f[i] < f[j]
  BY <1>1, <1>3, <1>5
<1> HIDE DEF f
<1>6. \A i, j \in DOMAIN a : b[f[i]] = a[i] /\ (i < j => f[i] < f[j])
  BY <1>1, <1>4, <1>5
<1> QED BY <1>1, <1>3, <1>6 DEF Embeds

LEMMA EmbedsPrefix ==
    ASSUME NEW S, NEW a \in Seq(S), NEW b \in Seq(S), Len(b) >= Len(a),
           \A i \in 1 .. Len(a) : b[i] = a[i]
    PROVE  Embeds(a, b)
<1> DEFINE f == [i \in 1 .. Len(a) |-> i]
<1>1. DOMAIN a = 1 .. Len(a) /\ DOMAIN b = 1 .. Len(b) /\ Len(a) \in Nat /\ Len(b) \in Nat
  OBVIOUS
<1>2. f \in [DOMAIN a -> DOMAIN b]
  BY <1>1
<1>3. \A i \in DOMAIN a : f[i] = i
  BY <1>1
<1> HIDE DEF f
<1>4. \A i, j \in DOMAIN a : b[f[i]] = a[i] /\ (i < j => f[i] < f[j])
  BY <1>1, <1>3
<1> QED BY <1>2, <1>4 DEF Embeds

\* Every row outlives a step, in the order the rows have, unless the step deletes
\* the file or overwrites that row: wherever the process dies in an insert, no row
\* was overwritten before it was copied (executeBatch, "reverse-copy").
THEOREM Kept == Spec => RowsKept
<1> DEFINE Keeps ==
        \/ Embeds(rows, rows')
        \/ rows' = <<>>
        \/ /\ Len(rows') = Len(rows)
           /\ \E i \in DOMAIN rows : \A j \in DOMAIN rows \ {i} : rows'[j] = rows[j]
<1>1. ASSUME Inv, [Next]_vars PROVE Keeps
  <2>1. rows \in Seq(Seq(Byte)) /\ Len(rows) \in Nat /\ Len(rows) <= MaxLength
        /\ DOMAIN rows = 1 .. Len(rows)
    BY <1>1 DEF Inv, Values
  <2>2. ASSUME rows' = rows PROVE Keeps
    <3>1. Embeds(rows, rows)
      BY <2>1, EmbedsPrefix
    <3> QED BY <2>2, <3>1
  <2>3. ASSUME NEW c \in Clients, pc[c] = "queued", Write(c) PROVE Keeps
    <3> DEFINE r == req[c].r
    <3>1. req[c] \in Handler /\ r.op \in SaveOps /\ StepOK("queued", req[c])
      BY <1>1, <2>3 DEF Write, Rank, SaveOps, Inv, Values, StepsOK
    <3>2. Fits(r, req[c].size)
      BY <3>1 DEF StepOK
    <3>3. CASE InRange(r)
      <4> DEFINE pos == EffID(r)
                 new == Written(c)
      <4>1. rows' = new
        BY <2>3, <3>3 DEF Write
      <4>2. /\ pos \in Nat /\ pos + 1 \in 1 .. Len(new) /\ new \in Seq(Seq(Byte))
            /\ r.op # "overwrite" =>
                  /\ Len(new) = Len(rows) + 1 /\ pos \in 0 .. Len(rows)
                  /\ \A i \in 1 .. pos : new[i] = rows[i]
                  /\ \A i \in pos + 1 .. Len(rows) : new[i + 1] = rows[i]
            /\ r.op = "overwrite" =>
                  /\ Len(new) = Len(rows)
                  /\ \A i \in 1 .. Len(rows) : i # pos + 1 => new[i] = rows[i]
        BY <2>1, <3>1, <3>2, <3>3, WrittenFacts
      <4> HIDE DEF new, pos
      <4>3. CASE r.op # "overwrite"
        <5>1. Embeds(rows, new)
          BY <2>1, <4>2, <4>3, EmbedsMoved
        <5> QED BY <4>1, <5>1
      <4>4. CASE r.op = "overwrite"
        <5>1. Len(new) = Len(rows) /\ pos + 1 \in DOMAIN rows
          BY <2>1, <4>2, <4>4
        <5>2. \A j \in DOMAIN rows \ {pos + 1} : new[j] = rows[j]
          BY <2>1, <4>2, <4>4
        <5> QED BY <4>1, <5>1, <5>2
      <4> QED BY <4>3, <4>4
    <3>4. CASE ~InRange(r)
      <4>1. rows' = Refused(c)
        BY <2>3, <3>4 DEF Write
      <4>2. /\ Refused(c) \in Seq(Seq(Byte)) /\ Len(Refused(c)) >= Len(rows)
            /\ \A i \in 1 .. Len(rows) : Refused(c)[i] = rows[i]
        BY <2>1, <3>1, RefusedFacts
      <4>3. Embeds(rows, Refused(c))
        BY <2>1, <4>2, EmbedsPrefix
      <4> QED BY <4>1, <4>3
    <3> QED BY <3>3, <3>4
  <2>4. CASE WorkerServe
    <3>1. PICK i \in DOMAIN batch : Write(batch[i]) \/ Read(batch[i])
      BY <2>4 DEF WorkerServe
    <3>2. batch[i] \in Clients /\ pc[batch[i]] = "queued"
      BY <1>1, Served
    <3>3. CASE Write(batch[i])
      BY <2>3, <3>2, <3>3
    <3>4. CASE Read(batch[i])
      BY <2>2, <3>4 DEF Read
    <3> QED BY <3>1, <3>3, <3>4
  <2>5. CASE WorkerDelete
    BY <2>5 DEF WorkerDelete
  <2>6. CASE WorkerReceive \/ WorkerStart
    BY <2>2, <2>6 DEF WorkerReceive, WorkerStart
  <2>7. CASE Crash
    <3>1. CASE rows' = rows
      BY <2>2, <3>1
    <3>2. CASE rows' \in Torn
      <4>1. PICK c \in Clients : \E src \in EffID(req[c].r) .. Len(rows) :
                Inserting(c) /\ rows' = Shifted(req[c].size, EffID(req[c].r), src)
        BY <3>2 DEF Torn
      <4>2. PICK src \in EffID(req[c].r) .. Len(rows) :
                Inserting(c) /\ rows' = Shifted(req[c].size, EffID(req[c].r), src)
        BY <4>1
      <4>3. /\ req[c] \in Handler /\ req[c].r.op = "insert" /\ InRange(req[c].r)
            /\ StepOK("queued", req[c])
        BY <1>1, <4>2, Served DEF Inserting, Inv, Values, StepsOK
      <4>4. req[c].r.op \in SaveOps /\ Fits(req[c].r, req[c].size) /\ req[c].size \in Nat
        BY <4>3, HandlerFields DEF StepOK, SaveOps
      <4>5. EffID(req[c].r) \in Nat
        BY <2>1, <4>3, <4>4, WrittenFacts
      <4>6. src \in 0 .. Len(rows)
        BY <2>1, <4>2, <4>5
      <4>7. /\ rows' \in Seq(Seq(Byte)) /\ Len(rows') = Len(rows) + 1
            /\ \A i \in 1 .. src : rows'[i] = rows[i]
            /\ \A i \in src + 1 .. Len(rows) : rows'[i + 1] = rows[i]
        BY <2>1, <4>2, <4>4, <4>6, ShiftedFacts
      <4>8. Embeds(rows, rows')
        BY <2>1, <4>6, <4>7, EmbedsMoved
      <4> QED BY <4>8
    <3> QED BY <2>7, <3>1, <3>2 DEF Crash
  <2>8. CASE \E c \in Clients : Client(c)
    BY <1>1, <2>2, <2>8, ClientWaits
  <2>9. CASE UNCHANGED vars
    BY <2>2, <2>9 DEF vars
  <2> QED BY <1>1, <2>4, <2>5, <2>6, <2>7, <2>8, <2>9 DEF Next, Worker
<1>2. Inv /\ [Next]_vars => Keeps
  BY <1>1
<1>3. Spec => [][Keeps]_vars
  <2> HIDE DEF Keeps
  <2> QED BY <1>2, Invariant, PTL DEF Spec
<1> QED BY <1>3 DEF RowsKept

-----------------------------------------------------------------------------
(* One saver, which appends rows and inserts rows under keys, beside any number of *)
(* readers; it may delete the table if it is alone, and the process may die at any *)
(* step if rows are only appended. With more savers, or rows inserted without a    *)
(* key, keys lose their rows: see KeyFindsRow.                                     *)

AppendOnly == \A r \in Saves : r.op = "append"

OneSaver ==
    /\ \E c : Savers = {c}
    /\ Deleters \subseteq Savers /\ (Deleters # {} => Readers \subseteq Savers)
    /\ \A r \in Saves : r.op # "overwrite" /\ (r.op = "insert" => r.key # NoKey)
    /\ MayCrash => Deleters = {} /\ AppendOnly

\* No row moves between the look-up of a key and the read of its row.
Steady == AppendOnly \/ Readers \subseteq Savers

\* Every key of a list is that of its row.
Placed(rs, keys) ==
    \A i \in 1 .. Len(keys) : keys[i] # NoKey =>
        i \in 1 .. Len(rs) /\ DecodeIncEntry(rs[i]) = Body[keys[i]]

\* With f the keys of the index: the key of a save is not in it until the save is.
KeyOK(f, step, h) ==
    LET k == h.r.key
    IN  /\ h.r.op # "overwrite"
        /\ h.r.op = "insert" => k # NoKey /\ ~AppendOnly
        /\ h.r.op = "delete" => Deleters # {}
        /\ step \in {"send", "queued", "index", "apply"} /\ h.r.op \in SaveOps /\ k # NoKey =>
              \A i \in 1 .. Len(f) : f[i] # k

\* The position looked up is that of the key, the answer is the key's body.
LookOK(f, step, h) ==
    LET k == h.r.key
    IN  /\ step \in {"send", "queued"} /\ h.r.op = "by_key" =>
              h.pos + 1 \in 1 .. Len(f) /\ f[h.pos + 1] = k /\ k # NoKey
        /\ step = "got" /\ h.r.op = "by_key" => h.got = <<Body[k]>>

\* No key has a slot after the first pos.
Behind(f, pos) == \A i \in 1 .. Len(f) : f[i] # NoKey => i <= pos

\* The rows rs are those of the index, or will be once the row just written is in it;
\* a row that was appended has moved none of the others.
RowsOK(rs, f, step, h) ==
    /\ step \in {"index", "apply"} => Placed(rs, Opened(Pad(f, h.pos), h.pos, h.r.key))
    /\ step \in {"index", "apply"} /\ h.r.op = "append" => Placed(rs, f) /\ Behind(f, h.pos)
    /\ step \notin {"index", "apply", "forget", "unlink"} => Placed(rs, f)

\* The published index has the keys of the file, and so has any as long as none is.
Shared == \A o \in DOMAIN objs : cur \in {0, o} => objs[o].keys = file

SerialInv ==
    /\ Shared
    /\ \A c \in Clients :
          /\ Holding(pc[c]) => req[c].obj = cur
          /\ pc[c] = "unlink" => cur = 0
          /\ c \notin Savers => req[c].r.op \in ReadOps \cup {"none"}
          /\ KeyOK(file, pc[c], req[c])
          /\ Steady => LookOK(file, pc[c], req[c])
          /\ c \in Savers => RowsOK(rows, file, pc[c], req[c])

\* The index has exactly the keys of its slots.
LEMMA SlotOf ==
    ASSUME NEW t, Good(t), NEW k
    PROVE  /\ Has(t, k) => /\ k # NoKey /\ t.positions[k] \in Nat
                           /\ t.positions[k] + 1 \in 1 .. Len(t.keys)
                           /\ t.keys[t.positions[k] + 1] = k
           /\ ~Has(t, k) /\ k # NoKey => \A i \in 1 .. Len(t.keys) : t.keys[i] # k
<1>1. DOMAIN t.keys = 1 .. Len(t.keys) /\ DOMAIN t.positions \subseteq EntryKeys
      /\ t.positions \in [DOMAIN t.positions -> Nat]
  BY DEF Good, Table
<1>2. ASSUME Has(t, k)
      PROVE  /\ k # NoKey /\ t.positions[k] \in Nat
             /\ t.positions[k] + 1 \in 1 .. Len(t.keys) /\ t.keys[t.positions[k] + 1] = k
  BY <1>1, <1>2, NoKeyAssumption DEF Good, OneToOne, Has
<1>3. ASSUME ~Has(t, k), k # NoKey, NEW i \in 1 .. Len(t.keys) PROVE t.keys[i] # k
  BY <1>1, <1>3 DEF Good, OneToOne, Has
<1> QED BY <1>2, <1>3

\* Rows that come behind the others leave them in place.
LEMMA PlacedLonger ==
    ASSUME NEW rs \in Seq(Seq(Byte)), NEW rt \in Seq(Seq(Byte)), NEW f, Placed(rs, f),
           Len(rt) >= Len(rs), \A i \in 1 .. Len(rs) : rt[i] = rs[i]
    PROVE  Placed(rt, f)
<1>1. Len(rs) \in Nat /\ Len(rt) \in Nat
  OBVIOUS
<1> SUFFICES ASSUME NEW i \in 1 .. Len(f), f[i] # NoKey
             PROVE  i \in 1 .. Len(rt) /\ DecodeIncEntry(rt[i]) = Body[f[i]]
  BY DEF Placed
<1>2. i \in 1 .. Len(rs) /\ DecodeIncEntry(rs[i]) = Body[f[i]]
  BY DEF Placed
<1>3. i \in 1 .. Len(rt) /\ rt[i] = rs[i]
  BY <1>1, <1>2
<1> QED BY <1>2, <1>3

\* A row that is written between the others, and its key between theirs (Insert).
LEMMA PlacedInsert ==
    ASSUME NEW rs \in Seq(Seq(Byte)), NEW rt \in Seq(Seq(Byte)), NEW f \in Seq(Slots),
           NEW pos \in 0 .. Len(rs), NEW key \in Slots,
           Placed(rs, f), Len(rt) = Len(rs) + 1,
           \A i \in 1 .. pos : rt[i] = rs[i],
           \A i \in pos + 1 .. Len(rs) : rt[i + 1] = rs[i],
           DecodeIncEntry(rt[pos + 1]) = Body[key]
    PROVE  Placed(rt, Opened(Pad(f, pos), pos, key))
<1> DEFINE padded == Pad(f, pos)
           keys == Opened(padded, pos, key)
           m == Len(padded)
           n == Len(rs)
<1>1. n \in Nat /\ pos \in Nat /\ pos <= n /\ Len(f) \in Nat
  OBVIOUS
<1>2. /\ padded \in Seq(Slots) /\ m \in Nat /\ m >= Len(f) /\ m >= pos
      /\ \A i \in 1 .. Len(f) : padded[i] = f[i]
      /\ \A i \in 1 .. m : i > Len(f) => padded[i] = NoKey
  <2>1. /\ padded \in Seq(Slots)
        /\ Len(padded) = IF pos > Len(f) THEN pos ELSE Len(f)
        /\ \A i \in 1 .. Len(f) : padded[i] = f[i]
        /\ \A i \in 1 .. Len(padded) : i > Len(f) => padded[i] = NoKey
    BY <1>1, PadFacts
  <2> HIDE DEF padded
  <2>2. m \in Nat /\ m >= Len(f) /\ m >= pos
    BY <1>1, <2>1
  <2> QED BY <2>1, <2>2
<1>3. pos \in 0 .. m
  BY <1>1, <1>2
<1> HIDE DEF padded
<1>4. /\ Len(keys) = m + 1 /\ keys[pos + 1] = key
      /\ \A i \in 1 .. pos : keys[i] = padded[i]
      /\ \A i \in pos + 1 .. m : keys[i + 1] = padded[i]
  BY <1>2, <1>3, OpenedFacts
<1> HIDE DEF keys, m
<1>5. ASSUME NEW j \in 1 .. m, padded[j] # NoKey
      PROVE  j \in 1 .. n /\ DecodeIncEntry(rs[j]) = Body[padded[j]]
  <2>0. ~ (j > Len(f))
    BY <1>2, <1>5
  <2>1. j \in 1 .. Len(f) /\ padded[j] = f[j]
    BY <1>1, <1>2, <2>0
  <2> QED BY <2>1, <1>5 DEF Placed
<1> SUFFICES ASSUME NEW i \in 1 .. m + 1, keys[i] # NoKey
             PROVE  i \in 1 .. n + 1 /\ DecodeIncEntry(rt[i]) = Body[keys[i]]
  BY <1>4 DEF Placed, keys, padded
<1>6. CASE i = pos + 1
  <2>1. i \in 1 .. n + 1
    BY <1>1, <1>6
  <2> QED BY <1>4, <1>6, <2>1
<1>7. CASE i <= pos
  <2>1. i \in 1 .. m /\ i \in 1 .. pos
    BY <1>1, <1>2, <1>7
  <2>2. keys[i] = padded[i] /\ rt[i] = rs[i]
    BY <1>4, <2>1
  <2>3. i \in 1 .. n /\ DecodeIncEntry(rs[i]) = Body[padded[i]]
    BY <1>5, <2>1, <2>2
  <2>4. i \in 1 .. n + 1
    BY <1>1, <2>3
  <2> QED BY <2>2, <2>3, <2>4
<1>8. CASE i > pos + 1
  <2> DEFINE j == i - 1
  <2>1. j \in 1 .. m /\ j \in pos + 1 .. m /\ i = j + 1
    BY <1>1, <1>2, <1>8
  <2> HIDE DEF j
  <2>2. keys[i] = padded[j]
    BY <1>4, <2>1
  <2>3. j \in 1 .. n /\ DecodeIncEntry(rs[j]) = Body[padded[j]]
    BY <1>5, <2>1, <2>2
  <2>4. j \in pos + 1 .. n /\ i \in 1 .. n + 1
    BY <1>1, <2>1, <2>3
  <2>5. rt[i] = rs[j]
    BY <2>1, <2>4
  <2> QED BY <2>2, <2>3, <2>4, <2>5
<1> QED BY <1>1, <1>6, <1>7, <1>8

\* A key that is inserted behind all others leaves them in place.
LEMMA OpenedBehind ==
    ASSUME NEW f \in Seq(Slots), NEW pos \in Nat, NEW key \in Slots, Behind(f, pos),
           NEW i \in 1 .. Len(f), f[i] # NoKey
    PROVE  LET g == Opened(Pad(f, pos), pos, key)
           IN  i \in 1 .. Len(g) /\ g[i] = f[i]
<1> DEFINE p == Pad(f, pos)
           g == Opened(p, pos, key)
<1>1. p \in Seq(Slots) /\ Len(p) = (IF pos > Len(f) THEN pos ELSE Len(f)) /\ p[i] = f[i]
  BY PadFacts
<1>2. Len(f) \in Nat /\ Len(p) \in Nat /\ i <= pos
  BY <1>1 DEF Behind
<1>3. pos \in 0 .. Len(p)
  BY <1>1, <1>2
<1> HIDE DEF p
<1>4. Len(g) = Len(p) + 1 /\ \A j \in 1 .. pos : g[j] = p[j]
  BY <1>1, <1>3, OpenedFacts
<1>5. i \in 1 .. pos /\ i \in 1 .. Len(p) + 1
  BY <1>2, <1>3
<1> QED BY <1>1, <1>4, <1>5 DEF p

\* There is one saver, and the others only read.
LEMMA Roles ==
    ASSUME OneSaver
    PROVE  /\ Savers \subseteq Clients
           /\ \A c, d \in Savers : c = d
           /\ \A c \in Clients : c \notin Savers => c \in Readers /\ Deleters = {}
           /\ Deleters # {} => \A c, d \in Clients : c = d
<1>1. PICK w : Savers = {w}
  BY DEF OneSaver
<1>2. ASSUME NEW c \in Clients, c \notin Savers PROVE c \in Readers /\ Deleters = {}
  BY <1>2 DEF OneSaver, Clients
<1>3. ASSUME Deleters # {}, NEW c \in Clients PROVE c = w
  BY <1>1, <1>2, <1>3
<1> QED BY <1>1, <1>2, <1>3 DEF Clients

\* The others ask nothing of the index but where keys are.
LEMMA OtherOK ==
    ASSUME NEW f, NEW g, NEW s, NEW h, h.r.op \in ReadOps \cup {"none"}, KeyOK(f, s, h)
    PROVE  KeyOK(g, s, h)
BY DEF KeyOK, ReadOps, SaveOps

\* A client goes to step s with h in hand.
LEMMA SerialMove ==
    ASSUME OneSaver, Inv, SerialInv, NEW c \in Clients, NEW s, NEW h,
           pc' = [pc EXCEPT ![c] = s], req' = [req EXCEPT ![c] = h],
           Shared', Holding(s) => h.obj = cur', s = "unlink" => cur' = 0,
           c \notin Savers => /\ h.r.op \in ReadOps \cup {"none"}
                              /\ file' = file /\ rows' = rows,
           KeyOK(file', s, h), Steady => LookOK(file', s, h),
           c \in Savers => RowsOK(rows', file', s, h),
           \/ cur' = cur
           \/ \A d \in Clients \ {c} : ~Holding(pc[d]) /\ pc[d] # "unlink",
           \/ file' = file
           \/ Steady => \A d \in Clients \ {c} : LookOK(file', pc[d], req[d])
    PROVE  SerialInv'
<1>1. pc'[c] = s /\ req'[c] = h /\ \A d \in Clients \ {c} : pc'[d] = pc[d] /\ req'[d] = req[d]
  BY DEF Inv, Values
<1>2. ASSUME NEW d \in Clients \ {c}
      PROVE  /\ Holding(pc[d]) => req[d].obj = cur'
             /\ pc[d] = "unlink" => cur' = 0
             /\ d \notin Savers => req[d].r.op \in ReadOps \cup {"none"}
             /\ KeyOK(file', pc[d], req[d])
             /\ Steady => LookOK(file', pc[d], req[d])
             /\ d \in Savers => RowsOK(rows', file', pc[d], req[d])
  <2>1. /\ Holding(pc[d]) => req[d].obj = cur'
        /\ pc[d] = "unlink" => cur' = 0
        /\ d \notin Savers => req[d].r.op \in ReadOps \cup {"none"}
        /\ Steady => LookOK(file', pc[d], req[d])
    BY DEF SerialInv
  <2>2. KeyOK(file, pc[d], req[d]) /\ (d \in Savers => RowsOK(rows, file, pc[d], req[d]))
    BY DEF SerialInv
  <2>3. CASE d \in Savers
    <3>1. c \notin Savers
      BY <2>3, Roles
    <3> QED BY <2>1, <2>2, <3>1
  <2>4. CASE d \notin Savers
    BY <2>1, <2>2, <2>4, OtherOK
  <2> QED BY <2>3, <2>4
<1> SUFFICES ASSUME NEW d \in Clients
             PROVE  /\ Holding(pc'[d]) => req'[d].obj = cur'
                    /\ pc'[d] = "unlink" => cur' = 0
                    /\ d \notin Savers => req'[d].r.op \in ReadOps \cup {"none"}
                    /\ KeyOK(file', pc'[d], req'[d])
                    /\ Steady => LookOK(file', pc'[d], req'[d])
                    /\ d \in Savers => RowsOK(rows', file', pc'[d], req'[d])
  BY DEF SerialInv, KeyOK, LookOK, RowsOK, Placed, Behind, Holding
<1> QED BY <1>1, <1>2

\* What a client has in hand.
LEMMA SerialNow ==
    ASSUME OneSaver, Inv, SerialInv, NEW c \in Clients
    PROVE  /\ pc[c] \in Steps /\ req[c] \in Handler /\ StepOK(pc[c], req[c])
           /\ file \in Seq(Slots) /\ rows \in Seq(Seq(Byte)) /\ Len(rows) <= MaxLength
           /\ \A o \in DOMAIN objs : Good(objs[o])
           /\ Holding(pc[c]) => /\ req[c].obj = cur /\ cur # 0 /\ cur \in DOMAIN objs
                                /\ objs[cur].keys = file
           /\ pc[c] = "unlink" => DOMAIN objs = {}
           /\ c \notin Savers => req[c].r.op \in ReadOps \cup {"none"}
           /\ KeyOK(file, pc[c], req[c])
           /\ Steady => LookOK(file, pc[c], req[c])
           /\ c \in Savers => RowsOK(rows, file, pc[c], req[c])
<1>1. /\ pc[c] \in Steps /\ req[c] \in Handler /\ StepOK(pc[c], req[c])
      /\ file \in Seq(Slots) /\ rows \in Seq(Seq(Byte)) /\ Len(rows) <= MaxLength
      /\ \A o \in DOMAIN objs : Good(objs[o])
  BY DEF Inv, Values, StepsOK, IndexOK, GoodObjects
<1>2. /\ Holding(pc[c]) => req[c].obj = cur
      /\ pc[c] = "unlink" => cur = 0
      /\ c \notin Savers => req[c].r.op \in ReadOps \cup {"none"}
      /\ KeyOK(file, pc[c], req[c])
      /\ Steady => LookOK(file, pc[c], req[c])
      /\ c \in Savers => RowsOK(rows, file, pc[c], req[c])
  BY DEF SerialInv
<1>3. ASSUME Holding(pc[c])
      PROVE  req[c].obj = cur /\ cur # 0 /\ cur \in DOMAIN objs /\ objs[cur].keys = file
  <2>1. req[c].obj = cur /\ cur # 0
    BY <1>2, <1>3 DEF Inv, ObjectsOK
  <2>2. cur \in DOMAIN objs
    BY <2>1 DEF Inv, IndexOK
  <2> QED BY <2>1, <2>2 DEF SerialInv, Shared
<1>4. ASSUME pc[c] = "unlink" PROVE DOMAIN objs = {}
  <2>1. cur = 0 /\ req[c].obj = 0
    BY <1>2, <1>4 DEF Inv, ObjectsOK, Holding, Getting
  <2>2. Deleters # {}
    BY <1>1, <1>2, <1>4 DEF StepOK, KeyOK
  <2>3. Held(Clients \ {c}) = {}
    BY <2>2, Roles DEF Held
  <2>4. Held(Clients) = {}
    BY <2>1, <2>3, HeldSplit
  <2> QED BY <2>1, <2>4, ZeroIsNoObject DEF Inv, ObjectsOK, IndexOK, GoodObjects
<1> QED BY <1>1, <1>2, <1>3, <1>4

\* Collecting objects leaves those there are with their keys.
LEMMA CollectShared ==
    ASSUME Shared, cur' = cur, file' = file, NEW live, objs' = Collect(objs, live)
    PROVE  Shared'
BY DEF Collect, Shared

\* Only the step counts while the request and the index stay.
LEMMA KeySame ==
    ASSUME NEW f, NEW s, NEW t, NEW h, NEW g, KeyOK(f, s, h), g.r = h.r,
           t \in {"send", "queued", "index", "apply"} =>
               s \in {"send", "queued", "index", "apply"}
    PROVE  KeyOK(f, t, g)
BY DEF KeyOK

LEMMA LookSame ==
    ASSUME NEW f, NEW s, NEW t, NEW h, NEW g, LookOK(f, s, h), g.r = h.r, t # "got",
           t \in {"send", "queued"} => g.pos = h.pos /\ s \in {"send", "queued"}
    PROVE  LookOK(f, t, g)
BY DEF LookOK

LEMMA RowsSame ==
    ASSUME NEW rs, NEW f, NEW s, NEW t, NEW h, NEW g, RowsOK(rs, f, s, h),
           t \in {"index", "apply"} =>
               s \in {"index", "apply"} /\ g.r = h.r /\ g.pos = h.pos,
           s \in {"index", "apply", "forget", "unlink"} =>
               t \in {"index", "apply", "forget", "unlink"}
    PROVE  RowsOK(rs, f, t, g)
BY DEF RowsOK

LEMMA IdleOK == \A f : /\ KeyOK(f, "idle", Idle) /\ LookOK(f, "idle", Idle)
                       /\ Idle.r.op = "none"
BY DEF KeyOK, LookOK, Idle, NoRequest

LEMMA IndexGetSerial ==
    ASSUME OneSaver, Inv, SerialInv, NEW c \in Clients, IndexGet(c)
    PROVE  SerialInv'
<1>1. /\ req[c] \in Handler /\ KeyOK(file, pc[c], req[c])
      /\ c \notin Savers => req[c].r.op \in ReadOps \cup {"none"}
      /\ Steady => LookOK(file, pc[c], req[c])
      /\ c \in Savers => RowsOK(rows, file, pc[c], req[c])
  BY SerialNow
<1>2. pc[c] \in {"check", "look", "index"} /\ file' = file /\ rows' = rows /\ cur' = cur
      /\ pc \in [Clients -> Steps] /\ req \in [Clients -> Handler] /\ Shared
  BY DEF IndexGet, Getting, Inv, Values, SerialInv
<1>3. CASE cur # 0
  <2> DEFINE s == WithIndex(pc[c])
             h == [req[c] EXCEPT !.obj = cur]
  <2>1. pc' = [pc EXCEPT ![c] = s] /\ req' = [req EXCEPT ![c] = h] /\ objs' = objs
    BY <1>3 DEF IndexGet, Goto
  <2>2. h.r = req[c].r /\ h.pos = req[c].pos /\ h.obj = cur
    BY <1>1 DEF Handler
  <2>3. s \in {"checked", "looking", "apply"} /\ (s = "apply" => pc[c] = "index")
        /\ (pc[c] = "index" => s = "apply")
    BY <1>2 DEF WithIndex
  <2> HIDE DEF s, h
  <2>4. KeyOK(file, s, h) /\ (Steady => LookOK(file, s, h))
    BY <1>1, <1>2, <2>2, <2>3, KeySame, LookSame
  <2>5. c \in Savers => RowsOK(rows, file, s, h)
    BY <1>1, <1>2, <2>2, <2>3, RowsSame
  <2>6. Shared'
    BY <1>2, <2>1 DEF Shared
  <2> QED BY <1>1, <1>2, <2>1, <2>2, <2>3, <2>4, <2>5, <2>6, SerialMove
<1>4. CASE cur = 0
  <2>1. PICK o \in Objects : /\ objs' = [x \in DOMAIN objs \cup {o} |->
                                            IF x = o THEN Load(file) ELSE objs[x]]
                             /\ req' = [req EXCEPT ![c].obj = o]
    <3>1. DOMAIN objs \subseteq Held(Clients)
      BY <1>4, ZeroIsNoObject DEF Inv, ObjectsOK, IndexOK, GoodObjects
    <3> QED BY <1>4, <3>1, FreshObject DEF IndexGet, Inv
  <2> DEFINE s == pc[c]
             h == [req[c] EXCEPT !.obj = o]
  <2>2. pc' = [pc EXCEPT ![c] = s] /\ req' = [req EXCEPT ![c] = h]
    BY <1>2, <1>4, <2>1 DEF IndexGet
  <2>3. h.r = req[c].r /\ h.pos = req[c].pos
    BY <1>1 DEF Handler
  <2>4. Shared'
    BY <1>2, <1>4, <2>1 DEF Load, Shared
  <2>5. ~Holding(s) /\ s # "unlink" /\ s # "got" /\ s \notin {"send", "queued"}
    BY <1>2 DEF Holding
  <2> HIDE DEF h
  <2>6. KeyOK(file, s, h) /\ (Steady => LookOK(file, s, h))
    BY <1>1, <1>2, <2>3, <2>5, KeySame, LookSame
  <2>7. c \in Savers => RowsOK(rows, file, s, h)
    BY <1>1, <2>3, RowsSame
  <2> HIDE DEF s
  <2> QED BY <1>1, <1>2, <2>2, <2>3, <2>4, <2>5, <2>6, <2>7, SerialMove
<1> QED BY <1>3, <1>4

LEMMA IndexPublishSerial ==
    ASSUME OneSaver, Inv, SerialInv, NEW c \in Clients, IndexPublish(c)
    PROVE  SerialInv'
<1>1. /\ req[c] \in Handler /\ KeyOK(file, pc[c], req[c])
      /\ c \notin Savers => req[c].r.op \in ReadOps \cup {"none"}
      /\ Steady => LookOK(file, pc[c], req[c])
      /\ c \in Savers => RowsOK(rows, file, pc[c], req[c])
  BY SerialNow
<1>2. pc[c] \in {"check", "look", "index"} /\ file' = file /\ rows' = rows
      /\ pc \in [Clients -> Steps] /\ req \in [Clients -> Handler] /\ Shared
  BY DEF IndexPublish, Getting, Inv, Values, SerialInv
<1> DEFINE s == WithIndex(pc[c])
           h == [req[c] EXCEPT !.obj = cur']
<1>3. pc' = [pc EXCEPT ![c] = s] /\ req' = [req EXCEPT ![c] = h]
  <2>1. req[c] = [req[c] EXCEPT !.obj = req[c].obj]
    BY <1>1 DEF Handler
  <2>2. req = [req EXCEPT ![c] = req[c]]
    BY <1>2
  <2> QED BY <2>1, <2>2 DEF IndexPublish, Goto
<1>4. h.r = req[c].r /\ h.pos = req[c].pos /\ h.obj = cur'
  BY <1>1 DEF Handler
<1>5. s \in {"checked", "looking", "apply"} /\ (s = "apply" => pc[c] = "index")
      /\ (pc[c] = "index" => s = "apply")
  BY <1>2 DEF WithIndex
<1>6. Shared'
  <2>1. CASE cur = 0 /\ cur' = req[c].obj /\ objs' = objs
    BY <1>2, <2>1 DEF Shared
  <2>2. CASE cur' = cur /\ objs' = Collect(objs, Held(Clients \ {c}) \cup {cur})
    BY <1>2, <2>2, CollectShared
  <2> QED BY <2>1, <2>2 DEF IndexPublish
<1> HIDE DEF s, h
<1>7. KeyOK(file, s, h) /\ (Steady => LookOK(file, s, h))
  BY <1>1, <1>4, <1>5, KeySame, LookSame
<1>8. c \in Savers => RowsOK(rows, file, s, h)
  BY <1>1, <1>2, <1>4, <1>5, RowsSame
<1>9. cur' = cur \/ \A d \in Clients \ {c} : ~Holding(pc[d]) /\ pc[d] # "unlink"
  <2> SUFFICES ASSUME cur' # cur, NEW d \in Clients \ {c}
               PROVE  ~Holding(pc[d]) /\ pc[d] # "unlink"
    OBVIOUS
  <2>1. cur = 0
    BY DEF IndexPublish
  <2>2. ~Holding(pc[d])
    BY <2>1, SerialNow
  <2>3. ASSUME pc[d] = "unlink" PROVE FALSE
    <3>1. StepOK(pc[d], req[d]) /\ KeyOK(file, pc[d], req[d])
      BY SerialNow
    <3>2. Deleters # {}
      BY <2>3, <3>1 DEF StepOK, KeyOK
    <3> QED BY <3>2, Roles
  <2> QED BY <2>2, <2>3
<1>10. Holding(s) => h.obj = cur'
  BY <1>4
<1>11. s # "unlink"
  BY <1>5
<1> QED BY <1>1, <1>2, <1>3, <1>4, <1>6, <1>7, <1>8, <1>9, <1>10, <1>11, SerialMove

\* A client goes on with no index object in hand; those there are stay.
LEMMA SerialOn ==
    ASSUME OneSaver, Inv, SerialInv, NEW c \in Clients, NEW s, NEW h,
           pc' = [pc EXCEPT ![c] = s], req' = [req EXCEPT ![c] = h],
           ~Holding(s), s # "unlink", UNCHANGED index,
           c \notin Savers => h.r.op \in ReadOps \cup {"none"} /\ rows' = rows,
           KeyOK(file, s, h), Steady => LookOK(file, s, h),
           c \in Savers => RowsOK(rows', file, s, h)
    PROVE  SerialInv'
<1>1. Shared' /\ cur' = cur /\ file' = file
  BY DEF index, SerialInv, Shared
<1> QED BY <1>1, SerialMove

\* A client is back, or leaves a step that is not about rows already written.
LEMMA SerialIdle ==
    ASSUME OneSaver, Inv, SerialInv, NEW c \in Clients, Return(c), Shared', cur' = cur,
           c \in Savers => Placed(rows', file'),
           c \notin Savers => rows' = rows /\ file' = file,
           \/ file' = file
           \/ Steady => \A d \in Clients \ {c} : LookOK(file', pc[d], req[d])
    PROVE  SerialInv'
<1>1. pc' = [pc EXCEPT ![c] = "idle"] /\ req' = [req EXCEPT ![c] = Idle]
  BY DEF Return, Goto
<1>2. (c \in Savers => RowsOK(rows', file', "idle", Idle)) /\ ~Holding("idle")
  BY DEF RowsOK, Holding
<1> QED BY <1>1, <1>2, IdleOK, SerialMove

LEMMA ProceedSerial ==
    ASSUME OneSaver, Inv, SerialInv, NEW c \in Savers, NEW r, NEW size, Proceed(c, r, size),
           r.op \in {"append", "insert"}, r.op = "insert" => r.key # NoKey /\ ~AppendOnly,
           Placed(rows, file), UNCHANGED <<rows, index>>
    PROVE  SerialInv'
<1> DEFINE s == Checked(r)
           h == [Idle EXCEPT !.r = r, !.size = size]
<1>0. c \in Clients
  BY Roles
<1>1. CASE Return(c)
  <2>1. Shared' /\ cur' = cur /\ file' = file /\ rows' = rows
    BY DEF index, SerialInv, Shared
  <2> QED BY <1>0, <1>1, <2>1, SerialIdle
<1>2. CASE pc' = [pc EXCEPT ![c] = s] /\ req' = [req EXCEPT ![c] = h]
  <2>1. h.r = r /\ s \in {"check", "send"} /\ (s = "send" => r.key = NoKey)
    BY DEF Idle, Checked, NeedIndexInsert
  <2> HIDE DEF s, h
  <2>2. KeyOK(file, s, h) /\ LookOK(file, s, h)
    BY <2>1 DEF KeyOK, LookOK
  <2>3. RowsOK(rows, file, s, h) /\ ~Holding(s) /\ s # "unlink" /\ rows' = rows
    BY <2>1 DEF RowsOK, Holding
  <2> QED BY <1>0, <1>2, <2>2, <2>3, SerialOn
<1> QED BY <1>1, <1>2 DEF Proceed, Goto

LEMMA SaveOpenSerial ==
    ASSUME OneSaver, Inv, SerialInv, NEW c \in Savers, NEW r \in Saves,
           NEW size \in Sizes, SaveOpen(c, r, size)
    PROVE  SerialInv'
<1>0. c \in Clients
  BY Roles
<1>1. r.op \in {"append", "insert"} /\ (r.op = "insert" => r.key # NoKey /\ ~AppendOnly)
  BY RequestsAssumption DEF OneSaver, AppendOnly, Request, SaveOps
<1>2. Placed(rows, file) /\ UNCHANGED <<rows, index>>
  BY <1>0, SerialNow DEF SaveOpen, RowsOK
<1>3. CASE meta = NoTable
  <2> DEFINE h == [Idle EXCEPT !.r = r, !.size = size]
  <2>1. pc' = [pc EXCEPT ![c] = "create"] /\ req' = [req EXCEPT ![c] = h]
    BY <1>3 DEF SaveOpen, Goto
  <2>2. h.r = r
    BY DEF Idle
  <2> HIDE DEF h
  <2>3. KeyOK(file, "create", h) /\ LookOK(file, "create", h) /\ RowsOK(rows, file, "create", h)
        /\ ~Holding("create")
    BY <1>1, <1>2, <2>2 DEF KeyOK, LookOK, RowsOK, Holding
  <2> QED BY <1>0, <1>2, <2>1, <2>3, SerialOn
<1>4. CASE meta # NoTable
  <2>1. Proceed(c, r, meta)
    BY <1>4 DEF SaveOpen
  <2> QED BY <1>1, <1>2, <2>1, ProceedSerial
<1> QED BY <1>3, <1>4

\* Who is at a step of a save is the saver.
LEMMA SavesOnly ==
    ASSUME OneSaver, Inv, SerialInv, NEW c \in Clients, req[c].r.op \notin ReadOps \cup {"none"}
    PROVE  c \in Savers
BY DEF SerialInv

LEMMA SaveCreateSerial ==
    ASSUME OneSaver, Inv, SerialInv, NEW c \in Clients, SaveCreate(c)
    PROVE  SerialInv'
<1>1. /\ pc[c] = "create" /\ StepOK(pc[c], req[c]) /\ KeyOK(file, pc[c], req[c])
      /\ c \in Savers => RowsOK(rows, file, pc[c], req[c])
  BY SerialNow DEF SaveCreate
<1>2. req[c].r.op \in SaveOps
  BY <1>1 DEF StepOK
<1>3. c \in Savers
  BY <1>2, SavesOnly DEF SaveOps, ReadOps
<1>4. Placed(rows, file)
  BY <1>1, <1>3 DEF RowsOK
<1>5. /\ req[c].r.op # "overwrite"
      /\ req[c].r.op = "insert" => req[c].r.key # NoKey /\ ~AppendOnly
  BY <1>1 DEF KeyOK
<1>6. req[c].r.op \in {"append", "insert"}
  BY <1>2, <1>5 DEF SaveOps
<1>7. Proceed(c, req[c].r, req[c].size) /\ UNCHANGED <<rows, index>>
  BY DEF SaveCreate
<1> QED BY <1>3, <1>4, <1>5, <1>6, <1>7, ProceedSerial

LEMMA SaveCheckSerial ==
    ASSUME OneSaver, Inv, SerialInv, NEW c \in Clients, SaveCheck(c)
    PROVE  SerialInv'
<1>1. /\ pc[c] = "checked" /\ StepOK(pc[c], req[c]) /\ KeyOK(file, pc[c], req[c])
      /\ c \in Savers => RowsOK(rows, file, pc[c], req[c])
      /\ req[c] \in Handler /\ \A o \in DOMAIN objs : Good(objs[o])
      /\ Holding(pc[c]) => req[c].obj \in DOMAIN objs /\ objs[req[c].obj].keys = file
  BY SerialNow DEF SaveCheck
<1> DEFINE t == objs[req[c].obj]
           k == req[c].r.key
           h == [req[c] EXCEPT !.obj = 0]
<1>2. file' = file /\ rows' = rows /\ cur' = cur /\ t.keys = file /\ Good(t)
  BY <1>1 DEF SaveCheck, Holding
<1>3. req[c].r.op \in SaveOps /\ k # NoKey
  BY <1>1 DEF StepOK, NeedIndexInsert
<1>4. c \in Savers
  BY <1>3, SavesOnly DEF SaveOps, ReadOps
<1>5. Placed(rows, file)
  BY <1>1, <1>4 DEF RowsOK
<1>6. Shared'
  <2>1. objs' = Collect(objs, Held(Clients \ {c}) \cup {cur})
    BY DEF SaveCheck, Drop
  <2> QED BY <1>2, <2>1, CollectShared DEF SerialInv
<1>7. CASE Return(c)
  BY <1>2, <1>5, <1>6, <1>7, SerialIdle
<1>8. CASE ~Has(t, k) /\ pc' = [pc EXCEPT ![c] = "send"] /\ req' = [req EXCEPT ![c] = h]
  <2>1. \A i \in 1 .. Len(file) : file[i] # k
    BY <1>2, <1>3, <1>8, SlotOf
  <2>2. h.r = req[c].r /\ req[c].r.op # "by_key"
    BY <1>1, <1>3 DEF Handler, SaveOps
  <2> HIDE DEF h
  <2>3. KeyOK(file, "send", h)
    BY <1>1, <2>1, <2>2 DEF KeyOK
  <2>4. LookOK(file, "send", h) /\ RowsOK(rows, file, "send", h) /\ ~Holding("send")
    BY <1>5, <2>2 DEF LookOK, RowsOK, Holding
  <2> QED BY <1>2, <1>4, <1>6, <1>8, <2>3, <2>4, SerialMove
<1> QED BY <1>7, <1>8 DEF SaveCheck, Goto

LEMMA SendSerial ==
    ASSUME OneSaver, Inv, SerialInv, NEW c \in Clients, Send(c)
    PROVE  SerialInv'
<1>1. /\ pc' = [pc EXCEPT ![c] = "queued"] /\ req' = [req EXCEPT ![c] = req[c]]
      /\ pc[c] = "send" /\ UNCHANGED <<rows, index>>
  BY DEF Send, Goto, Inv, Values
<1>2. /\ KeyOK(file, pc[c], req[c]) /\ (Steady => LookOK(file, pc[c], req[c]))
      /\ c \in Savers => RowsOK(rows, file, pc[c], req[c])
      /\ c \notin Savers => req[c].r.op \in ReadOps \cup {"none"}
  BY SerialNow
<1>3. KeyOK(file, "queued", req[c]) /\ (Steady => LookOK(file, "queued", req[c]))
      /\ ~Holding("queued")
  BY <1>1, <1>2, KeySame, LookSame DEF Holding
<1>4. c \in Savers => RowsOK(rows, file, "queued", req[c])
  BY <1>1, <1>2, RowsSame
<1>5. rows' = rows /\ UNCHANGED index
  BY <1>1
<1> QED BY <1>1, <1>2, <1>3, <1>4, <1>5, SerialOn

\* Where somebody looked a key up it stays, as nothing but appends goes on.
LEMMA LooksKept ==
    ASSUME OneSaver, Inv, SerialInv, NEW c \in Savers, pc[c] = "apply", Steady,
           file' = Opened(Pad(file, req[c].pos), req[c].pos, req[c].r.key),
           NEW d \in Clients \ {c}
    PROVE  LookOK(file', pc[d], req[d])
<1> DEFINE pos == req[c].pos
<1>1. c \in Clients /\ d \notin Savers
  BY Roles
<1>2. AppendOnly
  BY <1>1, Roles DEF Steady
<1>3. /\ StepOK(pc[c], req[c]) /\ KeyOK(file, pc[c], req[c]) /\ RowsOK(rows, file, pc[c], req[c])
      /\ req[c] \in Handler /\ file \in Seq(Slots)
  BY <1>1, SerialNow
<1>4. req[c].r.op \in SaveOps
  BY <1>3 DEF StepOK
<1>5. req[c].r.op = "append"
  BY <1>2, <1>3, <1>4 DEF KeyOK, SaveOps
<1>6. Behind(file, pos) /\ pos \in Nat /\ req[c].r.key \in Slots
  BY <1>3, <1>5, HandlerFields DEF RowsOK
<1>7. \A i \in 1 .. Len(file) : file[i] # NoKey => i \in 1 .. Len(file') /\ file'[i] = file[i]
  BY <1>3, <1>6, OpenedBehind
<1>8. LookOK(file, pc[d], req[d])
  BY SerialNow
<1> QED BY <1>7, <1>8 DEF LookOK

LEMMA SaveApplySerial ==
    ASSUME OneSaver, Inv, SerialInv, NEW c \in Clients, SaveApply(c)
    PROVE  SerialInv'
<1>1. /\ pc[c] = "apply" /\ rows' = rows /\ cur' = cur /\ Return(c)
      /\ StepOK(pc[c], req[c]) /\ KeyOK(file, pc[c], req[c])
      /\ c \in Savers => RowsOK(rows, file, pc[c], req[c])
      /\ \A o \in DOMAIN objs : Good(objs[o])
      /\ req[c].obj = cur /\ cur \in DOMAIN objs /\ cur # 0 /\ objs[cur].keys = file
  <2>1. pc[c] = "apply" /\ rows' = rows /\ cur' = cur /\ Return(c)
    BY DEF SaveApply
  <2> QED BY <2>1, SerialNow DEF Holding
<1> DEFINE t == objs[req[c].obj]
           k == req[c].r.key
           pos == req[c].pos
           u == Insert(t, pos, k)
<1>2. req[c].r.op \in SaveOps /\ k # NoKey
  BY <1>1 DEF StepOK
<1>3. c \in Savers
  BY <1>2, SavesOnly DEF SaveOps, ReadOps
<1>4. Placed(rows, Opened(Pad(file, pos), pos, k))
  BY <1>1, <1>3 DEF RowsOK
<1>5. req[c].r.op # "overwrite" /\ \A i \in 1 .. Len(file) : file[i] # k
  BY <1>1, <1>2 DEF KeyOK
<1>6. ~Has(t, k)
  BY <1>1, <1>5, SlotOf
<1>7. /\ objs' = Collect([objs EXCEPT ![cur] = u], Held(Clients \ {c}) \cup {cur})
      /\ file' = u.keys
  BY <1>1, <1>5, <1>6 DEF SaveApply
<1>8. u.keys = Opened(Pad(file, pos), pos, k)
  BY <1>1 DEF Insert
<1>9. Shared'
  <2> HIDE DEF u
  <2> QED BY <1>1, <1>7 DEF Collect, Shared
<1>10. file' = Opened(Pad(file, pos), pos, k)
  BY <1>7, <1>8
<1>11. Steady => \A d \in Clients \ {c} : LookOK(file', pc[d], req[d])
  BY <1>1, <1>3, <1>10, LooksKept
<1> QED BY <1>1, <1>3, <1>4, <1>9, <1>10, <1>11, SerialIdle

LEMMA ReadOpenSerial ==
    ASSUME OneSaver, Inv, SerialInv, NEW c \in Readers, NEW r \in Reads, ReadOpen(c, r)
    PROVE  SerialInv'
<1> DEFINE s == IF r.op = "by_key" THEN "look" ELSE "send"
           h == [Idle EXCEPT !.r = r, !.pos = r.id, !.size = meta]
<1>0. c \in Clients
  BY DEF Clients
<1>1. pc' = [pc EXCEPT ![c] = s] /\ req' = [req EXCEPT ![c] = h] /\ rows' = rows /\ UNCHANGED index
  BY DEF ReadOpen, Goto
<1>2. h.r = r /\ r.op \in ReadOps
  BY RequestsAssumption DEF Idle, Request
<1>3. c \in Savers => Placed(rows, file)
  BY <1>0, SerialNow DEF ReadOpen, RowsOK
<1> HIDE DEF h
<1>4. KeyOK(file, s, h) /\ LookOK(file, s, h) /\ ~Holding(s) /\ s # "unlink"
  BY <1>2 DEF KeyOK, LookOK, Holding, ReadOps, SaveOps
<1>5. c \in Savers => RowsOK(rows', file, s, h)
  BY <1>1, <1>3 DEF RowsOK
<1> HIDE DEF s
<1> QED BY <1>0, <1>1, <1>2, <1>4, <1>5, SerialOn

LEMMA ReadLookupSerial ==
    ASSUME OneSaver, Inv, SerialInv, NEW c \in Clients, ReadLookup(c)
    PROVE  SerialInv'
<1>1. /\ pc[c] = "looking" /\ StepOK(pc[c], req[c]) /\ KeyOK(file, pc[c], req[c])
      /\ c \in Savers => RowsOK(rows, file, pc[c], req[c])
      /\ req[c] \in Handler /\ \A o \in DOMAIN objs : Good(objs[o])
      /\ Holding(pc[c]) => req[c].obj \in DOMAIN objs /\ objs[req[c].obj].keys = file
  BY SerialNow DEF ReadLookup
<1> DEFINE t == objs[req[c].obj]
           k == req[c].r.key
           h == [req[c] EXCEPT !.pos = t.positions[k], !.obj = 0]
<1>2. file' = file /\ rows' = rows /\ cur' = cur /\ t.keys = file /\ Good(t)
      /\ req[c].r.op = "by_key"
  BY <1>1 DEF ReadLookup, Holding, StepOK
<1>3. c \in Savers => Placed(rows, file)
  BY <1>1 DEF RowsOK
<1>4. Shared'
  <2>1. objs' = Collect(objs, Held(Clients \ {c}) \cup {cur})
    BY DEF ReadLookup, Drop
  <2> QED BY <1>2, <2>1, CollectShared DEF SerialInv
<1>5. CASE Return(c)
  BY <1>2, <1>3, <1>4, <1>5, SerialIdle
<1>6. CASE Has(t, k) /\ pc' = [pc EXCEPT ![c] = "send"] /\ req' = [req EXCEPT ![c] = h]
  <2>1. /\ k # NoKey /\ t.positions[k] + 1 \in 1 .. Len(file) /\ file[t.positions[k] + 1] = k
    BY <1>2, <1>6, SlotOf
  <2>2. h.r = req[c].r /\ h.pos = t.positions[k]
    BY <1>1 DEF Handler
  <2> HIDE DEF h
  <2>3. KeyOK(file, "send", h)
    BY <1>2, <2>2 DEF KeyOK, SaveOps
  <2>4. LookOK(file, "send", h)
    BY <1>2, <2>1, <2>2 DEF LookOK
  <2>5. (c \in Savers => RowsOK(rows, file, "send", h)) /\ ~Holding("send")
        /\ h.r.op \in ReadOps
    BY <1>2, <1>3, <2>2 DEF RowsOK, Holding, ReadOps
  <2> QED BY <1>2, <1>4, <1>6, <2>3, <2>4, <2>5, SerialMove
<1> QED BY <1>5, <1>6 DEF ReadLookup, Goto

\* Back with the index as it is.
LEMMA SerialBack ==
    ASSUME OneSaver, Inv, SerialInv, NEW c \in Clients, Return(c), UNCHANGED <<rows, index>>,
           pc[c] \notin {"index", "apply", "forget", "unlink"}
    PROVE  SerialInv'
<1>1. c \in Savers => Placed(rows, file)
  BY SerialNow DEF RowsOK
<1>2. Shared' /\ cur' = cur /\ file' = file /\ rows' = rows
  BY DEF index, SerialInv, Shared
<1> QED BY <1>1, <1>2, SerialIdle

\* Who deletes the table is the only client there is.
LEMMA DeletesAlone ==
    ASSUME OneSaver, Inv, SerialInv, NEW c \in Clients, req[c].r.op = "delete"
    PROVE  c \in Savers /\ Clients \ {c} = {}
<1>1. Deleters # {}
  BY SerialNow DEF KeyOK
<1> QED BY <1>1, SavesOnly, Roles DEF ReadOps

LEMMA DeleteOpenSerial ==
    ASSUME OneSaver, Inv, SerialInv, NEW c \in Deleters, DeleteOpen(c)
    PROVE  SerialInv'
<1> DEFINE h == [req[c] EXCEPT !.r.op = "delete"]
<1>0. c \in Clients /\ c \in Savers /\ Deleters # {}
  BY DEF OneSaver, Clients
<1>1. pc' = [pc EXCEPT ![c] = "send"] /\ req' = [req EXCEPT ![c] = h]
      /\ rows' = rows /\ UNCHANGED index
  BY DEF DeleteOpen, Goto
<1>2. Placed(rows, file) /\ req[c] \in Handler
  BY <1>0, SerialNow DEF DeleteOpen, RowsOK
<1>3. h.r.op = "delete"
  BY <1>2 DEF Handler, Request
<1> HIDE DEF h
<1>4. KeyOK(file, "send", h) /\ LookOK(file, "send", h)
  BY <1>0, <1>3 DEF KeyOK, LookOK, SaveOps
<1>5. RowsOK(rows', file, "send", h) /\ ~Holding("send")
  BY <1>1, <1>2 DEF RowsOK, Holding
<1> QED BY <1>0, <1>1, <1>4, <1>5, SerialOn

LEMMA DeleteForgetSerial ==
    ASSUME OneSaver, Inv, SerialInv, NEW c \in Clients, DeleteForget(c)
    PROVE  SerialInv'
<1>1. /\ pc' = [pc EXCEPT ![c] = "unlink"] /\ req' = [req EXCEPT ![c] = req[c]]
      /\ pc[c] = "forget" /\ rows' = rows /\ file' = file /\ cur' = 0
      /\ objs' = Collect(objs, Held(Clients))
  BY DEF DeleteForget, Goto, Inv, Values
<1>2. KeyOK(file, pc[c], req[c]) /\ StepOK(pc[c], req[c])
  BY SerialNow
<1>3. req[c].r.op = "delete" /\ req[c].obj = 0
  BY <1>1, <1>2 DEF StepOK, Inv, ObjectsOK, Holding, Getting
<1>4. c \in Savers /\ Clients \ {c} = {}
  BY <1>3, DeletesAlone
<1>5. Held(Clients) = {}
  BY <1>3, <1>4 DEF Held
<1>6. Shared'
  BY <1>1, <1>5 DEF Collect, Shared
<1>7. KeyOK(file, "unlink", req[c])
  BY <1>1, <1>2, KeySame
<1>8. RowsOK(rows, file, "unlink", req[c]) /\ LookOK(file, "unlink", req[c])
      /\ ~Holding("unlink")
  BY DEF RowsOK, LookOK, Holding
<1>9. \A d \in Clients \ {c} : ~Holding(pc[d]) /\ pc[d] # "unlink"
  BY <1>4
<1> QED BY <1>1, <1>4, <1>6, <1>7, <1>8, <1>9, SerialMove

LEMMA DeleteUnlinkSerial ==
    ASSUME OneSaver, Inv, SerialInv, NEW c \in Clients, DeleteUnlink(c)
    PROVE  SerialInv'
<1>1. /\ pc' = [pc EXCEPT ![c] = "unmeta"] /\ req' = [req EXCEPT ![c] = req[c]]
      /\ pc[c] = "unlink" /\ rows' = rows /\ file' = <<>> /\ objs' = objs /\ cur' = cur
  BY DEF DeleteUnlink, Goto, Inv, Values
<1>2. DOMAIN objs = {} /\ KeyOK(file, pc[c], req[c]) /\ StepOK(pc[c], req[c])
  BY <1>1, SerialNow
<1>3. req[c].r.op = "delete"
  BY <1>1, <1>2 DEF StepOK
<1>4. c \in Savers /\ Clients \ {c} = {}
  BY <1>3, DeletesAlone
<1>5. KeyOK(<<>>, "unmeta", req[c]) /\ LookOK(<<>>, "unmeta", req[c])
  BY <1>2 DEF KeyOK, LookOK
<1>6. Len(<<>>) = 0
  OBVIOUS
<1>7. RowsOK(rows, <<>>, "unmeta", req[c]) /\ ~Holding("unmeta")
  BY <1>6 DEF RowsOK, Holding, Placed
<1>8. Shared' /\ \A d \in Clients \ {c} : LookOK(file', pc[d], req[d])
  BY <1>1, <1>2, <1>4 DEF Shared
<1> QED BY <1>1, <1>4, <1>5, <1>7, <1>8, SerialMove

LEMMA WorkerDeleteSerial ==
    ASSUME OneSaver, Inv, SerialInv, WorkerDelete
    PROVE  SerialInv'
<1> DEFINE c == Head(chan)
<1>1. c \in Clients /\ pc[c] = "queued" /\ req[c].r.op = "delete"
  <2>1. chan \in Seq(Clients) /\ chan # <<>> /\ Once(chan) /\ req[c].r.op = "delete"
    BY DEF WorkerDelete, DeleteNext, Inv, Values, QueueOK
  <2>2. c \in Clients /\ In(chan, c)
    BY <2>1, InTail
  <2> QED BY <2>1, <2>2 DEF Inv, QueueOK
<1>2. /\ pc' = [pc EXCEPT ![c] = "forget"] /\ req' = [req EXCEPT ![c] = req[c]]
      /\ UNCHANGED index
  BY <1>1 DEF WorkerDelete, Goto, Inv, Values
<1> HIDE DEF c
<1>3. c \in Savers
  BY <1>1, DeletesAlone
<1>4. KeyOK(file, pc[c], req[c])
  BY <1>1, SerialNow
<1>5. KeyOK(file, "forget", req[c])
  BY <1>4, KeySame
<1>6. RowsOK(rows', file, "forget", req[c]) /\ LookOK(file, "forget", req[c])
      /\ ~Holding("forget")
  BY DEF RowsOK, LookOK, Holding
<1> QED BY <1>1, <1>2, <1>3, <1>5, <1>6, SerialOn

\* The row of an append or of an insert under a key goes in, or none does.
LEMMA WriteSerial ==
    ASSUME OneSaver, Inv, SerialInv, NEW c \in Clients, pc[c] = "queued", Write(c),
           UNCHANGED index
    PROVE  SerialInv'
<1> DEFINE r == req[c].r
           k == r.key
           pos == EffID(r)
           new == Written(c)
           h == [req[c] EXCEPT !.pos = pos]
<1>1. /\ req[c] \in Handler /\ file \in Seq(Slots)
      /\ rows \in Seq(Seq(Byte)) /\ Len(rows) <= MaxLength
      /\ StepOK("queued", req[c]) /\ KeyOK(file, "queued", req[c])
      /\ c \in Savers => RowsOK(rows, file, "queued", req[c])
  BY SerialNow
<1>2. r.op \in SaveOps
  BY DEF Write, Rank, SaveOps
<1>3. /\ r.op # "overwrite" /\ (r.op = "insert" => k # NoKey)
      /\ k # NoKey => \A i \in 1 .. Len(file) : file[i] # k
      /\ Fits(r, req[c].size)
  BY <1>1, <1>2 DEF KeyOK, StepOK
<1>4. Len(rows) \in Nat /\ k \in Slots
  BY <1>1, HandlerFields
<1>5. c \in Savers
  BY <1>2, SavesOnly DEF SaveOps, ReadOps
<1>6. Placed(rows, file)
  BY <1>1, <1>5 DEF RowsOK
<1>7. Shared' /\ cur' = cur /\ file' = file
  BY DEF index, SerialInv, Shared
<1>8. CASE InRange(r)
  <2>1. /\ DecodeIncEntry(new[pos + 1]) = Body[k] /\ new \in Seq(Seq(Byte))
        /\ Len(new) = Len(rows) + 1 /\ pos \in 0 .. Len(rows)
        /\ \A i \in 1 .. pos : new[i] = rows[i]
        /\ \A i \in pos + 1 .. Len(rows) : new[i + 1] = rows[i]
        /\ r.op = "append" => pos = Len(rows)
    BY <1>1, <1>2, <1>3, <1>8, WrittenFacts
  <2>2. rows' = new
    BY <1>8 DEF Write
  <2>3. r.op = "append" => Placed(new, file) /\ Behind(file, pos)
    <3> SUFFICES ASSUME r.op = "append" PROVE Placed(new, file) /\ Behind(file, pos)
      OBVIOUS
    <3> HIDE DEF new, pos
    <3>1. \A i \in 1 .. Len(rows) : new[i] = rows[i]
      BY <2>1
    <3>2. new \in Seq(Seq(Byte)) /\ Len(new) >= Len(rows)
      BY <1>4, <2>1
    <3>3. Placed(new, file)
      BY <1>1, <1>6, <3>1, <3>2, PlacedLonger
    <3>4. Behind(file, pos)
      BY <1>6, <2>1 DEF Behind, Placed
    <3> QED BY <3>3, <3>4
  <2>4. CASE k = NoKey
    <3>1. /\ pc' = [pc EXCEPT ![c] = "answered"] /\ req' = [req EXCEPT ![c] = h]
          /\ r.op = "append"
      BY <1>2, <1>3, <1>8, <2>4 DEF Write, Goto, SaveOps
    <3>2. h.r = r
      BY <1>1 DEF Handler
    <3> HIDE DEF new, pos, h
    <3>3. KeyOK(file, "answered", h) /\ LookOK(file, "answered", h)
      BY <1>1, <3>2, KeySame DEF LookOK
    <3>4. RowsOK(new, file, "answered", h) /\ ~Holding("answered")
      BY <2>3, <3>1 DEF RowsOK, Holding
    <3> QED BY <1>5, <1>7, <2>2, <3>1, <3>3, <3>4, SerialOn
  <2>5. CASE k # NoKey
    <3>1. pc' = [pc EXCEPT ![c] = "index"] /\ req' = [req EXCEPT ![c] = h]
      BY <1>8, <2>5 DEF Write, Goto
    <3>2. h.r = r /\ h.pos = pos
      BY <1>1 DEF Handler
    <3> HIDE DEF new, pos, h
    <3>3. Placed(new, Opened(Pad(file, pos), pos, k))
      BY <1>1, <1>4, <1>6, <2>1, PlacedInsert
    <3>4. KeyOK(file, "index", h) /\ LookOK(file, "index", h)
      BY <1>1, <3>2, KeySame DEF LookOK
    <3>5. RowsOK(new, file, "index", h) /\ ~Holding("index")
      BY <2>3, <3>2, <3>3 DEF RowsOK, Holding
    <3> QED BY <1>5, <1>7, <2>2, <3>1, <3>4, <3>5, SerialOn
  <2> QED BY <2>4, <2>5
<1>9. CASE ~InRange(r)
  <2>1. Return(c) /\ rows' = Refused(c)
    BY <1>9 DEF Write
  <2>2. /\ Refused(c) \in Seq(Seq(Byte)) /\ Len(Refused(c)) >= Len(rows)
        /\ \A i \in 1 .. Len(rows) : Refused(c)[i] = rows[i]
    BY <1>1, RefusedFacts
  <2>3. Placed(Refused(c), file)
    BY <1>1, <1>6, <2>2, PlacedLonger
  <2> QED BY <1>5, <1>7, <2>1, <2>3, SerialIdle
<1> QED BY <1>8, <1>9

\* Whoever reads finds the rows where the file has them.
LEMMA PlacedNow ==
    ASSUME OneSaver, Inv, SerialInv, Steady, NEW c \in Clients, pc[c] = "queued"
    PROVE  Placed(rows, file)
<1>1. PICK w \in Savers : TRUE
  BY DEF OneSaver
<1>2. w \in Clients
  BY Roles
<1>3. RowsOK(rows, file, pc[w], req[w]) /\ KeyOK(file, pc[w], req[w]) /\ StepOK(pc[w], req[w])
  BY <1>1, <1>2, SerialNow
<1>4. CASE c = w
  BY <1>3, <1>4 DEF RowsOK
<1>5. CASE c # w
  <2>1. c \notin Savers
    BY <1>1, <1>5, Roles
  <2>2. AppendOnly /\ Deleters = {}
    BY <2>1, Roles DEF Steady
  <2>3. pc[w] \notin {"forget", "unlink"}
    BY <1>3, <2>2 DEF StepOK, KeyOK
  <2>4. CASE pc[w] \in {"index", "apply"}
    <3>1. req[w].r.op \in SaveOps
      BY <1>3, <2>4 DEF StepOK
    <3>2. req[w].r.op = "append"
      BY <1>3, <2>2, <3>1 DEF KeyOK, SaveOps
    <3> QED BY <1>3, <2>4, <3>2 DEF RowsOK
  <2> QED BY <1>3, <2>3, <2>4 DEF RowsOK
<1> QED BY <1>4, <1>5

LEMMA ReadSerial ==
    ASSUME OneSaver, Inv, SerialInv, NEW c \in Clients, pc[c] = "queued", Read(c),
           UNCHANGED index
    PROVE  SerialInv'
<1> DEFINE r == req[c].r
           k == r.key
           pos == req[c].pos
           found == RowsRead(r, pos)
           answer == [i \in DOMAIN found |-> DecodeIncEntry(found[i])]
           h == [req[c] EXCEPT !.got = answer]
<1>1. /\ req[c] \in Handler /\ KeyOK(file, "queued", req[c])
      /\ Steady => LookOK(file, "queued", req[c])
      /\ c \in Savers => RowsOK(rows, file, "queued", req[c])
      /\ c \notin Savers => r.op \in ReadOps \cup {"none"}
      /\ rows \in Seq(Seq(Byte)) /\ file \in Seq(Slots) /\ pos \in Nat
  BY SerialNow, HandlerFields
<1>2. /\ pc' = [pc EXCEPT ![c] = "got"] /\ req' = [req EXCEPT ![c] = h] /\ rows' = rows
  BY DEF Read, Goto
<1>3. h.r = r /\ h.got = answer
  BY <1>1 DEF Handler
<1>4. Steady /\ r.op = "by_key" => answer = <<Body[k]>>
  <2> SUFFICES ASSUME Steady, r.op = "by_key" PROVE answer = <<Body[k]>>
    OBVIOUS
  <2>1. pos + 1 \in 1 .. Len(file) /\ file[pos + 1] = k /\ k # NoKey
    BY <1>1 DEF LookOK
  <2>2. pos + 1 \in 1 .. Len(rows) /\ DecodeIncEntry(rows[pos + 1]) = Body[k]
    BY <2>1, PlacedNow DEF Placed
  <2>3. pos < Len(rows)
    BY <1>1, <2>2
  <2>4. found = <<rows[pos + 1]>>
    BY <2>3 DEF RowsRead
  <2>5. DOMAIN <<rows[pos + 1]>> = 1 .. 1
    OBVIOUS
  <2>6. answer = [i \in 1 .. 1 |-> Body[k]]
    BY <2>2, <2>4, <2>5
  <2> QED BY <2>6
<1> HIDE DEF answer, h
<1>5. KeyOK(file, "got", h)
  BY <1>1, <1>3, KeySame
<1>6. Steady => LookOK(file, "got", h)
  BY <1>3, <1>4 DEF LookOK
<1>7. (c \in Savers => RowsOK(rows', file, "got", h)) /\ ~Holding("got")
  BY <1>1, <1>2 DEF RowsOK, Holding
<1> QED BY <1>1, <1>2, <1>3, <1>5, <1>6, <1>7, SerialOn

LEMMA WorkerSerial ==
    ASSUME OneSaver, Inv, SerialInv, Worker
    PROVE  SerialInv'
<1>1. CASE WorkerReceive \/ WorkerStart
  <2>1. UNCHANGED <<rows, index, pc, req>>
    BY <1>1 DEF WorkerReceive, WorkerStart
  <2> QED BY <2>1 DEF SerialInv, Shared, index
<1>2. CASE WorkerServe
  <2>1. PICK i \in DOMAIN batch : Write(batch[i]) \/ Read(batch[i])
    BY <1>2 DEF WorkerServe
  <2>2. batch[i] \in Clients /\ pc[batch[i]] = "queued"
    BY Served
  <2>3. UNCHANGED index
    BY <1>2 DEF WorkerServe
  <2> QED BY <2>1, <2>2, <2>3, WriteSerial, ReadSerial
<1> QED BY <1>1, <1>2, WorkerDeleteSerial DEF Worker

LEMMA ClientSerial ==
    ASSUME OneSaver, Inv, SerialInv, NEW c \in Clients, Client(c)
    PROVE  SerialInv'
<1>1. CASE \E r \in Saves, size \in Sizes : c \in Savers /\ SaveOpen(c, r, size)
  BY <1>1, SaveOpenSerial
<1>2. CASE \E r \in Reads : c \in Readers /\ ReadOpen(c, r)
  BY <1>2, ReadOpenSerial
<1>3. CASE SaveCreate(c) \/ SaveCheck(c) \/ SaveApply(c)
  BY <1>3, SaveCreateSerial, SaveCheckSerial, SaveApplySerial
<1>4. CASE ReadLookup(c)
  BY <1>4, ReadLookupSerial
<1>5. CASE SaveReturn(c) \/ ReadReturn(c)
  BY <1>5, SerialBack DEF SaveReturn, ReadReturn
<1>6. CASE c \in Deleters /\ DeleteOpen(c)
  BY <1>6, DeleteOpenSerial
<1>7. CASE DeleteForget(c) \/ DeleteUnlink(c)
  BY <1>7, DeleteForgetSerial, DeleteUnlinkSerial
<1>8. CASE DeleteMeta(c)
  BY <1>8, SerialBack DEF DeleteMeta
<1>9. CASE IndexGet(c) \/ IndexPublish(c) \/ Send(c)
  BY <1>9, IndexGetSerial, IndexPublishSerial, SendSerial
<1> QED BY <1>1, <1>2, <1>3, <1>4, <1>5, <1>6, <1>7, <1>8, <1>9 DEF Client

\* Rows that were appended are on disk, their keys or not yet.
LEMMA CrashSerial ==
    ASSUME OneSaver, Inv, SerialInv, Crash
    PROVE  SerialInv'
<1>1. AppendOnly /\ Deleters = {}
  BY DEF OneSaver, Crash
<1>2. \A c \in Clients : req[c].r.op \notin {"insert", "delete", "overwrite"}
  BY <1>1 DEF SerialInv, KeyOK
<1>3. rows' = rows
  <2>1. \A d \in Clients : ~Inserting(d)
    BY <1>2 DEF Inserting
  <2>2. Torn = {}
    BY <2>1 DEF Torn
  <2> QED BY <2>2 DEF Crash
<1>4. ASSUME NEW c \in Savers PROVE Placed(rows, file)
  <2>1. c \in Clients
    BY Roles
  <2>2. StepOK(pc[c], req[c]) /\ RowsOK(rows, file, pc[c], req[c])
    BY <2>1, SerialNow
  <2>3. pc[c] \notin {"forget", "unlink"}
    BY <1>2, <2>1, <2>2 DEF StepOK
  <2>4. CASE pc[c] \in {"index", "apply"}
    <3>1. req[c].r.op \in SaveOps
      BY <2>2, <2>4 DEF StepOK
    <3>2. req[c].r.op = "append"
      BY <1>2, <2>1, <3>1 DEF SaveOps
    <3> QED BY <2>2, <2>4, <3>2 DEF RowsOK
  <2> QED BY <2>2, <2>3, <2>4 DEF RowsOK
<1>5. DOMAIN objs' = {} /\ file' = file /\ cur' = 0
      /\ \A d \in Clients : pc'[d] = "idle" /\ req'[d] = Idle
  BY DEF Crash, NoObjects
<1>6. (\A c \in Savers : RowsOK(rows, file, "idle", Idle)) /\ ~Holding("idle")
  BY <1>4 DEF RowsOK, Holding
<1> QED BY <1>3, <1>5, <1>6, IdleOK DEF SerialInv, Shared

LEMMA SerialStep == OneSaver /\ Inv /\ SerialInv /\ [Next]_vars => SerialInv'
<1> SUFFICES ASSUME OneSaver, Inv, SerialInv, [Next]_vars PROVE SerialInv'
  OBVIOUS
<1>1. CASE Worker
  BY <1>1, WorkerSerial
<1>2. CASE \E c \in Clients : Client(c)
  BY <1>2, ClientSerial
<1>3. CASE Crash
  BY <1>3, CrashSerial
<1>4. CASE UNCHANGED vars
  BY <1>4 DEF SerialInv, Shared, vars
<1> QED BY <1>1, <1>2, <1>3, <1>4 DEF Next

LEMMA SerialInit == Init => SerialInv
<1> SUFFICES ASSUME Init PROVE SerialInv
  OBVIOUS
<1>1. DOMAIN objs = {} /\ file = <<>> /\ Len(file) = 0
  BY DEF Init, NoObjects
<1>2. \A c \in Clients : pc[c] = "idle" /\ req[c] = Idle
  BY DEF Init
<1>3. RowsOK(rows, file, "idle", Idle) /\ ~Holding("idle")
  BY <1>1 DEF RowsOK, Placed, Holding
<1> QED BY <1>1, <1>2, <1>3, IdleOK DEF SerialInv, Shared

THEOREM SerialInvariant ==
    ASSUME OneSaver
    PROVE  Spec => []SerialInv
<1>1. Inv /\ SerialInv /\ [Next]_vars => SerialInv'
  BY SerialStep
<1> QED BY <1>1, SerialInit, Invariant, PTL DEF Spec

\* Two indexes with the same keys have them in the same positions.
LEMMA SamePositions ==
    ASSUME NEW t, NEW u, Good(t), Good(u), t.keys = u.keys
    PROVE  t.positions = u.positions
<1> DEFINE p == t.positions
           q == u.positions
<1>1. p \in [DOMAIN p -> Nat] /\ q \in [DOMAIN q -> Nat]
  BY DEF Good, Table
<1>2. ASSUME NEW k \in DOMAIN p PROVE k \in DOMAIN q /\ q[k] = p[k]
  <2>1. /\ k # NoKey /\ p[k] \in Nat /\ p[k] + 1 \in DOMAIN t.keys /\ t.keys[p[k] + 1] = k
    BY <1>2, NoKeyAssumption DEF Good, Table, OneToOne
  <2>2. k \in DOMAIN q /\ q[k] = (p[k] + 1) - 1
    BY <2>1 DEF Good, OneToOne
  <2> QED BY <2>1, <2>2
<1>3. ASSUME NEW k \in DOMAIN q PROVE k \in DOMAIN p
  <2>1. /\ k # NoKey /\ q[k] + 1 \in DOMAIN u.keys /\ u.keys[q[k] + 1] = k
    BY <1>3, NoKeyAssumption DEF Good, Table, OneToOne
  <2> QED BY <2>1 DEF Good, OneToOne
<1> HIDE DEF p, q
<1>4. DOMAIN p = DOMAIN q /\ \A k \in DOMAIN p : p[k] = q[k]
  BY <1>2, <1>3
<1> QED BY <1>1, <1>4 DEF p, q

\* The index that the next request finds has the keys of the file.
LEMMA CurrentKeys ==
    ASSUME Inv, SerialInv
    PROVE  /\ Good(Load(file)) /\ Load(file).keys = file
           /\ cur # 0 => Good(objs[cur]) /\ objs[cur].keys = file
<1>1. Good(Load(file)) /\ Load(file).keys = file
  BY LoadGood DEF Inv, IndexOK, Load
<1>2. cur # 0 => Good(objs[cur]) /\ objs[cur].keys = file
  BY DEF Inv, IndexOK, GoodObjects, SerialInv, Shared
<1> QED BY <1>1, <1>2

\* With one saver, which appends rows and inserts rows under keys, beside any number of
\* readers, a key finds the row saved with it, however many rows were inserted before it
\* since, and if rows are only appended, wherever the process dies.
THEOREM KeysFindRows ==
    ASSUME OneSaver
    PROVE  Spec => []KeyFindsRow
<1>1. Inv /\ SerialInv => KeyFindsRow
  <2> SUFFICES ASSUME Inv, SerialInv, Settled, NEW k \in DOMAIN Current.positions
               PROVE  LET i == Current.positions[k] + 1
                      IN  i \in DOMAIN rows /\ DecodeIncEntry(rows[i]) = Body[k]
    BY DEF KeyFindsRow
  <2>1. PICK c \in Savers : c \in Clients
    BY Roles DEF OneSaver
  <2>2. Placed(rows, file) /\ rows \in Seq(Seq(Byte))
    BY <2>1, SerialNow DEF Settled, RowsOK
  <2>3. Good(Current) /\ Current.keys = file
    BY CurrentKeys DEF Current
  <2> DEFINE i == Current.positions[k] + 1
  <2>4. i \in 1 .. Len(file) /\ file[i] = k /\ k # NoKey
    BY <2>3, SlotOf DEF Has
  <2> HIDE DEF i
  <2>5. i \in 1 .. Len(rows) /\ DecodeIncEntry(rows[i]) = Body[k]
    BY <2>2, <2>4 DEF Placed
  <2>6. DOMAIN rows = 1 .. Len(rows)
    BY <2>2
  <2> QED BY <2>5, <2>6 DEF i
<1> QED BY <1>1, Invariant, SerialInvariant, PTL

\* With one saver, what is loaded from the .idx file after a restart is the index there
\* was, whichever of the objects that goroutines loaded at the same time was published.
THEOREM Durable ==
    ASSUME OneSaver
    PROVE  Spec => []IndexDurable
<1>1. Inv /\ SerialInv => IndexDurable
  BY CurrentKeys, SamePositions DEF IndexDurable
<1> QED BY <1>1, Invariant, SerialInvariant, PTL

\* A read by key answers with the body saved under that key, if rows are only appended,
\* for any number of readers, or if the saver is the only reader.
THEOREM OwnRow ==
    ASSUME OneSaver, Steady
    PROVE  Spec => []ReadsOwnRow
<1>1. Inv /\ SerialInv => ReadsOwnRow
  <2> SUFFICES ASSUME Inv, SerialInv, NEW c \in Clients, pc[c] = "got",
                      req[c].r.op = "by_key"
               PROVE  req[c].got = <<Body[req[c].r.key]>>
    BY DEF ReadsOwnRow
  <2>1. LookOK(file, pc[c], req[c])
    BY DEF SerialInv
  <2> QED BY <2>1 DEF LookOK
<1> QED BY <1>1, Invariant, SerialInvariant, PTL

=============================================================================
