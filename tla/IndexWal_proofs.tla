--------------------------- MODULE IndexWal_proofs ---------------------------
(***************************************************************************)
(* For any keys, clients and shards: what a start recovers is what the     *)
(* index of the table has, for every key whose changes were not lost; and  *)
(* a log that is never rotated is a history of the index, key by key.      *)
(***************************************************************************)
EXTENDS IndexWal, SequenceTheorems, FiniteSetTheorems, WellFoundedInduction, TLAPS

-----------------------------------------------------------------------------
(* Replay *)

\* The last line of a key.
IsLast(lines, k, i) ==
    i \in LinesOf(lines, k) /\ \A j \in LinesOf(lines, k) : j <= i

\* A key that some line names has a last line.
LEMMA LastExists ==
    ASSUME NEW lines \in Seq(Line), NEW k, LinesOf(lines, k) # {}
    PROVE  \E i \in DOMAIN lines : IsLast(lines, k, i)
<1> DEFINE Behind == {Len(lines) - i : i \in LinesOf(lines, k)}
<1>1. LinesOf(lines, k) \subseteq 1 .. Len(lines) /\ Len(lines) \in Nat
  BY DEF LinesOf
<1>2. Behind \subseteq Nat /\ Behind # {}
  BY <1>1
<1> HIDE DEF Behind
<1>3. PICK n \in Behind : \A m \in Behind : ~ (<<m, n>> \in OpToRel(<, Nat))
  BY <1>2, WFMin, NatLessThanWellFounded, Zenon
<1>4. \A m \in Behind : ~ (m < n)
  BY <1>2, <1>3, Zenon DEF OpToRel
<1> USE DEF Behind
<1>5. PICK i \in LinesOf(lines, k) : n = Len(lines) - i
  BY <1>3
<1>6. ASSUME NEW j \in LinesOf(lines, k) PROVE j <= i
  <2>1. Len(lines) - j \in Behind
    OBVIOUS
  <2>2. ~ (Len(lines) - j < n)
    BY <2>1, <1>4
  <2>3. i \in Nat /\ j \in Nat
    BY <1>1
  <2> QED BY <1>1, <1>5, <2>2, <2>3
<1> QED BY <1>1, <1>5, <1>6 DEF IsLast

\* Of a key that no line names, the replay leaves what the map has.
LEMMA ReplayNone ==
    ASSUME NEW map, NEW lines, NEW k \in Keys, LinesOf(lines, k) = {}
    PROVE  Replay(map, lines)[k] = map[k]
BY DEF Replay

\* Of any other, it takes the last line.
LEMMA ReplayLast ==
    ASSUME NEW map, NEW lines \in Seq(Line), NEW k \in Keys,
           NEW i, IsLast(lines, k, i)
    PROVE  Replay(map, lines)[k] = lines[i].span
<1>1. LinesOf(lines, k) # {} /\ LinesOf(lines, k) \subseteq Nat
  BY DEF IsLast, LinesOf
<1>2. i = CHOOSE j \in LinesOf(lines, k) : \A m \in LinesOf(lines, k) : m <= j
  <2>1. \A j \in LinesOf(lines, k) : (\A m \in LinesOf(lines, k) : m <= j) => j = i
    BY <1>1 DEF IsLast
  <2> QED BY <2>1 DEF IsLast
<1> QED BY <1>1, <1>2 DEF Replay

\* The replay gives values that the index may have.
LEMMA ReplayTyped ==
    ASSUME NEW map \in [Keys -> Stored], NEW lines \in Seq(Line)
    PROVE  Replay(map, lines) \in [Keys -> Stored]
<1>1. ASSUME NEW k \in Keys PROVE Replay(map, lines)[k] \in Stored
  <2>1. CASE LinesOf(lines, k) = {}
    BY <2>1, ReplayNone
  <2>2. CASE LinesOf(lines, k) # {}
    <3>1. PICK i \in DOMAIN lines : IsLast(lines, k, i)
      BY <2>2, LastExists
    <3>2. lines[i] \in Line
      BY LenProperties, ElementOfSeq
    <3>3. lines[i].span \in Stored
      BY <3>2 DEF Line, Stored
    <3> QED BY <3>1, <3>3, ReplayLast
  <2> QED BY <2>1, <2>2
<1> QED BY <1>1 DEF Replay

\* When every key is plain, a line of a key is a line that names it.
LEMMA PlainLines ==
    ASSUME AllPlain, NEW lines \in Seq(Line), NEW k \in Keys
    PROVE  /\ LinesOf(lines, k) = {i \in 1 .. Len(lines) : lines[i].key = k}
           /\ k \notin KeysOf(lines) <=> LinesOf(lines, k) = {}
<1>1. DOMAIN lines = 1 .. Len(lines)
  BY LenProperties
<1>2. ASSUME NEW i \in 1 .. Len(lines) PROVE Reads(lines[i], k) <=> lines[i].key = k
  <2>1. lines[i] \in Line
    BY <1>1, ElementOfSeq
  <2>2. lines[i].key \in Keys
    BY <2>1 DEF Line
  <2> QED BY <2>2 DEF AllPlain, Plain, Reads
<1>3. LinesOf(lines, k) = {i \in 1 .. Len(lines) : lines[i].key = k}
  BY <1>1, <1>2 DEF LinesOf
<1> QED BY <1>1, <1>3 DEF KeysOf

\* Two queues behind a log.
LEMMA Associative ==
    ASSUME NEW a \in Seq(Line), NEW b \in Seq(Line), NEW c \in Seq(Line)
    PROVE  a \o (b \o c) = (a \o b) \o c
BY ConcatAssociative

\* A line added to the log counts, whatever was there before it.
LEMMA ReplayAppend ==
    ASSUME AllPlain, NEW map, NEW lines \in Seq(Line), NEW line \in Line, NEW k \in Keys
    PROVE  /\ k = line.key => Replay(map, Append(lines, line))[k] = line.span
           /\ k # line.key => Replay(map, Append(lines, line))[k] = Replay(map, lines)[k]
<1> DEFINE more == Append(lines, line)
           n == Len(lines)
<1>1. /\ more \in Seq(Line) /\ Len(more) = n + 1 /\ n \in Nat
      /\ \A i \in 1 .. n : more[i] = lines[i]
      /\ more[n + 1] = line
  BY AppendProperties, LenProperties
<1> HIDE DEF more, n
<1>2. /\ LinesOf(more, k) = {i \in 1 .. n + 1 : more[i].key = k}
      /\ LinesOf(lines, k) = {i \in 1 .. n : lines[i].key = k}
  BY <1>1, PlainLines DEF n
<1>3. CASE k = line.key
  <2>1. n + 1 \in LinesOf(more, k)
    BY <1>1, <1>2, <1>3
  <2>2. IsLast(more, k, n + 1)
    BY <1>1, <1>2, <2>1 DEF IsLast
  <2>3. Replay(map, more)[k] = line.span
    BY <1>1, <2>2, ReplayLast
  <2> QED BY <1>3, <2>3 DEF more
<1>4. CASE k # line.key
  <2>1. LinesOf(more, k) = LinesOf(lines, k)
    BY <1>1, <1>2, <1>4
  <2>2. CASE LinesOf(lines, k) = {}
    BY <1>4, <2>1, <2>2, ReplayNone DEF more
  <2>3. CASE LinesOf(lines, k) # {}
    <3>1. PICK i \in DOMAIN lines : IsLast(lines, k, i)
      BY <2>3, LastExists
    <3>2. IsLast(more, k, i) /\ i \in 1 .. n
      BY <1>2, <2>1, <3>1 DEF IsLast
    <3>3. Replay(map, more)[k] = more[i].span /\ Replay(map, lines)[k] = lines[i].span
      BY <1>1, <3>1, <3>2, ReplayLast
    <3> QED BY <1>1, <1>4, <3>2, <3>3 DEF more
  <2> QED BY <2>2, <2>3
<1> QED BY <1>3, <1>4

\* Lines that do not name a key may be missing from the middle of the log.
LEMMA ReplayDrop ==
    ASSUME AllPlain, NEW map, NEW k \in Keys,
           NEW a \in Seq(Line), NEW b \in Seq(Line), NEW c \in Seq(Line),
           k \notin KeysOf(b)
    PROVE  Replay(map, (a \o b) \o c)[k] = Replay(map, a \o c)[k]
<1> DEFINE all == (a \o b) \o c
           less == a \o c
           l == Len(a)
           m == Len(b)
           n == Len(c)
<1>1. l \in Nat /\ m \in Nat /\ n \in Nat
  BY LenProperties
<1>2. /\ less \in Seq(Line) /\ Len(less) = l + n
      /\ \A i \in 1 .. l + n : less[i] = IF i <= l THEN a[i] ELSE c[i - l]
  BY ConcatProperties
<1>3. /\ a \o b \in Seq(Line) /\ Len(a \o b) = l + m
      /\ \A i \in 1 .. l + m : (a \o b)[i] = IF i <= l THEN a[i] ELSE b[i - l]
  BY ConcatProperties
<1>4. /\ all \in Seq(Line) /\ Len(all) = l + m + n
      /\ \A i \in 1 .. l + m + n :
            all[i] = IF i <= l + m THEN (a \o b)[i] ELSE c[i - (l + m)]
  BY <1>3, ConcatProperties
<1>5. \A i \in 1 .. m : b[i].key # k
  BY LenProperties DEF KeysOf, m
<1> HIDE DEF all, less, l, m, n
<1>6. ASSUME NEW i \in 1 .. l PROVE all[i] = less[i]
  <2>1. i <= l /\ i <= l + m /\ i \in 1 .. l + n /\ i \in 1 .. l + m
        /\ i \in 1 .. l + m + n
    BY <1>1
  <2> QED BY <1>2, <1>3, <1>4, <2>1
<1>7. ASSUME NEW i \in l + 1 .. l + m PROVE all[i].key # k
  <2>1. ~ (i <= l) /\ i <= l + m /\ i \in 1 .. l + m /\ i \in 1 .. l + m + n
        /\ i - l \in 1 .. m
    BY <1>1
  <2> QED BY <1>3, <1>4, <1>5, <2>1
<1>8. \A i \in l + 1 .. l + n : all[i + m] = less[i]
  <2> SUFFICES ASSUME NEW i \in l + 1 .. l + n PROVE all[i + m] = less[i]
    OBVIOUS
  <2>1. i + m \in 1 .. l + m + n /\ ~ (i + m <= l + m) /\ i + m - (l + m) = i - l
    BY <1>1
  <2>2. i \in 1 .. l + n /\ ~ (i <= l)
    BY <1>1
  <2>3. less[i] = c[i - l]
    BY <1>2, <2>2
  <2>4. all[i + m] = c[i + m - (l + m)]
    BY <1>1, <1>4, <2>1
  <2> QED BY <2>1, <2>3, <2>4
<1>9. /\ LinesOf(all, k) = {i \in 1 .. l + m + n : all[i].key = k}
      /\ LinesOf(less, k) = {i \in 1 .. l + n : less[i].key = k}
  BY <1>2, <1>4, PlainLines
<1>10. ASSUME NEW i \in LinesOf(all, k)
       PROVE  \/ i \in 1 .. l /\ i \in LinesOf(less, k)
              \/ i \in l + m + 1 .. l + m + n /\ i - m \in LinesOf(less, k)
  <2>1. CASE i <= l
    BY <1>1, <1>6, <1>9, <2>1
  <2>2. CASE l < i /\ i <= l + m
    BY <1>1, <1>7, <1>9, <2>2
  <2>3. CASE l + m < i
    <3>1. i - m \in l + 1 .. l + n /\ (i - m) + m = i
      BY <1>1, <1>9, <2>3
    <3>2. all[i] = less[i - m]
      BY <1>8, <3>1
    <3> QED BY <1>1, <1>9, <2>3, <3>1, <3>2
  <2> QED BY <1>1, <1>9, <2>1, <2>2, <2>3
<1>11. CASE LinesOf(less, k) = {}
  <2>1. LinesOf(all, k) = {}
    BY <1>10, <1>11
  <2> QED BY <1>11, <2>1, ReplayNone DEF all, less
<1>12. CASE LinesOf(less, k) # {}
  <2>1. PICK i \in DOMAIN less : IsLast(less, k, i)
    BY <1>2, <1>12, LastExists
  <2>2. i \in 1 .. l + n /\ less[i].key = k /\ \A j \in LinesOf(less, k) : j <= i
    BY <1>9, <2>1 DEF IsLast
  <2>3. CASE i <= l
    <3>1. i \in LinesOf(all, k) /\ all[i] = less[i]
      BY <1>1, <1>6, <1>9, <2>2, <2>3
    <3>2. ASSUME NEW j \in LinesOf(all, k) PROVE j <= i
      <4>1. CASE j \in 1 .. l /\ j \in LinesOf(less, k)
        BY <1>1, <2>2, <4>1
      <4>2. CASE j \in l + m + 1 .. l + m + n /\ j - m \in LinesOf(less, k)
        <5>1. j - m <= i
          BY <2>2, <4>2
        <5> QED BY <1>1, <2>2, <2>3, <4>2, <5>1
      <4> QED BY <1>10, <4>1, <4>2
    <3>3. IsLast(all, k, i)
      BY <3>1, <3>2 DEF IsLast
    <3>4. Replay(map, all)[k] = all[i].span
      BY <1>4, <3>3, ReplayLast
    <3>5. Replay(map, less)[k] = less[i].span
      BY <1>2, <2>1, ReplayLast
    <3> QED BY <3>1, <3>4, <3>5 DEF all, less
  <2>4. CASE l < i
    <3>1. i + m \in LinesOf(all, k) /\ all[i + m] = less[i]
      BY <1>1, <1>8, <1>9, <2>2, <2>4
    <3>2. ASSUME NEW j \in LinesOf(all, k) PROVE j <= i + m
      <4>1. CASE j \in 1 .. l /\ j \in LinesOf(less, k)
        BY <1>1, <2>2, <4>1
      <4>2. CASE j \in l + m + 1 .. l + m + n /\ j - m \in LinesOf(less, k)
        <5>1. j - m <= i
          BY <2>2, <4>2
        <5> QED BY <1>1, <2>2, <2>4, <4>2, <5>1
      <4> QED BY <1>10, <4>1, <4>2
    <3>3. IsLast(all, k, i + m)
      BY <3>1, <3>2 DEF IsLast
    <3>4. Replay(map, all)[k] = all[i + m].span
      BY <1>4, <3>3, ReplayLast
    <3>5. Replay(map, less)[k] = less[i].span
      BY <1>2, <2>1, ReplayLast
    <3> QED BY <3>1, <3>4, <3>5 DEF all, less
  <2> QED BY <1>1, <2>2, <2>3, <2>4
<1> QED BY <1>11, <1>12 DEF all, less

-----------------------------------------------------------------------------
(* Types *)

\* What the snapshot worker and the clients write has the types of TypeOK.
LEMMA Values ==
    /\ Absent \in Stored
    /\ Empty \in [Keys -> Stored]
    /\ TypeOK => LoadSnapshot \in [Keys -> Stored]
BY DEF Stored, Empty, TypeOK, LoadSnapshot

\* The lines of a part of a sequence of lines.
LEMMA PartTyped ==
    ASSUME NEW lines \in Seq(Line), NEW m \in Int, NEW n \in Int, 1 <= m, n <= Len(lines)
    PROVE  SubSeq(lines, m, n) \in Seq(Line)
<1>1. \A i \in m .. n : lines[i] \in Line
  BY LenProperties, ElementOfSeq
<1> QED BY <1>1, SubSeqProperties

\* A flush, whole or cut short.
LEMMA FlushTyped ==
    ASSUME TypeOK, Flush
    PROVE  /\ wal' \in Seq(Line) /\ walBuf' \in Seq(Line)
           /\ broken' \in BOOLEAN
           /\ missed' \in [Keys -> {"no", "old", "during"}]
<1>1. wal \in Seq(Line) /\ walBuf \in Seq(Line)
  BY DEF TypeOK
<1>2. CASE Flushed /\ UNCHANGED <<broken, missed>>
  <2>1. wal \o walBuf \in Seq(Line)
    BY <1>1, ConcatProperties
  <2> QED BY <1>2, <2>1 DEF Flushed, TypeOK
<1>3. CASE FlushFails
  <2>1. PICK n \in 0 .. Len(walBuf) - 1 :
            /\ wal' = wal \o SubSeq(walBuf, 1, n)
            /\ Lose(KeysOf(SubSeq(walBuf, n + 1, Len(walBuf))))
    BY <1>3 DEF FlushFails
  <2>2. Len(walBuf) \in Nat
    BY <1>1, LenProperties
  <2>3. SubSeq(walBuf, 1, n) \in Seq(Line)
    BY <1>1, <2>2, PartTyped
  <2>4. wal' \in Seq(Line)
    BY <1>1, <2>1, <2>3, ConcatProperties
  <2>5. missed' \in [Keys -> {"no", "old", "during"}]
    BY <2>1 DEF Lose, TypeOK
  <2> QED BY <1>3, <2>4, <2>5 DEF FlushFails
<1> QED BY <1>2, <1>3 DEF Flush

\* The start is well typed.
LEMMA TypeInit == Init => TypeOK
<1>1. <<>> \in Seq(Line) /\ Len(Shards) \in Nat /\ Len(Shards) # 0
  BY ConstantsAssumption, LenProperties, EmptySeq
<1>2. Legacy \in [Keys -> Stored]
  BY ConstantsAssumption DEF Stored
<1>3. Init => /\ shard \in 1 .. Len(Shards) + 1
              /\ missed \in [Keys -> {"no", "old", "during"}]
  BY <1>1 DEF Init
<1> QED BY <1>1, <1>2, <1>3, Values DEF Init, TypeOK

\* Every step keeps the types.
LEMMA TypeStep == TypeOK /\ [Next]_vars => TypeOK'
<1> SUFFICES ASSUME TypeOK, [Next]_vars PROVE TypeOK'
  OBVIOUS
<1>0. /\ wal \in Seq(Line) /\ walBuf \in Seq(Line) /\ walChan \in Seq(Line)
      /\ <<>> \in Seq(Line) /\ Len(Shards) \in Nat \ {0} /\ shard \in Nat
  BY ConstantsAssumption, LenProperties, EmptySeq DEF TypeOK
<1>1. ASSUME NEW c \in Clients, NEW k \in Keys, NEW s \in Spans \cup {Absent},
             Change(c, k, s)
      PROVE  TypeOK'
  <2>1. index' \in [Keys -> Stored] /\ missed' \in [Keys -> {"no", "old", "during"}]
    BY <1>1 DEF Change, TypeOK, Stored
  <2>2. op' \in [Clients -> Line \cup {NoOp}]
    BY <1>1 DEF Change, TypeOK, Line
  <2> QED BY <1>1, <2>1, <2>2 DEF Change, TypeOK, snapshot
<1>2. ASSUME NEW c \in Clients, Send(c) PROVE TypeOK'
  <2>1. op[c] \in Line
    BY <1>2 DEF Send, TypeOK
  <2>2. walChan' \in Seq(Line)
    BY <1>0, <1>2, <2>1, AppendProperties DEF Send
  <2> QED BY <1>2, <2>2 DEF Send, TypeOK, snapshot
<1>3. ASSUME NEW c \in Clients, SendBlocked(c) PROVE TypeOK'
  BY <1>3, FlushTyped DEF SendBlocked, TypeOK, snapshot
<1>4. CASE WriteLine
  <2>1. walChan[1] \in Line /\ Tail(walChan) \in Seq(Line)
    BY <1>0, <1>4, HeadTailProperties, LenProperties, EmptySeq, ElementOfSeq DEF WriteLine
  <2>2. Append(walBuf, walChan[1]) \in Seq(Line)
    BY <1>0, <2>1, AppendProperties
  <2>3. missed' \in [Keys -> {"no", "old", "during"}]
    BY <1>4 DEF WriteLine, Lose, TypeOK
  <2> QED BY <1>4, <2>1, <2>2, <2>3 DEF WriteLine, TypeOK, snapshot
<1>5. CASE FlushWal
  BY <1>5, FlushTyped DEF FlushWal, TypeOK, snapshot
<1>6. CASE SnapshotBegin
  BY <1>0, <1>6, Values DEF SnapshotBegin, TypeOK
<1>7. CASE SnapshotCopy
  <2>1. temp' \in [Keys -> Stored]
    BY <1>7 DEF SnapshotCopy, TypeOK
  <2>2. /\ shard' \in 1 .. Len(Shards) + 1
        /\ step' = "copy" => shard' <= Len(Shards)
    BY <1>0, <1>7 DEF SnapshotCopy, TypeOK
  <2> QED BY <1>7, <2>1, <2>2 DEF SnapshotCopy, TypeOK
<1>8. CASE SnapshotRename \/ SnapshotRenameFails
  BY <1>8 DEF SnapshotRename, SnapshotRenameFails, TypeOK
<1>9. CASE SnapshotAbandoned
  BY <1>0, <1>9, Values DEF SnapshotAbandoned, TypeOK
<1>10. CASE SnapshotFlush
  BY <1>10, FlushTyped DEF SnapshotFlush, TypeOK
<1>11. CASE SnapshotRotate \/ RotateFails \/ RotateRefused
  <2>1. /\ Covered \in [Keys -> {"no", "old", "during"}]
        /\ CoveredBeside(wal) \in [Keys -> {"no", "old", "during"}]
    BY DEF Covered, CoveredBeside
  <2> QED BY <1>0, <1>11, <2>1 DEF SnapshotRotate, RotateFails, RotateRefused, TypeOK
<1>12. CASE Restart
  <2>1. Recovered \in [Keys -> Stored]
    BY <1>0, Values, ReplayTyped DEF Recovered
  <2>2. /\ shard' \in 1 .. Len(Shards) + 1
        /\ missed' \in [Keys -> {"no", "old", "during"}]
        /\ op' \in [Clients -> Line \cup {NoOp}]
    BY <1>0, <1>12 DEF Restart
  <2> QED BY <1>0, <1>12, <2>1, <2>2, Values DEF Restart, TypeOK
<1>13. CASE UNCHANGED vars
  BY <1>13 DEF vars, TypeOK
<1> QED BY <1>1, <1>2, <1>3, <1>4, <1>5, <1>6, <1>7, <1>8, <1>9, <1>10, <1>11, <1>12, <1>13
        DEF Next, Writer, SnapshotWorker

\* The types hold in every state.
THEOREM Typing == Spec => []TypeOK
BY TypeInit, TypeStep, PTL DEF Spec

-----------------------------------------------------------------------------
(* The inductive invariant *)

\* The lines that wait or are in the log, in the order in which they count.
Lines == wal \o walBuf \o walChan

\* A snapshot of plain keys is read as it was written.
LEMMA LoadPlain ==
    ASSUME AllPlain, NEW k \in Keys
    PROVE  LoadSnapshot[k] = snap[k]
BY DEF AllPlain, LoadSnapshot

\* The keys of a queue that gets one line more, or loses its first one.
LEMMA KeysOfAppend ==
    ASSUME NEW lines \in Seq(Line), NEW line \in Line
    PROVE  KeysOf(Append(lines, line)) = KeysOf(lines) \cup {line.key}
<1>1. /\ DOMAIN lines = 1 .. Len(lines) /\ Len(lines) \in Nat
      /\ DOMAIN Append(lines, line) = 1 .. Len(lines) + 1
      /\ \A i \in 1 .. Len(lines) : Append(lines, line)[i] = lines[i]
      /\ Append(lines, line)[Len(lines) + 1] = line
  BY AppendProperties, LenProperties
<1>2. ASSUME NEW k \in KeysOf(Append(lines, line))
      PROVE  k \in KeysOf(lines) \cup {line.key}
  <2>1. PICK i \in 1 .. Len(lines) + 1 : k = Append(lines, line)[i].key
    BY <1>1 DEF KeysOf
  <2>2. CASE i = Len(lines) + 1
    BY <1>1, <2>1, <2>2
  <2>3. CASE i \in 1 .. Len(lines)
    BY <1>1, <2>1, <2>3 DEF KeysOf
  <2> QED BY <1>1, <2>2, <2>3
<1>3. ASSUME NEW k \in KeysOf(lines) PROVE k \in KeysOf(Append(lines, line))
  <2>1. PICK i \in 1 .. Len(lines) : k = lines[i].key
    BY <1>1 DEF KeysOf
  <2> QED BY <1>1, <2>1 DEF KeysOf
<1>4. line.key \in KeysOf(Append(lines, line))
  BY <1>1 DEF KeysOf
<1> QED BY <1>2, <1>3, <1>4

\* The first line of a queue is a line of it, and so are those behind.
LEMMA KeysOfTail ==
    ASSUME NEW lines \in Seq(Line), lines # <<>>
    PROVE  /\ lines[1] \in Line /\ Tail(lines) \in Seq(Line)
           /\ lines[1].key \in KeysOf(lines)
           /\ KeysOf(Tail(lines)) \subseteq KeysOf(lines)
           /\ lines = <<lines[1]>> \o Tail(lines)
<1>1. /\ DOMAIN lines = 1 .. Len(lines) /\ Len(lines) \in Nat \ {0}
      /\ lines[1] \in Line
  BY LenProperties, EmptySeq, ElementOfSeq
<1>2. /\ Tail(lines) \in Seq(Line) /\ Len(Tail(lines)) = Len(lines) - 1
      /\ \A i \in 1 .. Len(Tail(lines)) : Tail(lines)[i] = lines[i + 1]
  BY HeadTailProperties
<1>3. DOMAIN Tail(lines) = 1 .. Len(lines) - 1
  BY <1>2, LenProperties
<1>4. KeysOf(Tail(lines)) \subseteq KeysOf(lines)
  BY <1>1, <1>2, <1>3 DEF KeysOf
<1>5. lines = <<lines[1]>> \o Tail(lines)
  <2>1. lines = <<Head(lines)>> \o Tail(lines)
    BY ConcatSimplifications
  <2>2. Head(lines) = lines[1]
    BY <1>1
  <2> QED BY <2>1, <2>2
<1> QED BY <1>1, <1>2, <1>4, <1>5 DEF KeysOf

\* A lost line is no change.
LEMMA LoseKeeps ==
    ASSUME TypeOK, Flush \/ WriteLine, NEW k \in Keys
    PROVE  /\ missed'[k] = "during" <=> missed[k] = "during"
           /\ missed'[k] = "no" => missed[k] = "no"
BY DEF Flush, FlushFails, WriteLine, Lose, TypeOK

\* The start: nothing is in flight, and what was imported counts as lost.
LEMMA LogInit == AllPlain /\ Init => UnsentIsLast /\ RestIsCopied /\ LogAgrees
<1> SUFFICES ASSUME AllPlain, Init PROVE UnsentIsLast /\ RestIsCopied /\ LogAgrees
  OBVIOUS
<1>1. UnsentIsLast /\ RestIsCopied
  BY DEF Init, UnsentIsLast, RestIsCopied
<1>2. wal \o walBuf \o walChan = <<>> /\ <<>> \in Seq(Line)
  BY EmptySeq, ConcatEmptySeq DEF Init
<1>3. ASSUME NEW k \in Keys, missed[k] = "no"
      PROVE  index[k] = Replay(LoadSnapshot, wal \o walBuf \o walChan)[k]
  <2>1. index[k] = Absent
    BY <1>3, ConstantsAssumption DEF Init
  <2>2. LinesOf(<<>>, k) = {}
    BY DEF LinesOf
  <2>3. Replay(LoadSnapshot, <<>>)[k] = snap[k]
    BY <2>2, ReplayNone, LoadPlain
  <2> QED BY <1>2, <2>1, <2>3 DEF Init, Empty
<1> QED BY <1>1, <1>3 DEF LogAgrees

\* A change that waits to be sent stays the last one of its key: its one owner has
\* to send it before it makes another.
LEMMA UnsentStep == OneOwner /\ TypeOK /\ UnsentIsLast /\ [Next]_vars => UnsentIsLast'
<1> SUFFICES ASSUME OneOwner, TypeOK, UnsentIsLast, [Next]_vars,
                    NEW d \in Clients, op'[d] # NoOp
             PROVE  d \in Owner[op'[d].key] /\ index'[op'[d].key] = op'[d].span
  BY DEF UnsentIsLast
<1>1. ASSUME NEW c \in Clients, NEW k \in Keys, NEW s \in Spans \cup {Absent},
             Change(c, k, s)
      PROVE  d \in Owner[op'[d].key] /\ index'[op'[d].key] = op'[d].span
  <2>1. CASE d = c
    BY <1>1, <2>1 DEF Change, TypeOK
  <2>2. CASE d # c
    <3>1. op'[d] = op[d] /\ op[d] # NoOp /\ op[d] \in Line
      BY <1>1, <2>2 DEF Change, TypeOK
    <3>2. d \in Owner[op[d].key] /\ index[op[d].key] = op[d].span /\ op[d].key \in Keys
      BY <3>1 DEF UnsentIsLast, Line
    <3>3. op[d].key # k
      BY <1>1, <2>2, <3>2 DEF Change, OneOwner
    <3> QED BY <1>1, <3>1, <3>2, <3>3 DEF Change, TypeOK
  <2> QED BY <2>1, <2>2
<1>2. ASSUME NEW c \in Clients, Send(c)
      PROVE  d \in Owner[op'[d].key] /\ index'[op'[d].key] = op'[d].span
  <2>1. d # c /\ op'[d] = op[d] /\ index' = index
    BY <1>2 DEF Send, TypeOK
  <2> QED BY <2>1 DEF UnsentIsLast
<1>3. CASE UNCHANGED <<index, op>>
  BY <1>3 DEF UnsentIsLast
<1>4. CASE Restart
  BY <1>4 DEF Restart
<1> QED BY <1>1, <1>2, <1>3, <1>4
        DEF Next, Writer, SnapshotWorker, SendBlocked, WriteLine, FlushWal, SnapshotBegin,
            SnapshotCopy, SnapshotRename, SnapshotRenameFails, SnapshotAbandoned,
            SnapshotFlush, SnapshotRotate, RotateFails, RotateRefused, vars

\* What RestIsCopied says of one key.
Rest(k) ==
    step # "wait" /\ missed[k] # "during" =>
        /\ k \notin InFlight
        /\ Copied(k) => temp[k] = index[k]
        /\ step \in {"flush", "rotate"} => snap[k] = index[k]

\* Rest is kept when neither the worker nor the index moves and nothing gets in flight.
LEMMA RestKept ==
    ASSUME NEW k \in Keys, Rest(k),
           UNCHANGED <<index, snap, temp, shard, step>>,
           missed'[k] = "during" <=> missed[k] = "during",
           InFlight' \subseteq InFlight
    PROVE  Rest(k)'
BY DEF Rest, Copied

\* Sending, writing and flushing lines brings nothing new in flight.
LEMMA FlightStep ==
    ASSUME TypeOK, UNCHANGED <<index, snapshot>>,
           \/ \E c \in Clients : Send(c)
           \/ UNCHANGED op /\ (UNCHANGED walChan \/ WriteLine)
    PROVE  InFlight' \subseteq InFlight
<1>1. ASSUME NEW c \in Clients, Send(c) PROVE InFlight' \subseteq InFlight
  <2>1. op[c] \in Line /\ walChan \in Seq(Line)
    BY <1>1 DEF Send, TypeOK
  <2>2. KeysOf(walChan') = KeysOf(walChan) \cup {op[c].key}
    BY <1>1, <2>1, KeysOfAppend DEF Send
  <2>3. op[c].key \in {op[d].key : d \in Clients} \cap Keys
    BY <2>1 DEF Line
  <2>4. {op'[d].key : d \in Clients} \cap Keys \subseteq {op[d].key : d \in Clients}
    <3> SUFFICES ASSUME NEW d \in Clients, op'[d].key \in Keys
                 PROVE  \E e \in Clients : op'[d].key = op[e].key
      OBVIOUS
    <3>1. d # c
      BY <1>1, ConstantsAssumption DEF Send, TypeOK, NoOp
    <3> QED BY <1>1, <3>1 DEF Send, TypeOK
  <2> QED BY <2>2, <2>3, <2>4 DEF InFlight, KeysOf
<1>2. CASE UNCHANGED op /\ WriteLine
  <2>1. walChan \in Seq(Line) /\ walChan # <<>> /\ walChan' = Tail(walChan)
    BY <1>2 DEF WriteLine, TypeOK
  <2>2. KeysOf(walChan') \subseteq KeysOf(walChan)
    BY <2>1, KeysOfTail
  <2> QED BY <1>2, <2>2 DEF InFlight, KeysOf
<1>3. CASE UNCHANGED op /\ UNCHANGED walChan
  BY <1>3 DEF InFlight, KeysOf
<1> QED BY <1>1, <1>2, <1>3

\* A key at rest is copied: a change of it ends its rest, and each shard is copied
\* from the index as it is.
LEMMA RestStep == TypeOK /\ RestIsCopied /\ [Next]_vars => RestIsCopied'
<1> SUFFICES ASSUME TypeOK, RestIsCopied, [Next]_vars, NEW k \in Keys PROVE Rest(k)'
  BY DEF RestIsCopied, Rest, InFlight, KeysOf, Copied
<1>0. Rest(k) /\ shard \in Nat /\ Len(Shards) \in Nat
  BY ConstantsAssumption, LenProperties DEF RestIsCopied, Rest, TypeOK
<1>1. ASSUME NEW c \in Clients, NEW j \in Keys, NEW s \in Spans \cup {Absent},
             Change(c, j, s)
      PROVE  Rest(k)'
  <2>1. CASE k = j
    BY <1>1, <2>1 DEF Change, TypeOK, Rest, snapshot
  <2>2. CASE k # j
    <3>1. /\ index'[k] = index[k] /\ missed'[k] = missed[k]
          /\ UNCHANGED <<walChan, snap, temp, shard, step>>
      BY <1>1, <2>2 DEF Change, TypeOK, snapshot
    <3>2. k \in InFlight' => k \in InFlight
      BY <1>1, <2>2 DEF Change, TypeOK, InFlight, KeysOf
    <3> QED BY <1>0, <3>1, <3>2 DEF Rest, Copied
  <2> QED BY <2>1, <2>2
<1>2. ASSUME NEW c \in Clients, Send(c) PROVE Rest(k)'
  BY <1>0, <1>2, FlightStep, RestKept DEF Send, snapshot
<1>3. ASSUME NEW c \in Clients, SendBlocked(c) PROVE Rest(k)'
  BY <1>0, <1>3, FlightStep, LoseKeeps, RestKept DEF SendBlocked, snapshot
<1>4. CASE WriteLine
  BY <1>0, <1>4, FlightStep, LoseKeeps, RestKept DEF WriteLine, snapshot
<1>5. CASE FlushWal
  BY <1>0, <1>5, FlightStep, LoseKeeps, RestKept DEF FlushWal, snapshot
<1>6. CASE SnapshotBegin
  <2>1. InFlight' = InFlight /\ step' = "copy" /\ shard' = 1
    BY <1>6 DEF SnapshotBegin, InFlight, KeysOf
  <2>2. missed'[k] # "during" => k \notin InFlight
    BY <1>6 DEF SnapshotBegin
  <2> QED BY <2>1, <2>2 DEF Rest, Copied
<1>7. CASE SnapshotCopy
  <2>1. /\ InFlight' = InFlight /\ UNCHANGED <<index, missed, snap>>
        /\ step = "copy" /\ step' \in {"copy", "rename"} /\ shard' = shard + 1
        /\ temp'[k] = IF k \in Shards[shard] THEN index[k] ELSE temp[k]
    BY <1>7 DEF SnapshotCopy, InFlight, KeysOf
  <2>2. ASSUME missed[k] # "during", Copied(k)' PROVE temp'[k] = index[k]
    <3>1. CASE k \in Shards[shard]
      BY <2>1, <3>1
    <3>2. CASE k \notin Shards[shard]
      <4>1. \E i \in 1 .. shard - 1 : k \in Shards[i]
        <5>1. CASE step' = "copy"
          <6>1. PICK i \in 1 .. shard' - 1 : k \in Shards[i]
            BY <2>2, <5>1 DEF Copied
          <6> QED BY <1>0, <2>1, <3>2, <6>1
        <5>2. CASE step' = "rename"
          <6>1. shard = Len(Shards)
            BY <1>7, <5>2 DEF SnapshotCopy
          <6>2. PICK i \in 1 .. Len(Shards) : k \in Shards[i]
            BY ConstantsAssumption, LenProperties
          <6> QED BY <1>0, <3>2, <6>1, <6>2
        <5> QED BY <2>1, <5>1, <5>2
      <4> QED BY <1>0, <2>1, <2>2, <3>2, <4>1 DEF Rest, Copied
    <3> QED BY <3>1, <3>2
  <2> QED BY <1>0, <2>1, <2>2 DEF Rest
<1>8. CASE SnapshotRename
  BY <1>0, <1>8 DEF SnapshotRename, Rest, Copied, InFlight, KeysOf
<1>9. CASE SnapshotRenameFails
  BY <1>9 DEF SnapshotRenameFails, Rest
<1>10. CASE SnapshotFlush
  <2>1. InFlight' = InFlight /\ (missed'[k] = "during" <=> missed[k] = "during")
    BY <1>10, LoseKeeps DEF SnapshotFlush, InFlight, KeysOf
  <2> QED BY <1>0, <1>10, <2>1 DEF SnapshotFlush, Rest, Copied
<1>11. CASE SnapshotAbandoned \/ SnapshotRotate \/ RotateFails \/ RotateRefused \/ Restart
  BY <1>11 DEF SnapshotAbandoned, SnapshotRotate, RotateFails, RotateRefused, Restart, Rest
<1>12. CASE UNCHANGED vars
  BY <1>0, <1>12 DEF vars, Rest, Copied, InFlight, KeysOf
<1> QED BY <1>1, <1>2, <1>3, <1>4, <1>5, <1>6, <1>7, <1>8, <1>9, <1>10, <1>11, <1>12
        DEF Next, Writer, SnapshotWorker

\* What LogAgrees says of one key.
Agrees(k) ==
    missed[k] = "no" /\ (\A c \in Clients : op[c].key # k) =>
        index[k] = Replay(LoadSnapshot, Lines)[k]

\* The log and its queues are sequences of lines, and so is all of them.
LEMMA LinesTyped ==
    ASSUME TypeOK
    PROVE  /\ wal \in Seq(Line) /\ walBuf \in Seq(Line) /\ walChan \in Seq(Line)
           /\ wal \o walBuf \in Seq(Line) /\ Lines \in Seq(Line)
<1>1. wal \in Seq(Line) /\ walBuf \in Seq(Line) /\ walChan \in Seq(Line)
  BY DEF TypeOK
<1>2. wal \o walBuf \in Seq(Line)
  BY <1>1, ConcatProperties
<1>3. (wal \o walBuf) \o walChan \in Seq(Line)
  BY <1>1, <1>2, ConcatProperties
<1> QED BY <1>1, <1>2, <1>3, Zenon DEF Lines

\* A key that neither the queues nor the log name has what the snapshot has of it.
LEMMA NotQueued ==
    ASSUME AllPlain, TypeOK, NEW k \in Keys, k \notin KeysOf(walChan)
    PROVE  /\ Replay(LoadSnapshot, walChan)[k] = snap[k]
           /\ \A a \in Seq(Line) : Replay(LoadSnapshot, a \o walChan)[k]
                                     = Replay(LoadSnapshot, a)[k]
<1>1. walChan \in Seq(Line) /\ <<>> \in Seq(Line)
  BY EmptySeq DEF TypeOK
<1>2. LinesOf(walChan, k) = {}
  BY <1>1, PlainLines
<1>3. Replay(LoadSnapshot, walChan)[k] = snap[k]
  BY <1>2, ReplayNone, LoadPlain
<1>4. ASSUME NEW a \in Seq(Line)
      PROVE  Replay(LoadSnapshot, a \o walChan)[k] = Replay(LoadSnapshot, a)[k]
  <2>1. Replay(LoadSnapshot, (a \o walChan) \o <<>>)[k] = Replay(LoadSnapshot, a \o <<>>)[k]
    <3>1. PICK none \in Seq(Line) : none = <<>>
      BY <1>1
    <3>2. Replay(LoadSnapshot, (a \o walChan) \o none)[k] = Replay(LoadSnapshot, a \o none)[k]
      BY <1>1, ReplayDrop
    <3> QED BY <3>1, <3>2, Zenon
  <2>2. a \o walChan \in Seq(Line)
    BY <1>1, ConcatProperties
  <2> QED BY <2>1, <2>2, ConcatEmptySeq
<1> QED BY <1>3, <1>4

\* A flush takes no line away but those of keys that it marks.
LEMMA FlushReplays ==
    ASSUME AllPlain, TypeOK, Flush, UNCHANGED walChan, NEW k \in Keys, missed'[k] = "no"
    PROVE  \A map : Replay(map, Lines')[k] = Replay(map, Lines)[k]
<1>1. /\ wal \in Seq(Line) /\ walBuf \in Seq(Line) /\ walChan \in Seq(Line)
      /\ wal \o walBuf \in Seq(Line)
  BY LinesTyped
<1>2. CASE Flushed
  <2>1. Lines' = ((wal \o walBuf) \o <<>>) \o walChan
    BY <1>2 DEF Flushed, Lines
  <2> QED BY <1>1, <2>1, ConcatEmptySeq DEF Lines
<1>3. CASE FlushFails
  <2>1. PICK n \in 0 .. Len(walBuf) - 1 :
            /\ wal' = wal \o SubSeq(walBuf, 1, n)
            /\ Lose(KeysOf(SubSeq(walBuf, n + 1, Len(walBuf))))
    BY <1>3 DEF FlushFails
  <2> DEFINE kept == SubSeq(walBuf, 1, n)
             lost == SubSeq(walBuf, n + 1, Len(walBuf))
  <2>2. Len(walBuf) \in Nat
    BY <1>1, LenProperties
  <2>3. kept \in Seq(Line) /\ lost \in Seq(Line)
    BY <1>1, <2>2, PartTyped
  <2>4. walBuf = kept \o lost
    <3>1. kept \o lost = SubSeq(walBuf, 1, Len(walBuf))
      BY <1>1, <2>2, ConcatAdjacentSubSeq
    <3> QED BY <1>1, <3>1, SubSeqFull
  <2>5. k \notin KeysOf(lost)
    BY <2>1 DEF Lose
  <2> HIDE DEF kept, lost
  <2>6. wal \o kept \in Seq(Line)
    BY <1>1, <2>3, ConcatProperties
  <2>7. Lines = ((wal \o kept) \o lost) \o walChan
    <3>1. PICK a \in Seq(Line) : a = wal
      BY <1>1
    <3>2. PICK b \in Seq(Line), c \in Seq(Line) : b = kept /\ c = lost
      BY <2>3
    <3>3. a \o (b \o c) = (a \o b) \o c
      BY Associative
    <3> QED BY <2>4, <3>1, <3>2, <3>3, Zenon DEF Lines
  <2>8. Lines' = (wal \o kept) \o walChan
    <3>1. Lines' = ((wal \o kept) \o <<>>) \o walChan
      BY <1>3, <2>1 DEF FlushFails, Lines, kept
    <3> QED BY <2>6, <3>1, ConcatEmptySeq
  <2>9. ASSUME NEW map
        PROVE  Replay(map, ((wal \o kept) \o lost) \o walChan)[k]
                 = Replay(map, (wal \o kept) \o walChan)[k]
    <3>1. ASSUME NEW a \in Seq(Line), NEW b \in Seq(Line), NEW c \in Seq(Line),
                 k \notin KeysOf(b)
          PROVE  Replay(map, (a \o b) \o c)[k] = Replay(map, a \o c)[k]
      BY <3>1, ReplayDrop
    <3>2. wal \o kept \in Seq(Line) /\ lost \in Seq(Line) /\ walChan \in Seq(Line)
      BY <1>1, <2>3, <2>6
    <3> QED BY <2>5, <3>1, <3>2, Zenon
  <2> QED BY <2>7, <2>8, <2>9, Zenon
<1> QED BY <1>2, <1>3 DEF Flush

\* A step that leaves the index and the snapshot alone keeps Agrees if the lines still
\* give the same, for a key that counts as safe afterwards.
LEMMA AgreesKept ==
    ASSUME AllPlain, NEW k \in Keys, Agrees(k), UNCHANGED <<index, snap, op>>,
           missed'[k] = "no" => missed[k] = "no",
           missed'[k] = "no" =>
               Replay(LoadSnapshot, Lines')[k] = Replay(LoadSnapshot, Lines)[k]
    PROVE  Agrees(k)'
<1>1. LoadSnapshot' = LoadSnapshot
  BY DEF LoadSnapshot
<1> QED BY <1>1 DEF Agrees, Replay

\* A line behind a queue that is behind a log.
LEMMA AppendBehind ==
    ASSUME NEW a \in Seq(Line), NEW b \in Seq(Line), NEW line \in Line
    PROVE  a \o Append(b, line) = Append(a \o b, line)
<1> DEFINE x == <<line>>
<1>1. x \in Seq(Line) /\ Append(b, line) = b \o x
  BY AppendIsConcat
<1>2. a \o b \in Seq(Line)
  BY ConcatProperties
<1>3. Append(a \o b, line) = (a \o b) \o x
  BY <1>2, AppendIsConcat
<1> HIDE DEF x
<1>4. a \o (b \o x) = (a \o b) \o x
  BY <1>1, Associative, Zenon
<1> QED BY <1>1, <1>3, <1>4, Zenon

\* A client sends the change that the index has for its key.
LEMMA AgreesSend ==
    ASSUME AllPlain, OneOwner, TypeOK, UnsentIsLast,
           NEW c \in Clients, Send(c), NEW k \in Keys, Agrees(k)
    PROVE  Agrees(k)'
<1>1. /\ op[c] \in Line /\ op[c].key \in Keys
      /\ c \in Owner[op[c].key] /\ index[op[c].key] = op[c].span
  BY DEF Send, TypeOK, UnsentIsLast, Line
<1>2. Lines' = Append(Lines, op[c])
  <2>1. wal \o walBuf \in Seq(Line) /\ walChan \in Seq(Line)
    BY LinesTyped
  <2>2. (wal \o walBuf) \o Append(walChan, op[c]) = Append((wal \o walBuf) \o walChan, op[c])
    BY <1>1, <2>1, AppendBehind, Zenon
  <2> QED BY <2>2 DEF Send, snapshot, Lines
<1>3. /\ LoadSnapshot' = LoadSnapshot /\ index' = index /\ missed' = missed
      /\ \A d \in Clients : d # c => op'[d] = op[d]
  BY DEF Send, snapshot, LoadSnapshot, TypeOK
<1>4. /\ k = op[c].key => Replay(LoadSnapshot, Append(Lines, op[c]))[k] = op[c].span
      /\ k # op[c].key => Replay(LoadSnapshot, Append(Lines, op[c]))[k]
                            = Replay(LoadSnapshot, Lines)[k]
  <2>1. Lines \in Seq(Line)
    BY LinesTyped
  <2> QED BY <1>1, <2>1, ReplayAppend, Zenon
<1>5. Replay(LoadSnapshot, Lines)'[k] = Replay(LoadSnapshot, Append(Lines, op[c]))[k]
  BY <1>2, <1>3 DEF Replay
<1>6. CASE k = op[c].key
  BY <1>1, <1>3, <1>4, <1>5, <1>6 DEF Agrees
<1>7. CASE k # op[c].key
  <2>1. (\A d \in Clients : op'[d].key # k) => (\A d \in Clients : op[d].key # k)
    BY <1>3, <1>7
  <2> QED BY <1>3, <1>4, <1>5, <1>7, <2>1 DEF Agrees
<1> QED BY <1>6, <1>7

\* A queue is its first line and the others.
LEMMA FirstAndRest ==
    ASSUME NEW c \in Seq(Line), c # <<>>
    PROVE  \E x, rest \in Seq(Line) :
               /\ x = <<c[1]>> /\ rest = Tail(c) /\ c = x \o rest
               /\ KeysOf(x) = {c[1].key}
               /\ \A b \in Seq(Line) : Append(b, c[1]) = b \o x
<1>1. c[1] \in Line /\ Tail(c) \in Seq(Line) /\ c = <<c[1]>> \o Tail(c)
  BY KeysOfTail
<1>2. <<c[1]>> \in Seq(Line)
  BY <1>1
<1>3. KeysOf(<<c[1]>>) = {c[1].key}
  BY DEF KeysOf
<1>4. \A b \in Seq(Line) : Append(b, c[1]) = b \o <<c[1]>>
  BY <1>1, AppendIsConcat
<1> QED BY <1>1, <1>2, <1>3, <1>4, Zenon

\* The first line of a queue moves to the end of the one before it.
LEMMA MoveFirst ==
    ASSUME NEW a \in Seq(Line), NEW b \in Seq(Line), NEW c \in Seq(Line), c # <<>>
    PROVE  (a \o Append(b, c[1])) \o Tail(c) = (a \o b) \o c
<1>1. PICK x \in Seq(Line), rest \in Seq(Line) :
          rest = Tail(c) /\ c = x \o rest /\ Append(b, c[1]) = b \o x
  BY FirstAndRest
<1>2. a \o (b \o x) = (a \o b) \o x
  BY Associative, Zenon
<1>3. PICK ab \in Seq(Line) : ab = a \o b
  BY ConcatProperties
<1>4. (ab \o x) \o rest = ab \o (x \o rest)
  BY Associative, Zenon
<1> QED BY <1>1, <1>2, <1>3, <1>4, Zenon

\* It may be dropped as far as the other keys are concerned.
LEMMA DropFirst ==
    ASSUME AllPlain, NEW map, NEW k \in Keys,
           NEW a \in Seq(Line), NEW c \in Seq(Line), c # <<>>, k # c[1].key
    PROVE  Replay(map, a \o Tail(c))[k] = Replay(map, a \o c)[k]
<1>1. PICK x \in Seq(Line), rest \in Seq(Line) :
          rest = Tail(c) /\ c = x \o rest /\ KeysOf(x) = {c[1].key}
  BY FirstAndRest
<1>2. k \notin KeysOf(x)
  BY <1>1
<1>3. Replay(map, (a \o x) \o rest)[k] = Replay(map, a \o rest)[k]
  BY <1>2, ReplayDrop
<1>4. (a \o x) \o rest = a \o (x \o rest)
  BY Associative, Zenon
<1> QED BY <1>1, <1>3, <1>4, Zenon

\* The writer moves a line on, or drops one of a key that it marks.
LEMMA AgreesWrite ==
    ASSUME AllPlain, TypeOK, WriteLine, NEW k \in Keys, Agrees(k)
    PROVE  Agrees(k)'
<1>1. /\ wal \in Seq(Line) /\ walBuf \in Seq(Line) /\ walChan \in Seq(Line)
      /\ wal \o walBuf \in Seq(Line) /\ walChan # <<>>
  BY LinesTyped DEF WriteLine
<1>2. CASE ~ broken
  <2>1. Lines' = (wal \o Append(walBuf, walChan[1])) \o Tail(walChan)
    BY <1>2 DEF WriteLine, Lines
  <2>2. Lines' = Lines
    BY <1>1, <2>1, MoveFirst DEF Lines
  <2> QED BY <1>2, <2>2, AgreesKept DEF WriteLine, snapshot
<1>3. CASE broken
  <2>1. Lines' = (wal \o walBuf) \o Tail(walChan)
    BY <1>3 DEF WriteLine, Lines
  <2>2. missed'[k] = "no" => missed[k] = "no" /\ k # walChan[1].key
    BY <1>3 DEF WriteLine, Lose, TypeOK
  <2>3. ASSUME k # walChan[1].key
        PROVE  Replay(LoadSnapshot, Lines')[k] = Replay(LoadSnapshot, Lines)[k]
    <3>1. PICK written \in Seq(Line) : written = wal \o walBuf
      BY <1>1
    <3>2. Replay(LoadSnapshot, written \o Tail(walChan))[k]
            = Replay(LoadSnapshot, written \o walChan)[k]
      BY <1>1, <2>3, DropFirst
    <3> QED BY <2>1, <3>1, <3>2, Zenon DEF Lines
  <2> QED BY <1>3, <2>2, <2>3, AgreesKept DEF WriteLine, snapshot
<1> QED BY <1>2, <1>3

\* Once the snapshot has what the index has of a key, the log may go, or stay: a
\* log that is read after the snapshot changes nothing if it does not name the key.
LEMMA AgreesRotate ==
    ASSUME AllPlain, TypeOK, NEW k \in Keys, Rest(k), Agrees(k),
           SnapshotRotate \/ RotateFails \/ RotateRefused
    PROVE  Agrees(k)'
<1> SUFFICES ASSUME missed'[k] = "no", \A c \in Clients : op[c].key # k
             PROVE  index[k] = Replay(LoadSnapshot, Lines')[k]
  BY DEF Agrees, SnapshotRotate, RotateFails, RotateRefused, LoadSnapshot, Replay
<1>1. missed[k] # "during"
  BY DEF SnapshotRotate, RotateFails, RotateRefused, Covered, CoveredBeside
<1>2. k \notin KeysOf(walChan) /\ snap[k] = index[k]
  BY <1>1 DEF Rest, InFlight, SnapshotRotate, RotateFails, RotateRefused
<1>3. /\ wal \in Seq(Line) /\ walBuf \in Seq(Line) /\ walChan \in Seq(Line)
      /\ wal \o walBuf \in Seq(Line) /\ <<>> \in Seq(Line)
  BY LinesTyped, EmptySeq
<1>4. Replay(LoadSnapshot, <<>> \o walChan)[k] = snap[k]
  BY <1>2, <1>3, NotQueued, ConcatEmptySeq
<1>5. CASE wal' = <<>> /\ walBuf' = <<>> /\ walChan' = walChan
  <2>1. Lines' = (<<>> \o <<>>) \o walChan
    BY <1>5 DEF Lines
  <2> QED BY <1>2, <1>3, <1>4, <2>1, ConcatEmptySeq
<1>6. CASE /\ missed' = CoveredBeside(wal) /\ walBuf' \in {<<>>, walBuf}
           /\ UNCHANGED <<wal, walChan>>
  <2>1. /\ missed[k] \in {"no", "old"} /\ k \notin KeysOf(walBuf)
        /\ missed[k] = "old" => LinesOf(wal, k) = {}
    BY <1>1, <1>6 DEF CoveredBeside, TypeOK
  <2>2. PICK both \in Seq(Line) : both = wal \o walBuf
    BY <1>3
  <2>3. /\ Replay(LoadSnapshot, both \o walChan)[k] = Replay(LoadSnapshot, both)[k]
        /\ Replay(LoadSnapshot, wal \o walChan)[k] = Replay(LoadSnapshot, wal)[k]
    BY <1>2, <1>3, NotQueued
  <2>4. Replay(LoadSnapshot, both)[k] = Replay(LoadSnapshot, wal)[k]
    <3>1. PICK none \in Seq(Line) : none = <<>>
      BY <1>3
    <3>2. Replay(LoadSnapshot, (wal \o walBuf) \o none)[k] = Replay(LoadSnapshot, wal \o none)[k]
      BY <1>3, <2>1, ReplayDrop
    <3>3. both \o <<>> = both /\ wal \o <<>> = wal
      BY <1>3, ConcatEmptySeq
    <3> QED BY <2>2, <3>1, <3>2, <3>3, Zenon
  <2>5. Lines' \in {both \o walChan, wal \o walChan}
    <3>1. wal \o <<>> = wal
      BY <1>3, ConcatEmptySeq
    <3> QED BY <1>6, <2>2, <3>1 DEF Lines
  <2>6. Replay(LoadSnapshot, Lines')[k] = Replay(LoadSnapshot, wal)[k]
    BY <2>3, <2>4, <2>5
  <2>7. CASE missed[k] = "no"
    <3>1. index[k] = Replay(LoadSnapshot, both \o walChan)[k]
      BY <2>2, <2>7 DEF Agrees, Lines
    <3> QED BY <2>3, <2>4, <2>6, <3>1
  <2>8. CASE missed[k] = "old"
    <3>1. Replay(LoadSnapshot, wal)[k] = snap[k]
      BY <2>1, <2>8, ReplayNone, LoadPlain
    <3> QED BY <1>2, <2>6, <3>1
  <2> QED BY <2>1, <2>7, <2>8
<1>7. \/ wal' = <<>> /\ walBuf' = <<>> /\ walChan' = walChan
      \/ /\ missed' = CoveredBeside(wal) /\ walBuf' \in {<<>>, walBuf}
         /\ UNCHANGED <<wal, walChan>>
  <2>1. CASE SnapshotRotate
    BY <2>1 DEF SnapshotRotate
  <2>2. CASE RotateFails
    BY <2>2 DEF RotateFails
  <2>3. CASE RotateRefused
    BY <2>3 DEF RotateRefused
  <2> QED BY <2>1, <2>2, <2>3
<1> QED BY <1>5, <1>6, <1>7

\* The new snapshot takes the place of the old one: it has what the index has of a
\* key at rest, and the lines of the key count after either.
LEMMA AgreesRename ==
    ASSUME AllPlain, TypeOK, NEW k \in Keys, Rest(k), Agrees(k), SnapshotRename
    PROVE  Agrees(k)'
<1> SUFFICES ASSUME missed[k] = "no", \A c \in Clients : op[c].key # k
             PROVE  index[k] = Replay(LoadSnapshot', Lines)[k]
  BY DEF Agrees, SnapshotRename, Lines, Replay
<1>1. Lines \in Seq(Line) /\ index[k] = Replay(LoadSnapshot, Lines)[k]
  BY LinesTyped DEF Agrees
<1>2. LoadSnapshot'[k] = index[k]
  BY DEF Rest, Copied, SnapshotRename, LoadSnapshot, AllPlain
<1>3. CASE LinesOf(Lines, k) = {}
  BY <1>2, <1>3, ReplayNone
<1>4. CASE LinesOf(Lines, k) # {}
  <2>1. PICK i \in DOMAIN Lines : IsLast(Lines, k, i)
    BY <1>1, <1>4, LastExists
  <2>2. /\ Replay(LoadSnapshot, Lines)[k] = Lines[i].span
        /\ Replay(LoadSnapshot', Lines)[k] = Lines[i].span
    BY <1>1, <2>1, ReplayLast
  <2> QED BY <1>1, <2>2
<1> QED BY <1>3, <1>4

\* Every step keeps the agreement.
LEMMA AgreesStep ==
    ASSUME AllPlain, OneOwner, TypeOK, UnsentIsLast, RestIsCopied, [Next]_vars,
           NEW k \in Keys, Agrees(k)
    PROVE  Agrees(k)'
<1>0. Rest(k)
  BY DEF Rest, RestIsCopied
<1>1. ASSUME NEW c \in Clients, NEW j \in Keys, NEW s \in Spans \cup {Absent},
             Change(c, j, s)
      PROVE  Agrees(k)'
  <2>1. CASE k = j
    BY <1>1, <2>1 DEF Change, TypeOK, Agrees
  <2>2. CASE k # j
    <3>1. /\ index'[k] = index[k] /\ missed'[k] = missed[k]
          /\ UNCHANGED <<wal, walBuf, walChan, snap>>
      BY <1>1, <2>2 DEF Change, TypeOK, snapshot
    <3>2. (\A d \in Clients : op'[d].key # k) => (\A d \in Clients : op[d].key # k)
      <4>1. op[c].key = Absent
        BY <1>1 DEF Change, NoOp
      <4> QED BY <1>1, <4>1, ConstantsAssumption DEF Change, TypeOK
    <3> QED BY <3>1, <3>2 DEF Agrees, Lines, LoadSnapshot, Replay
  <2> QED BY <2>1, <2>2
<1>2. ASSUME NEW c \in Clients, Send(c) PROVE Agrees(k)'
  BY <1>2, AgreesSend
<1>3. CASE WriteLine
  BY <1>3, AgreesWrite
<1>4. CASE Flush /\ UNCHANGED <<index, walChan, snap, op>>
  BY <1>4, FlushReplays, LoseKeeps, AgreesKept
<1>5. CASE SnapshotRename
  BY <1>0, <1>5, AgreesRename
<1>6. CASE SnapshotRotate \/ RotateFails \/ RotateRefused
  BY <1>0, <1>6, AgreesRotate
<1>7. CASE SnapshotBegin \/ SnapshotCopy \/ SnapshotRenameFails \/ SnapshotAbandoned
           \/ UNCHANGED vars
  <2>1. /\ UNCHANGED <<index, wal, walBuf, walChan, snap, op>>
        /\ missed'[k] = "no" => missed[k] = "no"
    BY <1>7 DEF SnapshotBegin, SnapshotCopy, SnapshotRenameFails, SnapshotAbandoned, vars
  <2> QED BY <2>1, AgreesKept DEF Lines
<1>8. CASE Restart
  <2>1. Lines' = (wal \o <<>>) \o <<>> /\ wal \in Seq(Line)
    BY <1>8 DEF Restart, Lines, TypeOK
  <2>2. Lines' = wal
    BY <2>1, ConcatEmptySeq
  <2>3. index'[k] = Replay(LoadSnapshot, wal)[k] /\ LoadSnapshot' = LoadSnapshot
    BY <1>8 DEF Restart, Recovered, LoadSnapshot
  <2> QED BY <2>2, <2>3 DEF Agrees, Replay
<1> QED BY <1>1, <1>2, <1>3, <1>4, <1>5, <1>6, <1>7, <1>8
        DEF Next, Writer, SnapshotWorker, SendBlocked, FlushWal, SnapshotFlush, snapshot

\* What a start recovers is what the index has, for every key but those that changed
\* during the last snapshot, or whose line was lost: for plain keys with one owner each.
THEOREM LogIsIndex ==
    ASSUME AllPlain, OneOwner
    PROVE  Spec => []LogAgrees
<1>1. Init => LogInv
  BY TypeInit, LogInit DEF LogInv
<1>2. LogInv /\ [Next]_vars => LogInv'
  <2> SUFFICES ASSUME LogInv, [Next]_vars PROVE LogInv'
    OBVIOUS
  <2>1. TypeOK' /\ UnsentIsLast' /\ RestIsCopied'
    BY TypeStep, UnsentStep, RestStep DEF LogInv
  <2>2. ASSUME NEW k \in Keys PROVE Agrees(k)'
    BY AgreesStep DEF LogInv, LogAgrees, Agrees, Lines
  <2>3. LogAgrees'
    BY <2>2 DEF LogAgrees, Agrees, Lines
  <2> QED BY <2>1, <2>3 DEF LogInv
<1>3. LogInv => LogAgrees
  BY DEF LogInv
<1> QED BY <1>1, <1>2, <1>3, PTL DEF Spec

-----------------------------------------------------------------------------
(* Without rotation the log is a history of the index, key by key. *)

\* How many members of a set come up to i.
Rank(S, i) == Cardinality({j \in S : j <= i})

\* A set of positions is finite; a member has one of the ranks from 1 on.
LEMMA RankTyped ==
    ASSUME NEW n \in Nat, NEW S \in SUBSET (1 .. n), NEW i \in Nat
    PROVE  /\ IsFiniteSet(S) /\ Cardinality(S) \in Nat
           /\ Rank(S, i) \in 0 .. Cardinality(S)
           /\ i \in S => Rank(S, i) >= 1
<1> DEFINE upto == {j \in S : j <= i}
<1>1. IsFiniteSet(1 .. n)
  BY FS_Interval
<1>2. IsFiniteSet(S)
  BY <1>1, FS_Subset
<1>3. upto \in SUBSET S
  OBVIOUS
<1>4. IsFiniteSet(upto) /\ Cardinality(upto) <= Cardinality(S)
  BY <1>2, <1>3, FS_Subset, Zenon
<1>5. Cardinality(S) \in Nat /\ Cardinality(upto) \in Nat
  BY <1>2, <1>4, FS_CardinalityType
<1>6. i \in S => upto # {}
  OBVIOUS
<1> HIDE DEF upto
<1>7. i \in S => Cardinality(upto) # 0
  BY <1>4, <1>6, FS_EmptySet
<1> QED BY <1>2, <1>4, <1>5, <1>7 DEF Rank, upto

LEMMA RanksAreNatural ==
    ASSUME NEW n \in Nat, NEW S \in SUBSET (1 .. n)
    PROVE  \A i \in Nat : Rank(S, i) \in Nat
<1> SUFFICES ASSUME NEW i \in Nat PROVE Rank(S, i) \in Nat
  OBVIOUS
<1>1. Cardinality(S) \in Nat /\ Rank(S, i) \in 0 .. Cardinality(S)
  BY RankTyped
<1> QED BY <1>1

\* A later member has a greater rank.
LEMMA RankGrows ==
    ASSUME NEW n \in Nat, NEW S \in SUBSET (1 .. n), NEW i \in S, NEW j \in S, i < j
    PROVE  Rank(S, i) < Rank(S, j)
<1> DEFINE a == {x \in S : x <= i}
           b == {x \in S : x <= j}
<1>0. i \in Nat /\ j \in Nat /\ \A x \in S : x \in Nat
  OBVIOUS
<1>1. a \in SUBSET b /\ j \in b /\ j \notin a
  <2>1. \A x \in S : x <= i => x <= j
    BY <1>0
  <2>2. j \in b
    BY <1>0
  <2>3. j \notin a
    BY <1>0
  <2> QED BY <2>1, <2>2, <2>3
<1>2. IsFiniteSet(b)
  <2>1. IsFiniteSet(S) /\ b \in SUBSET S
    BY RankTyped
  <2> HIDE DEF b
  <2> QED BY <2>1, FS_Subset
<1>3. Rank(S, i) \in Nat /\ Rank(S, j) \in Nat
  BY <1>0, RanksAreNatural
<1>4. Cardinality(a) <= Cardinality(b) /\ (Cardinality(b) = Cardinality(a) => b = a)
  <2> HIDE DEF a, b
  <2> QED BY <1>1, <1>2, FS_Subset
<1>5. Cardinality(a) # Cardinality(b)
  BY <1>1, <1>4
<1> QED BY <1>3, <1>4, <1>5 DEF Rank

\* The member of a rank is the only one.
LEMMA NthOfRank ==
    ASSUME NEW n \in Nat, NEW S \in SUBSET (1 .. n), NEW i \in S
    PROVE  Nth(S, Rank(S, i)) = i
<1>1. ASSUME NEW j \in S, Rank(S, j) = Rank(S, i) PROVE j = i
  <2>0. i \in Nat /\ j \in Nat
    OBVIOUS
  <2>1. Rank(S, i) \in Nat /\ Rank(S, j) \in Nat
    BY <2>0, RanksAreNatural
  <2>2. (i < j => Rank(S, i) < Rank(S, j)) /\ (j < i => Rank(S, j) < Rank(S, i))
    BY RankGrows
  <2>3. ~ (i < j) /\ ~ (j < i)
    BY <1>1, <2>1, <2>2
  <2> QED BY <2>0, <2>3
<1> DEFINE r == Rank(S, i)
<1>2. Nth(S, r) = CHOOSE j \in S : Rank(S, j) = r
  BY DEF Nth, Rank
<1> QED BY <1>1, <1>2

\* Every rank has its member.
LEMMA RankOnto ==
    ASSUME NEW n \in Nat, NEW S \in SUBSET (1 .. n), NEW r \in 1 .. Cardinality(S)
    PROVE  Nth(S, r) \in S /\ Rank(S, Nth(S, r)) = r
<1> DEFINE f == [i \in S |-> Rank(S, i)]
           T == {Rank(S, i) : i \in S}
           c == Cardinality(S)
<1>1. IsFiniteSet(S) /\ c \in Nat
  BY RankTyped
<1>2. f \in Surjection(S, T)
  BY DEF Surjection
<1>3. f \in Injection(S, T)
  <2>1. ASSUME NEW i \in S, NEW j \in S, f[i] = f[j] PROVE i = j
    <3>1. Nth(S, Rank(S, i)) = i /\ Nth(S, Rank(S, j)) = j
      BY NthOfRank
    <3> QED BY <2>1, <3>1
  <2>2. f \in [S -> T]
    OBVIOUS
  <2> QED BY <2>1, <2>2 DEF Injection, IsInjective
<1>4. T \in SUBSET (1 .. c)
  <2> SUFFICES ASSUME NEW i \in S PROVE Rank(S, i) \in 1 .. c
    OBVIOUS
  <2>1. i \in Nat
    OBVIOUS
  <2>2. Rank(S, i) \in 0 .. Cardinality(S) /\ Rank(S, i) >= 1
    BY <2>1, RankTyped
  <2> QED BY <1>1, <2>2
<1> HIDE DEF f, T, c
<1>5. Cardinality(T) = c
  BY <1>1, <1>2, <1>3, FS_Surjection DEF c
<1>6. IsFiniteSet(1 .. c) /\ Cardinality(1 .. c) = c
  BY <1>1, FS_Interval
<1>7. T = 1 .. c
  BY <1>4, <1>5, <1>6, FS_Subset
<1>8. r \in T
  BY <1>7 DEF c
<1>9. PICK i \in S : r = Rank(S, i)
  BY <1>8 DEF T
<1>10. Nth(S, r) = i
  BY <1>9, NthOfRank
<1> QED BY <1>9, <1>10

\* What lines give a key is a sequence of as many spans as there are lines of it.
LEMMA SpansTyped ==
    ASSUME NEW lines \in Seq(Line), NEW k \in Keys
    PROVE  /\ SpansOf(lines, k) \in Seq(Stored)
           /\ Len(SpansOf(lines, k)) = Cardinality(LinesOf(lines, k))
           /\ Cardinality(LinesOf(lines, k)) \in Nat
           /\ LinesOf(lines, k) \in SUBSET (1 .. Len(lines)) /\ Len(lines) \in Nat
<1> DEFINE at == LinesOf(lines, k)
           c == Cardinality(at)
<1>1. at \in SUBSET (1 .. Len(lines)) /\ Len(lines) \in Nat
  BY LenProperties DEF LinesOf
<1> HIDE DEF at
<1>2. c \in Nat
  BY <1>1, RankTyped
<1>3. ASSUME NEW r \in 1 .. c PROVE lines[Nth(at, r)].span \in Stored
  <2>1. Nth(at, r) \in 1 .. Len(lines)
    BY <1>1, RankOnto
  <2>2. lines[Nth(at, r)] \in Line
    BY <2>1, ElementOfSeq
  <2> QED BY <2>2 DEF Line, Stored
<1>4. SpansOf(lines, k) = [r \in 1 .. c |-> lines[Nth(at, r)].span]
  BY DEF SpansOf, at
<1> HIDE DEF c
<1> QED BY <1>1, <1>2, <1>3, <1>4 DEF at, c

\* The line at a position gives the span of its rank.
LEMMA SpansAt ==
    ASSUME NEW lines \in Seq(Line), NEW k \in Keys, NEW i \in LinesOf(lines, k)
    PROVE  SpansOf(lines, k)[Rank(LinesOf(lines, k), i)] = lines[i].span
<1> DEFINE at == LinesOf(lines, k)
           r == Rank(at, i)
<1>1. at \in SUBSET (1 .. Len(lines)) /\ Len(lines) \in Nat /\ i \in at /\ i \in Nat
  <2>1. at \in SUBSET (1 .. Len(lines)) /\ Len(lines) \in Nat
    BY SpansTyped
  <2> QED BY <2>1
<1>2. SpansOf(lines, k) = [x \in 1 .. Cardinality(at) |-> lines[Nth(at, x)].span]
  BY DEF SpansOf
<1> HIDE DEF at
<1>3. r \in 1 .. Cardinality(at) /\ Nth(at, r) = i
  <2>1. r \in 0 .. Cardinality(at) /\ r >= 1 /\ Cardinality(at) \in Nat
    BY <1>1, RankTyped
  <2>2. Nth(at, r) = i
    BY <1>1, NthOfRank
  <2> QED BY <2>1, <2>2
<1> QED BY <1>2, <1>3 DEF at

\* A set of positions has as many members when it is moved up.
LEMMA ShiftedCardinality ==
    ASSUME NEW n \in Nat, NEW S \in SUBSET (1 .. n), NEW m \in Nat
    PROVE  LET T == {m + i : i \in S}
           IN  IsFiniteSet(T) /\ Cardinality(T) = Cardinality(S)
<1> DEFINE T == {m + i : i \in S}
           f == [i \in S |-> m + i]
<1>1. IsFiniteSet(S)
  BY RankTyped
<1>2. f \in Surjection(S, T)
  BY DEF Surjection
<1>3. f \in Injection(S, T)
  <2>1. ASSUME NEW i \in S, NEW j \in S, f[i] = f[j] PROVE i = j
    BY <2>1
  <2>2. f \in [S -> T]
    OBVIOUS
  <2> QED BY <2>1, <2>2 DEF Injection, IsInjective
<1> HIDE DEF f, T
<1>4. IsFiniteSet(T) /\ Cardinality(T) = Cardinality(S)
  BY <1>1, <1>2, <1>3, FS_Surjection
<1> QED BY <1>4 DEF T

\* A set of positions, and another one behind it.
Joined(A, m, B) == A \cup {m + i : i \in B}

LEMMA JoinedRanks ==
    ASSUME NEW m \in Nat, NEW n \in Nat,
           NEW A \in SUBSET (1 .. m), NEW B \in SUBSET (1 .. n)
    PROVE  /\ Cardinality(Joined(A, m, B)) = Cardinality(A) + Cardinality(B)
           /\ \A i \in A : Rank(Joined(A, m, B), i) = Rank(A, i)
           /\ \A i \in B : Rank(Joined(A, m, B), m + i) = Cardinality(A) + Rank(B, i)
<1> DEFINE S == Joined(A, m, B)
<1> HIDE DEF S
<1>0. S = A \cup {m + i : i \in B}
  BY DEF Joined, S
<1>1. ASSUME NEW D \in SUBSET B
      PROVE  Cardinality(A \cup {m + i : i \in D}) = Cardinality(A) + Cardinality(D)
  <2> DEFINE T == {m + i : i \in D}
  <2>1. IsFiniteSet(A) /\ Cardinality(A) \in Nat
    BY RankTyped
  <2>2. D \in SUBSET (1 .. n)
    OBVIOUS
  <2>3. IsFiniteSet(T) /\ Cardinality(T) = Cardinality(D) /\ Cardinality(D) \in Nat
    BY <2>2, ShiftedCardinality, RankTyped
  <2>4. A \cap T = {}
    OBVIOUS
  <2> HIDE DEF T
  <2>5. Cardinality(A \cup T) = Cardinality(A) + Cardinality(T) - Cardinality(A \cap T)
    BY <2>1, <2>3, FS_Union
  <2>6. Cardinality(A \cap T) = 0
    BY <2>4, FS_EmptySet
  <2> QED BY <2>1, <2>3, <2>5, <2>6 DEF T
<1>2. ASSUME NEW i \in A PROVE Rank(S, i) = Rank(A, i)
  <2>1. {j \in S : j <= i} = {j \in A : j <= i}
    BY <1>0
  <2> QED BY <2>1 DEF Rank
<1>3. ASSUME NEW i \in B PROVE Rank(S, m + i) = Cardinality(A) + Rank(B, i)
  <2> DEFINE D == {j \in B : j <= i}
  <2>1. {j \in S : j <= m + i} = A \cup {m + j : j \in D}
    <3>1. i \in Nat /\ (\A j \in A : j \in Nat /\ j <= m) /\ (\A j \in B : j \in Nat)
      OBVIOUS
    <3>2. \A j \in A : j <= m + i
      BY <3>1
    <3>3. \A j \in B : m + j <= m + i <=> j <= i
      BY <3>1
    <3>4. ASSUME NEW x \in S PROVE x <= m + i <=> x \in A \cup {m + j : j \in D}
      <4>1. CASE x \in A
        BY <3>2, <4>1
      <4>2. CASE x \notin A
        <5>1. PICK j \in B : x = m + j
          BY <1>0, <4>2
        <5>2. ASSUME NEW y \in D, x = m + y PROVE y = j
          BY <3>1, <5>1, <5>2
        <5> QED BY <3>3, <4>2, <5>1, <5>2
      <4> QED BY <4>1, <4>2
    <3>5. \A x \in A \cup {m + j : j \in D} : x \in S
      BY <1>0
    <3> QED BY <3>4, <3>5
  <2>2. D \in SUBSET B
    OBVIOUS
  <2> HIDE DEF D
  <2>3. Cardinality(A \cup {m + j : j \in D}) = Cardinality(A) + Cardinality(D)
    BY <1>1, <2>2
  <2> QED BY <2>1, <2>3 DEF Rank, D
<1>4. Cardinality(S) = Cardinality(A) + Cardinality(B)
  BY <1>0, <1>1
<1> QED BY <1>2, <1>3, <1>4 DEF S

\* What two queues give a key is what the first gives it, then what the second does.
LEMMA SpansConcat ==
    ASSUME NEW a \in Seq(Line), NEW b \in Seq(Line), NEW k \in Keys
    PROVE  SpansOf(a \o b, k) = SpansOf(a, k) \o SpansOf(b, k)
<1> DEFINE m == Len(a)
           n == Len(b)
           A == LinesOf(a, k)
           B == LinesOf(b, k)
           S == LinesOf(a \o b, k)
           p == SpansOf(a, k)
           q == SpansOf(b, k)
           s == SpansOf(a \o b, k)
           cA == Cardinality(A)
           cB == Cardinality(B)
<1>1. /\ a \o b \in Seq(Line) /\ Len(a \o b) = m + n
      /\ \A i \in 1 .. m + n : (a \o b)[i] = IF i <= m THEN a[i] ELSE b[i - m]
  BY ConcatProperties
<1>2. /\ m \in Nat /\ n \in Nat
      /\ DOMAIN a = 1 .. m /\ DOMAIN b = 1 .. n /\ DOMAIN (a \o b) = 1 .. m + n
  BY <1>1, LenProperties
<1>3. /\ A \in SUBSET (1 .. m) /\ B \in SUBSET (1 .. n)
      /\ p \in Seq(Stored) /\ Len(p) = cA /\ cA \in Nat
      /\ q \in Seq(Stored) /\ Len(q) = cB /\ cB \in Nat
      /\ s \in Seq(Stored) /\ Len(s) = Cardinality(S)
  BY <1>1, SpansTyped
<1>4. /\ \A i \in 1 .. m : (a \o b)[i] = a[i]
      /\ \A i \in 1 .. n : m + i \in 1 .. m + n /\ (a \o b)[m + i] = b[i]
  <2> HIDE DEF m, n
  <2>1. ASSUME NEW i \in 1 .. n PROVE m + i \in 1 .. m + n /\ (a \o b)[m + i] = b[i]
    <3>1. m + i \in 1 .. m + n /\ ~ (m + i <= m) /\ (m + i) - m = i
      BY <1>2
    <3> QED BY <1>1, <3>1
  <2> QED BY <1>1, <1>2, <2>1
<1>5. S = Joined(A, m, B)
  <2>1. ASSUME NEW i \in 1 .. m PROVE i \in S <=> i \in A
    BY <1>2, <1>4 DEF LinesOf
  <2>2. ASSUME NEW i \in 1 .. n PROVE m + i \in S <=> i \in B
    BY <1>2, <1>4 DEF LinesOf
  <2>3. S \subseteq 1 .. m + n
    BY <1>2 DEF LinesOf
  <2> HIDE DEF m, n, A, B, S
  <2>4. ASSUME NEW x \in 1 .. m + n PROVE x \in 1 .. m \/ \E i \in 1 .. n : x = m + i
    <3>1. x > m => x - m \in 1 .. n /\ x = m + (x - m)
      BY <1>2
    <3> QED BY <1>2, <3>1
  <2>5. ASSUME NEW x \in S PROVE x \in Joined(A, m, B)
    BY <2>1, <2>2, <2>3, <2>4 DEF Joined
  <2>6. A \subseteq S
    BY <1>3, <2>1
  <2>7. \A i \in B : m + i \in S
    BY <1>3, <2>2
  <2> QED BY <2>5, <2>6, <2>7 DEF Joined
<1>6. /\ Cardinality(S) = cA + cB
      /\ \A i \in A : Rank(S, i) = Rank(A, i)
      /\ \A i \in B : Rank(S, m + i) = cA + Rank(B, i)
  <2>1. m \in Nat /\ n \in Nat
    BY <1>2
  <2>2. A \in SUBSET (1 .. m) /\ B \in SUBSET (1 .. n)
    BY <1>3
  <2> HIDE DEF m, n, A, B, S, cA, cB, p, q, s
  <2>3. /\ Cardinality(S) = Cardinality(A) + Cardinality(B)
        /\ \A i \in A : Rank(S, i) = Rank(A, i)
        /\ \A i \in B : Rank(S, m + i) = Cardinality(A) + Rank(B, i)
    BY <1>5, <2>1, <2>2, JoinedRanks
  <2> QED BY <2>3 DEF cA, cB
<1>7. ASSUME NEW r \in 1 .. cA PROVE s[r] = p[r]
  <2>1. PICK i \in A : Rank(A, i) = r
    BY <1>2, <1>3, RankOnto
  <2>2. i \in S /\ Rank(S, i) = r
    BY <1>5, <1>6, <2>1 DEF Joined
  <2>3. s[r] = (a \o b)[i].span /\ p[r] = a[i].span
    BY <1>1, <2>1, <2>2, SpansAt
  <2> QED BY <1>3, <1>4, <2>3
<1>8. ASSUME NEW r \in 1 .. cB PROVE s[cA + r] = q[r]
  <2>1. PICK i \in B : Rank(B, i) = r
    BY <1>2, <1>3, RankOnto
  <2>2. m + i \in S /\ Rank(S, m + i) = cA + r
    BY <1>5, <1>6, <2>1 DEF Joined
  <2>3. s[cA + r] = (a \o b)[m + i].span /\ q[r] = b[i].span
    BY <1>1, <2>1, <2>2, SpansAt
  <2> QED BY <1>3, <1>4, <2>3
<1>9. /\ p \o q \in Seq(Stored) /\ Len(p \o q) = cA + cB
      /\ \A r \in 1 .. cA + cB : (p \o q)[r] = IF r <= cA THEN p[r] ELSE q[r - cA]
  <2>1. /\ p \o q \in Seq(Stored) /\ Len(p \o q) = Len(p) + Len(q)
        /\ \A r \in 1 .. Len(p) + Len(q) :
              (p \o q)[r] = IF r <= Len(p) THEN p[r] ELSE q[r - Len(p)]
    BY <1>3, ConcatProperties
  <2> QED BY <1>3, <2>1
<1> HIDE DEF p, q, s, cA, cB, A, B, S
<1>10. ASSUME NEW r \in 1 .. cA + cB PROVE s[r] = (p \o q)[r]
  <2>1. CASE r <= cA
    BY <1>3, <1>7, <1>9, <2>1
  <2>2. CASE ~ (r <= cA)
    <3>1. r - cA \in 1 .. cB /\ r = cA + (r - cA)
      BY <1>3, <2>2
    <3>2. s[r] = q[r - cA]
      BY <1>8, <3>1
    <3> QED BY <1>9, <2>2, <3>2
  <2> QED BY <2>1, <2>2
<1>11. Len(s) = Len(p \o q) /\ \A r \in 1 .. Len(s) : s[r] = (p \o q)[r]
  BY <1>3, <1>6, <1>9, <1>10
<1>12. s = p \o q
  BY <1>3, <1>9, <1>11, SeqEqual
<1> QED BY <1>12 DEF p, q, s

\* What one line gives, and none.
LEMMA SpansOne ==
    ASSUME AllPlain, NEW line \in Line, NEW k \in Keys
    PROVE  SpansOf(<<line>>, k) = IF line.key = k THEN <<line.span>> ELSE <<>>
<1> DEFINE lines == <<line>>
           at == LinesOf(lines, k)
<1>1. lines \in Seq(Line) /\ Len(lines) = 1 /\ lines[1] = line
  OBVIOUS
<1> HIDE DEF lines
<1>2. at = {i \in 1 .. 1 : lines[i].key = k}
  BY <1>1, PlainLines
<1>3. SpansOf(lines, k) \in Seq(Stored) /\ Len(SpansOf(lines, k)) = Cardinality(at)
  BY <1>1, SpansTyped
<1>4. CASE line.key = k
  <2>1. at = {1}
    BY <1>1, <1>2, <1>4
  <2>2. Cardinality(at) = 1
    BY <2>1, FS_Singleton
  <2>3. {j \in at : j <= 1} = {1}
    BY <2>1
  <2>4. Rank(at, 1) = 1
    BY <2>3, FS_Singleton DEF Rank
  <2>5. SpansOf(lines, k)[1] = line.span
    BY <1>1, <2>1, <2>4, SpansAt
  <2>6. SpansOf(lines, k) = <<line.span>>
    BY <1>3, <2>2, <2>5
  <2> QED BY <1>4, <2>6 DEF lines
<1>5. CASE line.key # k
  <2>1. at = {}
    BY <1>1, <1>2, <1>5
  <2>2. Cardinality(at) = 0
    BY <2>1, FS_EmptySet
  <2>3. SpansOf(lines, k) = <<>>
    BY <1>3, <2>2
  <2> QED BY <1>5, <2>3 DEF lines
<1> QED BY <1>4, <1>5

LEMMA SpansNone ==
    ASSUME NEW k \in Keys
    PROVE  SpansOf(<<>>, k) = <<>>
<1>1. PICK none \in Seq(Line) : none = <<>>
  BY EmptySeq
<1>2. LinesOf(none, k) = {}
  BY <1>1 DEF LinesOf
<1>3. Len(SpansOf(none, k)) = 0 /\ SpansOf(none, k) \in Seq(Stored)
  BY <1>2, SpansTyped, FS_EmptySet
<1> QED BY <1>1, <1>3

\* A restart takes, of what is flushed, the last line of the key, if there is one.
LastOr(s, other) == IF s = <<>> THEN other ELSE s[Len(s)]

LEMMA FlushedFind ==
    ASSUME AllPlain, NEW map, NEW a \in Seq(Line), NEW b \in Seq(Line), NEW k \in Keys
    PROVE  Replay(map, a \o b)[k] = LastOr(SpansOf(b, k), Replay(map, a)[k])
<1> DEFINE p == SpansOf(b, k)
           B == LinesOf(b, k)
           ab == a \o b
           m == Len(a)
           n == Len(b)
<1>1. /\ ab \in Seq(Line) /\ Len(ab) = m + n /\ m \in Nat /\ n \in Nat
      /\ \A i \in 1 .. m + n : ab[i] = IF i <= m THEN a[i] ELSE b[i - m]
  BY ConcatProperties, LenProperties
<1>2. p \in Seq(Stored) /\ Len(p) = Cardinality(B) /\ B \in SUBSET (1 .. n)
  BY SpansTyped
<1>3. IsFiniteSet(B) /\ Cardinality(B) \in Nat
  BY <1>1, <1>2, RankTyped
<1> HIDE DEF p, ab
<1>4. CASE p = <<>>
  <2>1. Cardinality(B) = 0
    BY <1>2, <1>4
  <2>2. B = {}
    BY <1>3, <2>1, FS_EmptySet
  <2>3. k \notin KeysOf(b)
    BY <2>2, PlainLines
  <2>4. PICK none \in Seq(Line) : none = <<>>
    BY EmptySeq
  <2>5. Replay(map, (a \o b) \o none)[k] = Replay(map, a \o none)[k]
    BY <2>3, ReplayDrop
  <2>6. (a \o b) \o none = a \o b /\ a \o none = a
    BY <1>1, <2>4, ConcatEmptySeq DEF ab
  <2> QED BY <1>4, <2>5, <2>6 DEF p, LastOr
<1>5. CASE p # <<>>
  <2>1. Cardinality(B) # 0
    BY <1>2, <1>5
  <2>2. B # {}
    BY <2>1, FS_EmptySet
  <2>3. PICK i \in DOMAIN b : IsLast(b, k, i)
    BY <2>2, LastExists
  <2>4. i \in B /\ (\A j \in B : j <= i) /\ i \in 1 .. n
    BY <1>2, <2>3 DEF IsLast
  <2>5. {j \in B : j <= i} = B
    BY <2>4
  <2>6. Rank(B, i) = Len(p)
    BY <1>2, <2>5 DEF Rank
  <2>7. p[Len(p)] = b[i].span
    <3>1. p[Rank(B, i)] = b[i].span
      BY <2>4, SpansAt DEF p
    <3> QED BY <2>6, <3>1
  <2>8. m + i \in 1 .. m + n /\ ab[m + i] = b[i]
    <3>1. m + i \in 1 .. m + n /\ ~ (m + i <= m) /\ (m + i) - m = i
      BY <1>1, <2>4
    <3> QED BY <1>1, <3>1
  <2>9. LinesOf(ab, k) = {j \in 1 .. m + n : ab[j].key = k}
    BY <1>1, PlainLines
  <2>10. B = {j \in 1 .. n : b[j].key = k}
    BY PlainLines
  <2>11. m + i \in LinesOf(ab, k)
    BY <2>4, <2>8, <2>9, <2>10
  <2>12. ASSUME NEW j \in LinesOf(ab, k) PROVE j <= m + i
    <3>1. j \in 1 .. m + n /\ ab[j].key = k
      BY <2>9
    <3>2. CASE j <= m
      BY <1>1, <2>4, <3>1, <3>2
    <3>3. CASE ~ (j <= m)
      <4>1. j - m \in 1 .. n /\ b[j - m].key = k
        BY <1>1, <3>1, <3>3
      <4>2. j - m <= i
        BY <2>4, <2>10, <4>1
      <4> QED BY <1>1, <2>4, <3>1, <4>2
    <3> QED BY <3>2, <3>3
  <2>13. IsLast(ab, k, m + i)
    BY <2>11, <2>12 DEF IsLast
  <2>14. Replay(map, ab)[k] = ab[m + i].span
    BY <1>1, <2>13, ReplayLast
  <2> QED BY <1>5, <2>7, <2>8, <2>14 DEF p, ab, LastOr
<1> QED BY <1>4, <1>5

LEMMA RecoveredTyped ==
    ASSUME TypeOK
    PROVE  \A k \in Keys : Recovered[k] \in Stored
<1>1. wal \in Seq(Line)
  BY DEF TypeOK
<1> QED BY <1>1, Values, ReplayTyped DEF Recovered

\* The history of a key, of what a restart finds, the spans in the buffer, those in
\* the channel and the unsent one.
LEMMA HistoryParts ==
    ASSUME TypeOK, NEW k \in Keys
    PROVE  /\ History[k] = (<<Recovered[k]>> \o SpansOf(walBuf \o walChan, k)) \o Unsent(k)
           /\ SpansOf(walBuf \o walChan, k) = SpansOf(walBuf, k) \o SpansOf(walChan, k)
           /\ Recovered[k] \in Stored
           /\ SpansOf(walBuf, k) \in Seq(Stored) /\ SpansOf(walChan, k) \in Seq(Stored)
           /\ SpansOf(walBuf \o walChan, k) \in Seq(Stored)
           /\ Unsent(k) \in Seq(Stored)
           /\ walBuf \in Seq(Line) /\ walChan \in Seq(Line) /\ wal \in Seq(Line)
<1>1. walBuf \in Seq(Line) /\ walChan \in Seq(Line) /\ wal \in Seq(Line)
  BY DEF TypeOK
<1>2. walBuf \o walChan \in Seq(Line)
  BY <1>1, ConcatProperties
<1>3. /\ SpansOf(walBuf, k) \in Seq(Stored) /\ SpansOf(walChan, k) \in Seq(Stored)
      /\ SpansOf(walBuf \o walChan, k) \in Seq(Stored)
  BY <1>1, <1>2, SpansTyped
<1>4. Recovered[k] \in Stored
  BY RecoveredTyped
<1>5. Unsent(k) \in Seq(Stored)
  <2> DEFINE at == Senders(k)
             d == CHOOSE c \in at : TRUE
  <2>1. CASE at = {}
    BY <2>1 DEF Unsent
  <2>2. CASE at # {}
    <3>1. d \in Clients /\ op[d].key = k
      BY <2>2 DEF Senders
    <3> HIDE DEF d
    <3>2. op[d] \in Line
      BY <3>1, ConstantsAssumption DEF TypeOK, NoOp
    <3>3. op[d].span \in Stored
      BY <3>2 DEF Line, Stored
    <3>4. <<op[d].span>> \in Seq(Stored)
      BY <3>3
    <3> QED BY <2>2, <3>4 DEF Unsent, d
  <2> QED BY <2>1, <2>2
<1> QED BY <1>1, <1>3, <1>4, <1>5, SpansConcat DEF History

\* The unsent change of a key is that of the one client that has one.
LEMMA UnsentOf ==
    ASSUME OneOwner, TypeOK, UnsentIsLast, NEW c \in Clients, op[c] # NoOp
    PROVE  /\ op[c] \in Line /\ op[c].key \in Keys
           /\ \A d \in Clients : op[d].key = op[c].key => d = c
           /\ Unsent(op[c].key) = <<op[c].span>>
<1>1. op[c] \in Line /\ op[c].key \in Keys
  BY DEF TypeOK, Line
<1>2. ASSUME NEW d \in Clients, op[d].key = op[c].key PROVE d = c
  <2>1. op[d] # NoOp
    BY <1>1, <1>2, ConstantsAssumption DEF NoOp
  <2>2. d \in Owner[op[c].key] /\ c \in Owner[op[c].key]
    BY <1>2, <2>1 DEF UnsentIsLast
  <2> QED BY <1>1, <2>2 DEF OneOwner
<1>3. Senders(op[c].key) = {c}
  BY <1>2 DEF Senders
<1>4. (CHOOSE d \in {c} : TRUE) = c
  OBVIOUS
<1> QED BY <1>1, <1>2, <1>3, <1>4 DEF Unsent

LEMMA UnsentNone ==
    ASSUME NEW k, \A c \in Clients : op[c].key # k
    PROVE  Unsent(k) = <<>>
BY DEF Unsent, Senders

\* A change is an update of its key.
LEMMA ChangeUpdates ==
    ASSUME OneOwner, TypeOK, UnsentIsLast, UnsentIsLast',
           NEW c \in Clients, NEW key \in Keys, NEW s \in Spans \cup {Absent},
           Change(c, key, s)
    PROVE  Durable!Next
<1>1. /\ op[c] = NoOp /\ c \in Owner[key]
      /\ op' = [op EXCEPT ![c] = [key |-> key, span |-> s]]
      /\ index' = [index EXCEPT ![key] = s]
      /\ walBuf' = walBuf /\ walChan' = walChan /\ wal' = wal /\ snap' = snap
      /\ op \in [Clients -> Line \cup {NoOp}]
  BY DEF Change, snapshot, TypeOK
<1>2. Recovered' = Recovered
  BY <1>1 DEF Recovered, LoadSnapshot, Replay
<1>3. \A d \in Clients : op[d].key # key
  <2> SUFFICES ASSUME NEW d \in Clients, op[d].key = key PROVE FALSE
    OBVIOUS
  <2>1. op[d] # NoOp /\ d # c
    BY <1>1, ConstantsAssumption DEF NoOp
  <2>2. d \in Owner[key]
    BY <2>1 DEF UnsentIsLast
  <2> QED BY <1>1, <2>1, <2>2 DEF OneOwner
<1>4. Unsent(key) = <<>>
  BY <1>3, UnsentNone
<1>5. Unsent(key)' = <<s>>
  <2>1. Senders(key)' = {c} /\ op'[c].span = s
    BY <1>1, <1>3 DEF Senders
  <2>2. (CHOOSE d \in {c} : TRUE) = c
    OBVIOUS
  <2> QED BY <2>1, <2>2 DEF Unsent
<1>6. ASSUME NEW k \in Keys, k # key PROVE Unsent(k)' = Unsent(k)
  <2>1. op[c].key # k
    BY <1>1, <1>6, ConstantsAssumption DEF NoOp
  <2>2. Senders(k)' = Senders(k)
    BY <1>1, <1>6, <2>1 DEF Senders
  <2>3. \A d \in Senders(k) : op'[d] = op[d]
    BY <1>1, <2>1 DEF Senders
  <2> QED BY <2>2, <2>3 DEF Unsent
<1>7. ASSUME NEW k \in Keys
      PROVE  History'[k] = (<<Recovered[k]>> \o SpansOf(walBuf \o walChan, k)) \o Unsent(k)'
  BY <1>1, <1>2 DEF History, SpansOf
<1>8. ASSUME NEW k \in Keys, k # key PROVE History'[k] = History[k]
  BY <1>6, <1>7, <1>8, HistoryParts
<1>9. History'[key] = Append(History[key], s)
  <2>0. s \in Stored
    BY DEF Stored
  <2>1. Recovered[key] \in Stored
    BY RecoveredTyped
  <2>2. PICK x \in Seq(Stored) : x = <<Recovered[key]>>
    <3>1. <<Recovered[key]>> \in Seq(Stored)
      BY <2>1
    <3> QED BY <3>1
  <2>3. PICK h : h = x \o SpansOf(walBuf \o walChan, key) /\ h \in Seq(Stored)
    BY <2>2, HistoryParts, ConcatProperties
  <2>4. History'[key] = h \o <<s>>
    BY <1>5, <1>7, <2>2, <2>3
  <2>5. History[key] = h \o <<>>
    BY <1>4, <2>2, <2>3, HistoryParts
  <2>6. History[key] = h
    BY <2>3, <2>5, ConcatEmptySeq
  <2>7. Append(h, s) = h \o <<s>>
    BY <2>0, <2>3, AppendIsConcat
  <2> QED BY <2>4, <2>6, <2>7
<1>10. History' = [History EXCEPT ![key] = Append(@, s)]
  <2>1. /\ History = [k \in Keys |-> History[k]]
        /\ History' = [k \in Keys |-> History'[k]]
    BY DEF History
  <2> HIDE DEF History
  <2> QED BY <1>8, <1>9, <2>1
<1> QED BY <1>1, <1>10 DEF Durable!Update, Durable!Next

\* The history of a key in a state that has the same files, with other lines in buffer
\* and channel and another unsent change.
LEMMA HistoryAfter ==
    ASSUME UNCHANGED <<wal, snap>>, NEW k \in Keys
    PROVE  History'[k]
             = (<<Recovered[k]>> \o SpansOf(walBuf' \o walChan', k)) \o Unsent(k)'
<1>1. Recovered' = Recovered
  BY DEF Recovered, LoadSnapshot, Replay
<1> QED BY <1>1 DEF History, SpansOf

LEMMA HistoriesEqual ==
    ASSUME \A k \in Keys : History'[k] = History[k]
    PROVE  History' = History
<1>1. /\ History = [k \in Keys |-> History[k]]
      /\ History' = [k \in Keys |-> History'[k]]
  BY DEF History
<1> HIDE DEF History
<1> QED BY <1>1

\* A change that is sent stays where it was, behind all that its key had before.
LEMMA SendStutters ==
    ASSUME AllPlain, OneOwner, TypeOK, UnsentIsLast, NEW c \in Clients, Send(c)
    PROVE  UNCHANGED <<index, History>>
<1>1. /\ op[c] # NoOp /\ op' = [op EXCEPT ![c] = NoOp]
      /\ walChan' = Append(walChan, op[c]) /\ walBuf' = walBuf /\ wal' = wal
      /\ snap' = snap /\ index' = index
      /\ op \in [Clients -> Line \cup {NoOp}]
  BY DEF Send, snapshot, TypeOK
<1>2. /\ op[c] \in Line /\ op[c].key \in Keys
      /\ \A d \in Clients : op[d].key = op[c].key => d = c
      /\ Unsent(op[c].key) = <<op[c].span>>
  <2>1. op[c] # NoOp
    BY <1>1
  <2> QED BY <2>1, UnsentOf
<1>3. PICK x \in Seq(Line) : x = <<op[c]>>
  <2>1. <<op[c]>> \in Seq(Line)
    BY <1>2
  <2> QED BY <2>1
<1>4. PICK lines \in Seq(Line) : lines = walBuf \o walChan
  BY ConcatProperties DEF TypeOK
<1>5. walBuf' \o walChan' = lines \o x
  <2>1. walBuf \o Append(walChan, op[c]) = Append(walBuf \o walChan, op[c])
    BY <1>2, AppendBehind DEF TypeOK
  <2>2. Append(lines, op[c]) = lines \o <<op[c]>>
    BY <1>2, <1>4, AppendIsConcat
  <2> QED BY <1>1, <1>3, <1>4, <2>1, <2>2
<1>6. ASSUME NEW k \in Keys PROVE History'[k] = History[k]
  <2>1. SpansOf(lines \o x, k) = SpansOf(lines, k) \o SpansOf(x, k)
    BY SpansConcat
  <2>2. PICK r \in Seq(Stored) : r = <<Recovered[k]>>
    <3>1. Recovered[k] \in Stored
      BY RecoveredTyped
    <3>2. <<Recovered[k]>> \in Seq(Stored)
      BY <3>1
    <3> QED BY <3>2
  <2>3. PICK h \in Seq(Stored) : h = SpansOf(lines, k)
    BY SpansTyped
  <2>4. PICK u \in Seq(Stored) : u = SpansOf(x, k)
    BY SpansTyped
  <2>5. History'[k] = (r \o (h \o u)) \o Unsent(k)'
    BY <1>1, <1>5, <2>1, <2>2, <2>3, <2>4, HistoryAfter
  <2>6. History[k] = (r \o h) \o Unsent(k)
    BY <1>4, <2>2, <2>3, HistoryParts
  <2>7. r \o (h \o u) = (r \o h) \o u /\ r \o h \in Seq(Stored)
    BY <2>2, ConcatAssociative, ConcatProperties
  <2>8. CASE k = op[c].key
    <3>1. u = <<op[c].span>>
      BY <1>2, <1>3, <2>4, <2>8, SpansOne
    <3>2. \A d \in Clients : op'[d].key # k
      BY <1>1, <1>2, <2>8, ConstantsAssumption DEF NoOp
    <3>3. Unsent(k)' = <<>>
      BY <3>2 DEF Unsent, Senders
    <3>4. (r \o h) \o u \in Seq(Stored)
      BY <2>7, ConcatProperties
    <3>5. ((r \o h) \o u) \o <<>> = (r \o h) \o u
      BY <3>4, ConcatEmptySeq
    <3> QED BY <1>2, <2>5, <2>6, <2>7, <2>8, <3>1, <3>3, <3>5
  <2>9. CASE k # op[c].key
    <3>1. u = <<>>
      BY <1>2, <1>3, <2>4, <2>9, SpansOne
    <3>2. Unsent(k)' = Unsent(k)
      <4>1. Senders(k)' = Senders(k) /\ \A d \in Senders(k) : op'[d] = op[d]
        BY <1>1, <2>9, ConstantsAssumption DEF Senders, NoOp
      <4> QED BY <4>1 DEF Unsent
    <3>3. (r \o h) \o <<>> = r \o h
      BY <2>7, ConcatEmptySeq
    <3> QED BY <2>5, <2>6, <2>7, <3>1, <3>2, <3>3
  <2> QED BY <2>8, <2>9
<1>7. History' = History
  BY <1>6, HistoriesEqual
<1> QED BY <1>1, <1>7

\* What a table has whose snapshot worker never ticked and whose log never failed.
NeverRotated == step = "wait" /\ ~ broken

\* The writer moves a line on, which is no change of what the log will be.
LEMMA WriteStutters ==
    ASSUME TypeOK, NeverRotated, WriteLine
    PROVE  UNCHANGED <<index, History>>
<1>1. /\ walBuf' = Append(walBuf, walChan[1]) /\ walChan' = Tail(walChan) /\ walChan # <<>>
      /\ wal' = wal /\ snap' = snap /\ index' = index /\ op' = op
  BY DEF WriteLine, NeverRotated, snapshot
<1>2. walBuf \in Seq(Line) /\ walChan \in Seq(Line)
  BY DEF TypeOK
<1>3. PICK none \in Seq(Line) : none = <<>>
  BY EmptySeq
<1>4. (none \o Append(walBuf, walChan[1])) \o Tail(walChan) = (none \o walBuf) \o walChan
  BY <1>1, <1>2, MoveFirst
<1>5. Append(walBuf, walChan[1]) \in Seq(Line)
  BY <1>1, <1>2, KeysOfTail, AppendProperties
<1>6. none \o walBuf = walBuf /\ none \o Append(walBuf, walChan[1]) = Append(walBuf, walChan[1])
  BY <1>2, <1>3, <1>5, ConcatEmptySeq
<1>7. walBuf' \o walChan' = walBuf \o walChan
  BY <1>1, <1>4, <1>6
<1>8. ASSUME NEW k \in Keys PROVE History'[k] = History[k]
  <2>1. Unsent(k)' = Unsent(k)
    BY <1>1 DEF Unsent, Senders
  <2> QED BY <1>1, <1>7, <2>1, HistoryAfter, HistoryParts
<1>9. History' = History
  BY <1>8, HistoriesEqual
<1> QED BY <1>1, <1>9

LEMMA AssociativeValues ==
    ASSUME NEW a \in Seq(Stored), NEW b \in Seq(Stored), NEW c \in Seq(Stored)
    PROVE  a \o (b \o c) = (a \o b) \o c
BY ConcatAssociative

\* The last of the values that are on disk, and all later ones.
LEMMA Superseded ==
    ASSUME NEW a \in Seq(Stored), NEW t \in Seq(Stored), a # <<>>
    PROVE  /\ Len(a) \in 1 .. Len(a \o t)
           /\ <<a[Len(a)]>> \o t = SubSeq(a \o t, Len(a), Len(a \o t))
<1> DEFINE s == a \o t
           m == Len(a)
           n == Len(t)
           x == <<a[m]>>
<1>1. m \in Nat /\ n \in Nat /\ m >= 1
  BY LenProperties, EmptySeq
<1>2. /\ s \in Seq(Stored) /\ Len(s) = m + n
      /\ \A i \in 1 .. m + n : s[i] = IF i <= m THEN a[i] ELSE t[i - m]
  BY ConcatProperties
<1>3. x \in Seq(Stored) /\ Len(x) = 1 /\ x[1] = a[m]
  <2>1. a[m] \in Stored
    BY <1>1, ElementOfSeq
  <2> QED BY <2>1
<1> HIDE DEF x, s, m, n
<1>4. /\ x \o t \in Seq(Stored) /\ Len(x \o t) = n + 1
      /\ \A i \in 1 .. n + 1 : (x \o t)[i] = IF i <= 1 THEN x[i] ELSE t[i - 1]
  <2>1. x \o t \in Seq(Stored) /\ Len(x \o t) = Len(x) + Len(t)
    BY <1>3, ConcatProperties
  <2>2. \A i \in 1 .. Len(x) + Len(t) :
            (x \o t)[i] = IF i <= Len(x) THEN x[i] ELSE t[i - Len(x)]
    BY <1>3, ConcatProperties
  <2> QED BY <1>3, <2>1, <2>2 DEF n
<1> DEFINE w == SubSeq(s, m, Len(s))
<1>5. /\ w \in Seq(Stored) /\ Len(w) = n + 1
      /\ \A i \in 1 .. n + 1 : w[i] = s[m + i - 1]
  <2>1. \A i \in m .. m + n : s[i] \in Stored
    BY <1>1, <1>2, ElementOfSeq
  <2>2. m \in Int /\ m + n \in Int /\ m <= m + n /\ (m + n) - m + 1 = n + 1
    BY <1>1
  <2> QED BY <1>2, <2>1, <2>2, SubSeqProperties
<1> HIDE DEF w
<1>6. ASSUME NEW i \in 1 .. n + 1 PROVE (x \o t)[i] = w[i]
  <2>1. m + i - 1 \in 1 .. m + n
    BY <1>1
  <2>2. CASE i = 1
    <3>1. m + i - 1 = m /\ m <= m /\ i <= 1
      BY <1>1, <2>2
    <3>2. w[i] = s[m]
      BY <1>5, <3>1
    <3>3. s[m] = a[m]
      BY <1>2, <2>1, <3>1
    <3>4. (x \o t)[i] = x[1]
      BY <1>1, <1>4, <2>2, <3>1
    <3> QED BY <1>3, <3>2, <3>3, <3>4
  <2>3. CASE i # 1
    <3>1. ~ (i <= 1) /\ ~ (m + i - 1 <= m) /\ (m + i - 1) - m = i - 1
      BY <1>1, <2>3
    <3>2. s[m + i - 1] = t[i - 1]
      BY <1>2, <2>1, <3>1
    <3>3. (x \o t)[i] = t[i - 1]
      BY <1>1, <1>4, <3>1
    <3> QED BY <1>5, <3>2, <3>3
  <2> QED BY <2>2, <2>3
<1>7. x \o t = w
  <2>1. Len(x \o t) = Len(w) /\ \A i \in 1 .. Len(x \o t) : (x \o t)[i] = w[i]
    BY <1>1, <1>4, <1>5, <1>6
  <2> QED BY <1>4, <1>5, <2>1, SeqEqual, Zenon
<1>8. m \in 1 .. Len(s)
  BY <1>1, <1>2
<1> QED BY <1>7, <1>8 DEF x, s, m, w

\* A flush supersedes, of each key, all that the log and the buffer had but the last.
LEMMA FlushPersists ==
    ASSUME AllPlain, TypeOK, Flushed, UNCHANGED <<index, walChan, snap, op>>
    PROVE  Durable!Persist
<1>1. wal' = wal \o walBuf /\ walBuf' = <<>> /\ walChan' = walChan /\ snap' = snap /\ op' = op
  BY DEF Flushed
<1>2. wal \in Seq(Line) /\ walBuf \in Seq(Line) /\ walChan \in Seq(Line)
  BY DEF TypeOK
<1>3. walBuf' \o walChan' = walChan
  BY <1>1, <1>2, ConcatEmptySeq
<1>4. ASSUME NEW k \in Keys
      PROVE  \E n \in 1 .. Len(History[k]) :
                 History'[k] = SubSeq(History[k], n, Len(History[k]))
  <2>1. PICK r \in Seq(Stored) : r = <<Recovered[k]>>
    <3>1. Recovered[k] \in Stored
      BY RecoveredTyped
    <3>2. <<Recovered[k]>> \in Seq(Stored)
      BY <3>1
    <3> QED BY <3>2
  <2>2. PICK p \in Seq(Stored) : p = SpansOf(walBuf, k)
    BY <1>2, SpansTyped
  <2>3. PICK q \in Seq(Stored) : q = SpansOf(walChan, k)
    BY <1>2, SpansTyped
  <2>4. PICK u \in Seq(Stored) : u = Unsent(k)
    BY HistoryParts
  <2>5. History[k] = (r \o (p \o q)) \o u
    BY <2>1, <2>2, <2>3, <2>4, HistoryParts
  <2>6. Recovered'[k] = Replay(LoadSnapshot, wal \o walBuf)[k]
    BY <1>1 DEF Recovered, LoadSnapshot, Replay
  <2>7. /\ p = <<>> => Recovered'[k] = Recovered[k]
        /\ p # <<>> => Recovered'[k] = p[Len(p)]
    <3>0. PICK map : map = LoadSnapshot
      OBVIOUS
    <3>1. PICK w \in Seq(Line), b \in Seq(Line) : w = wal /\ b = walBuf
      BY <1>2
    <3>2. Replay(map, w \o b)[k] = LastOr(SpansOf(b, k), Replay(map, w)[k])
      BY FlushedFind
    <3>3. Recovered[k] = Replay(map, w)[k]
      BY <3>0, <3>1 DEF Recovered
    <3>4. Recovered'[k] = Replay(map, w \o b)[k]
      BY <2>6, <3>0, <3>1
    <3> QED BY <2>2, <3>1, <3>2, <3>3, <3>4 DEF LastOr
  <2> DEFINE a == r \o p
             t == q \o u
  <2>8. /\ a \in Seq(Stored) /\ t \in Seq(Stored) /\ a # <<>>
        /\ a[Len(a)] = Recovered'[k]
    <3>1. /\ a \in Seq(Stored) /\ Len(a) = Len(r) + Len(p)
          /\ \A i \in 1 .. Len(r) + Len(p) : a[i] = IF i <= Len(r) THEN r[i] ELSE p[i - Len(r)]
      BY ConcatProperties
    <3>2. Len(r) = 1 /\ r[1] = Recovered[k]
      BY <2>1
    <3>3. Len(p) \in Nat /\ (p = <<>> <=> Len(p) = 0)
      BY LenProperties, EmptySeq
    <3>4. t \in Seq(Stored)
      BY ConcatProperties
    <3> HIDE DEF a, t
    <3>5. Len(a) = 1 + Len(p) /\ Len(a) \in 1 .. Len(r) + Len(p)
      BY <3>1, <3>2, <3>3
    <3>6. a # <<>>
      BY <3>1, <3>3, <3>5, EmptySeq
    <3>7. CASE p = <<>>
      <4>1. a[Len(a)] = r[1]
        BY <3>1, <3>2, <3>3, <3>5, <3>7
      <4> QED BY <2>7, <3>1, <3>2, <3>4, <3>6, <3>7, <4>1
    <3>8. CASE p # <<>>
      <4>1. ~ (Len(a) <= Len(r)) /\ Len(a) - Len(r) = Len(p)
        BY <3>2, <3>3, <3>5, <3>8
      <4>2. a[Len(a)] = p[Len(p)]
        BY <3>1, <3>5, <4>1
      <4> QED BY <2>7, <3>1, <3>4, <3>6, <3>8, <4>2
    <3> QED BY <3>7, <3>8
  <2> HIDE DEF a, t
  <2>9. History[k] = a \o t
    <3>1. a \in Seq(Stored)
      BY <2>8
    <3>2. r \o (p \o q) = a \o q
      BY AssociativeValues, Zenon DEF a
    <3>3. (a \o q) \o u = a \o (q \o u)
      BY <3>1, AssociativeValues, Zenon
    <3> QED BY <2>5, <3>2, <3>3 DEF t
  <2>10. History'[k] = <<a[Len(a)]>> \o t
    <3>1. Unsent(k)' = u
      BY <1>1, <2>4 DEF Unsent, Senders
    <3>2. History'[k] = (<<Recovered'[k]>> \o SpansOf(walChan, k)) \o u
      BY <1>3, <3>1 DEF History, SpansOf
    <3>3. PICK f \in Seq(Stored) : f = <<a[Len(a)]>>
      <4>1. a[Len(a)] \in Stored
        <5>1. Len(a) \in Nat /\ Len(a) # 0
          BY <2>8, LenProperties, EmptySeq
        <5>2. Len(a) \in 1 .. Len(a)
          BY <5>1
        <5> QED BY <2>8, <5>2, ElementOfSeq
      <4>2. <<a[Len(a)]>> \in Seq(Stored)
        BY <4>1
      <4> QED BY <4>2
    <3>4. History'[k] = (f \o q) \o u
      BY <2>3, <2>8, <3>2, <3>3
    <3>5. (f \o q) \o u = f \o (q \o u)
      BY AssociativeValues, Zenon
    <3> QED BY <3>3, <3>4, <3>5 DEF t
  <2>11. /\ Len(a) \in 1 .. Len(a \o t)
         /\ <<a[Len(a)]>> \o t = SubSeq(a \o t, Len(a), Len(a \o t))
    BY <2>8, Superseded
  <2> QED BY <2>9, <2>10, <2>11
<1>5. History' = [k \in Keys |-> History'[k]]
  BY DEF History
<1> QED BY <1>4, <1>5 DEF Durable!Persist

\* A start finds the first value of each key.
LEMMA RestartRestores ==
    ASSUME TypeOK, Restart
    PROVE  Durable!Restart
<1>1. /\ wal' = wal /\ snap' = snap /\ index' = Recovered
      /\ walBuf' = <<>> /\ walChan' = <<>> /\ op' = [c \in Clients |-> NoOp]
  BY DEF Restart
<1>2. PICK none \in Seq(Line) : none = <<>>
  BY EmptySeq
<1>3. walBuf' \o walChan' = none
  BY <1>1, <1>2, ConcatEmptySeq
<1>4. ASSUME NEW k \in Keys
      PROVE  History[k][1] = Recovered[k] /\ History'[k] = <<Recovered[k]>>
  <2>1. PICK r \in Seq(Stored) : r = <<Recovered[k]>>
    <3>1. Recovered[k] \in Stored
      BY RecoveredTyped
    <3>2. <<Recovered[k]>> \in Seq(Stored)
      BY <3>1
    <3> QED BY <3>2
  <2>2. SpansOf(none, k) = <<>> /\ Unsent(k)' = <<>>
    <3>1. \A c \in Clients : op'[c].key # k
      BY <1>1, ConstantsAssumption DEF NoOp
    <3> QED BY <1>2, <3>1, SpansNone DEF Unsent, Senders
  <2>3. History'[k] = (r \o <<>>) \o <<>>
    BY <1>1, <1>3, <2>1, <2>2, HistoryAfter
  <2>4. History'[k] = r
    BY <2>3, ConcatEmptySeq
  <2>5. PICK h \in Seq(Stored) : h = SpansOf(walBuf \o walChan, k)
    BY HistoryParts
  <2>6. PICK u \in Seq(Stored) : u = Unsent(k)
    BY HistoryParts
  <2>7. History[k] = (r \o h) \o u
    BY <2>1, <2>5, <2>6, HistoryParts
  <2>8. (r \o h) \o u = r \o (h \o u) /\ h \o u \in Seq(Stored)
    BY ConcatAssociative, ConcatProperties
  <2>9. (r \o (h \o u))[1] = r[1]
    <3>1. Len(r) = 1 /\ Len(h \o u) \in Nat
      BY <2>1, <2>8, LenProperties
    <3>2. 1 \in 1 .. Len(r) + Len(h \o u) /\ 1 <= Len(r)
      BY <3>1
    <3> QED BY <2>8, <3>2, ConcatProperties
  <2> QED BY <2>1, <2>4, <2>7, <2>8, <2>9
<1>5. Recovered = [k \in Keys |-> Recovered[k]] /\ History' = [k \in Keys |-> History'[k]]
  BY DEF Recovered, Replay, History
<1>6. index' = [k \in Keys |-> History[k][1]]
  BY <1>1, <1>4, <1>5
<1>7. History' = [k \in Keys |-> <<History[k][1]>>]
  BY <1>4, <1>5
<1> QED BY <1>6, <1>7 DEF Durable!Restart

\* At the first start nothing was ever stored.
LEMMA HistoryInit ==
    ASSUME AllPlain, Legacy = Empty, Init
    PROVE  Durable!Init
<1>1. /\ index = Empty /\ walBuf = <<>> /\ walChan = <<>> /\ wal = <<>> /\ snap = Empty
      /\ op = [c \in Clients |-> NoOp]
  BY DEF Init
<1>2. TypeOK
  BY TypeInit
<1>3. PICK none \in Seq(Line) : none = <<>>
  BY EmptySeq
<1>4. walBuf \o walChan = none
  BY <1>1, <1>3, ConcatEmptySeq
<1>5. ASSUME NEW k \in Keys PROVE History[k] = <<Absent>>
  <2>1. Recovered[k] = Absent
    <3>1. LinesOf(<<>>, k) = {}
      BY DEF LinesOf
    <3>2. LoadSnapshot[k] = Absent
      BY <1>1, LoadPlain DEF Empty
    <3>3. Replay(LoadSnapshot, <<>>)[k] = LoadSnapshot[k]
      BY <3>1, ReplayNone
    <3> QED BY <1>1, <3>2, <3>3 DEF Recovered
  <2>2. SpansOf(none, k) = <<>>
    BY <1>3, SpansNone
  <2>3. Unsent(k) = <<>>
    <3>1. \A c \in Clients : op[c].key # k
      BY <1>1, ConstantsAssumption DEF NoOp
    <3> QED BY <3>1, UnsentNone
  <2>4. PICK r \in Seq(Stored) : r = <<Absent>>
    <3>1. Absent \in Stored
      BY Values
    <3>2. <<Absent>> \in Seq(Stored)
      BY <3>1
    <3> QED BY <3>2
  <2>5. History[k] = (r \o <<>>) \o <<>>
    BY <1>2, <1>4, <2>1, <2>2, <2>3, <2>4, HistoryParts
  <2> QED BY <2>4, <2>5, ConcatEmptySeq
<1>6. History = [k \in Keys |-> History[k]]
  BY DEF History
<1>7. History = [k \in Keys |-> <<Absent>>]
  BY <1>5, <1>6
<1> QED BY <1>1, <1>7 DEF Durable!Init, Empty

\* As long as the process dies before its first snapshot, no write fails and there was
\* nothing to import, the index that a start finds has for every key a value that the key
\* had, and never an older one than the start before (enqueueWal, runWalWriter, loadIndex).
THEOREM LogIsHistory ==
    ASSUME AllPlain, OneOwner, Legacy = Empty, ~ Snapshots, ~ MayFail
    PROVE  Spec => ImplementsDurableMap
<1> DEFINE Inv == TypeOK /\ UnsentIsLast /\ NeverRotated
<1>1. Init => Inv /\ Durable!Init
  BY TypeInit, LogInit, HistoryInit DEF Init, NeverRotated
<1>2. Inv /\ [Next]_vars => Inv' /\ [Durable!Next]_<<index, History>>
  <2> SUFFICES ASSUME TypeOK, UnsentIsLast, NeverRotated, [Next]_vars
               PROVE  Inv' /\ [Durable!Next]_<<index, History>>
    OBVIOUS
  <2>0. TypeOK' /\ UnsentIsLast'
    BY TypeStep, UnsentStep
  <2>1. CASE \E c \in Clients : Send(c)
    <3>1. UNCHANGED <<index, History>>
      BY <2>1, SendStutters
    <3>2. UNCHANGED <<step, broken>>
      BY <2>1 DEF Send, snapshot
    <3> QED BY <2>0, <3>1, <3>2 DEF NeverRotated
  <2>2. CASE WriteLine
    <3>1. UNCHANGED <<index, History>>
      BY <2>2, WriteStutters
    <3> QED BY <2>0, <2>2, <3>1 DEF WriteLine, snapshot, NeverRotated
  <2>3. CASE FlushWal \/ \E c \in Clients : SendBlocked(c)
    <3>1. Flushed /\ UNCHANGED <<index, walChan, snap, op, step, broken>>
      BY <2>3 DEF FlushWal, SendBlocked, Flush, FlushFails, snapshot
    <3>2. Durable!Persist
      BY <3>1, FlushPersists
    <3> QED BY <2>0, <3>1, <3>2 DEF NeverRotated, Durable!Next
  <2>4. CASE Restart
    <3>1. Durable!Restart
      BY <2>4, RestartRestores
    <3> QED BY <2>0, <2>4, <3>1 DEF Restart, NeverRotated, Durable!Next
  <2>5. ASSUME NEW c \in Clients, NEW k \in Keys, NEW s \in Spans \cup {Absent}, Change(c, k, s)
        PROVE  Inv' /\ [Durable!Next]_<<index, History>>
    <3>1. Durable!Next
      BY <2>0, <2>5, ChangeUpdates
    <3> QED BY <2>0, <2>5, <3>1 DEF Change, snapshot, NeverRotated
  <2>6. CASE UNCHANGED vars
    <3>1. UNCHANGED <<wal, walBuf, walChan, snap, index, op, step, broken>>
      BY <2>6 DEF vars, snapshot
    <3>2. ASSUME NEW k \in Keys PROVE History'[k] = History[k]
      BY <3>1 DEF History, Recovered, LoadSnapshot, Replay, SpansOf, Unsent, Senders
    <3>3. History' = History
      BY <3>2, HistoriesEqual
    <3> QED BY <2>0, <3>1, <3>3 DEF NeverRotated
  <2>7. ~ SnapshotWorker
    BY DEF SnapshotWorker, SnapshotBegin, SnapshotCopy, SnapshotRename, SnapshotRenameFails,
           SnapshotAbandoned, SnapshotFlush, SnapshotRotate, RotateFails, RotateRefused,
           NeverRotated
  <2> QED BY <2>1, <2>2, <2>3, <2>4, <2>5, <2>6, <2>7 DEF Next, Writer
<1> QED BY <1>1, <1>2, PTL DEF Spec, ImplementsDurableMap, Durable!Spec, Durable!vars
=============================================================================
