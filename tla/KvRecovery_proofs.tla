------------------------- MODULE KvRecovery_proofs -------------------------
(***************************************************************************)
(* What a restart does not undo, for any sets of keys, values and clients: *)
(* every span the process starts again with lies within the data file.     *)
(***************************************************************************)
EXTENDS KvRecovery, KvStore_proofs

\* The inductive invariant: what a restart may find are spans of the file as it is,
\* among them those of the index.
RecoveryInv ==
    /\ TypeInv
    /\ WithinFileInv
    /\ logged \in [Keys -> SUBSET Span]
    /\ \A k \in Keys : index[k] \in logged[k]
    /\ LoggedWithinFile

\* No step of a table makes its file shorter, an append cut off by a full disk
\* included.
LEMMA FileGrows ==
    ASSUME TypeInv, [Next]_vars
    PROVE  eof <= eof' /\ eof' \in Nat
<1>1. eof \in Nat
  BY SpansTyped
<1>2. ASSUME NEW c \in Clients, WorkerWrite(c) PROVE eof <= eof' /\ eof' \in Nat
  <2>1. req[c].val \in Values /\ worker.cur \in Nat
    BY <1>2, WorkloadPair
    DEF WorkerWrite, NextAt, TypeInv, StepsOK, Saving, TypeOK, WorkerState
  <2> QED BY <1>2, <2>1, WriteAtType DEF WorkerWrite, TypeInv, TypeOK
<1>3. ASSUME NEW c \in Clients, DirectWrite(c) PROVE eof <= eof' /\ eof' \in Nat
  <2> DEFINE o == IF pc[c] = "directReuse" THEN req[c].span.start ELSE eof
  <2>1. req[c].val \in Values /\ o \in Nat
    BY <1>3, SpansTyped, WorkloadPair DEF DirectWrite, TypeInv, StepsOK, Saving, Span
  <2> QED BY <1>3, <2>1, WriteAtType DEF DirectWrite, TypeInv, TypeOK
<1>4. CASE UNCHANGED eof
  BY <1>1, <1>4
<1> QED BY <1>2, <1>3, <1>4
    DEF Next, Worker, Client, vars, store, WorkerReceive, WorkerStart, WorkerCheck,
        WorkerRead, SaveSend, SaveStore, Mark, DirectAllocate, DirectCheck,
        FreeLookup, FreeRemove, ReadLookup, ReadSend, ReadGivesUp, DirectRead,
        ReadReturn

\* The first start has logged nothing, and no span.
LEMMA RecoveryInit == RInit => RecoveryInv
<1> SUFFICES ASSUME RInit PROVE RecoveryInv
  OBVIOUS
<1>1. TypeInv /\ WithinFileInv /\ logged = [k \in Keys |-> {index[k]}]
  BY TypeInit, WithinInit DEF RInit
<1> QED BY <1>1 DEF RecoveryInv, LoggedWithinFile, TypeInv, TypeOK, WithinFileInv,
                    WithinFile

\* A span that is dropped with a block, or with the handler that held it, leaves
\* the others where they are.
LEMMA StepLost ==
    ASSUME RecoveryInv, NEW c \in Clients, MarkLost(c)
    PROVE  TypeInv' /\ WithinFileInv'
<1>1. pc[c] = "mark" /\ Return(c) /\ UNCHANGED <<store, queue>>
  BY DEF MarkLost
<1>2. req' \in [Clients -> Request]
  BY <1>1, NoRequestType DEF Return, RecoveryInv, TypeInv, TypeOK
<1>3. TypeInv'
  <2>1. TypeOK'
    BY <1>1, <1>2
    DEF RecoveryInv, TypeInv, TypeOK, Goto, Return, Steps, Offsets, queue, store
  <2>2. StepsOK'
    BY <1>1 DEF RecoveryInv, TypeInv, StepsOK, Goto, Return, TypeOK, Saving
  <2>3. QueueOK'
    BY <1>1, SameQueue DEF RecoveryInv, Return, queue
  <2> QED BY <2>1, <2>2, <2>3 DEF TypeInv
<1>4. \A d \in Clients : /\ req'[d].span \in {req[d].span, NoSpan}
                         /\ req'[d].old \in {req[d].old, NoSpan}
                         /\ d # c => req'[d] = req[d]
  BY <1>1 DEF Return, NoRequest, RecoveryInv, TypeInv, TypeOK
<1>5. WithinFileInv'
  BY <1>1, <1>2, <1>4, KeepWithin
  DEF RecoveryInv, WithinFileInv, WithinFile, Return, store
<1> QED BY <1>3, <1>5

\* The process starts with the index of its log, a free list of blocks it had
\* or of none, and no handler.
LEMMA StepReborn ==
    ASSUME RecoveryInv, Reborn, free' = free \/ free' = NoBlocks
    PROVE  RecoveryInv'
<1>1. /\ index' \in [Keys -> Span] /\ \A k \in Keys : index'[k] \in logged[k]
      /\ UNCHANGED <<disk, eof, logged>>
      /\ chan' = <<>> /\ batch' = <<>> /\ worker' = Idle
      /\ pc' = [c \in Clients |-> "idle"] /\ req' = [c \in Clients |-> NoRequest]
  BY DEF Reborn, Recoverable, RecoveryInv
<1>2. \A k \in DOMAIN free' : free'[k] \in Span /\ free'[k].end <= eof
  BY DEF NoBlocks, RecoveryInv, TypeInv, TypeOK, WithinFileInv, WithinFile
<1>3. TypeOK'
  BY <1>1, <1>2, NoRequestType
  DEF RecoveryInv, TypeInv, TypeOK, Idle, WorkerState, Steps, Offsets
<1>4. StepsOK' /\ QueueOK'
  BY <1>1 DEF StepsOK, Saving, QueueOK
<1>5. WithinFileInv'
  <2>1. eof \in Nat
    BY SpansTyped DEF RecoveryInv
  <2> QED BY <1>1, <1>2, <2>1
      DEF RecoveryInv, LoggedWithinFile, WithinFileInv, WithinFile, NoRequest, NoSpan
<1> QED BY <1>1, <1>3, <1>4, <1>5 DEF RecoveryInv, LoggedWithinFile, TypeInv

\* A step that remembers what the index has now.
LEMMA Remembered ==
    ASSUME RecoveryInv, TypeInv', WithinFileInv', Remember, eof <= eof'
    PROVE  RecoveryInv'
<1>1. /\ \A k \in Keys : index'[k] \in Span /\ index'[k].end <= eof'
      /\ eof \in Nat /\ eof' \in Nat
  BY SpansTyped DEF RecoveryInv, TypeInv, TypeOK, WithinFileInv, WithinFile
<1>2. /\ logged' \in [Keys -> SUBSET Span]
      /\ \A k \in Keys : logged'[k] = logged[k] \cup {index'[k]}
  BY <1>1 DEF Remember, RecoveryInv
<1>3. \A k \in Keys : \A s \in logged[k] : s.end \in Nat /\ s.end <= eof'
  BY <1>1 DEF RecoveryInv, LoggedWithinFile, Span
<1>4. LoggedWithinFile'
  BY <1>1, <1>2, <1>3 DEF LoggedWithinFile
<1> QED BY <1>2, <1>4 DEF RecoveryInv

\* Every step keeps it: the file grows, and a restart brings back what there was.
LEMMA RecoveryStep == RecoveryInv /\ [RNext]_rvars => RecoveryInv'
<1> SUFFICES ASSUME RecoveryInv, [RNext]_rvars PROVE RecoveryInv'
  OBVIOUS
<1>1. ASSUME Next, Remember PROVE RecoveryInv'
  <2>1. TypeInv' /\ WithinFileInv'
    BY <1>1, TypeStep, WithinStep DEF RecoveryInv
  <2> QED BY <1>1, <2>1, FileGrows, Remembered DEF RecoveryInv
<1>2. ASSUME NEW c \in Clients, MarkLost(c), Remember PROVE RecoveryInv'
  <2>1. UNCHANGED eof /\ eof \in Nat
    BY <1>2, SpansTyped DEF MarkLost, store, RecoveryInv
  <2> QED BY <1>2, <2>1, StepLost, Remembered
<1>4. ASSUME Restart \/ RestartTorn PROVE RecoveryInv'
  BY <1>4, StepReborn DEF Restart, RestartTorn
<1>5. ASSUME UNCHANGED rvars PROVE RecoveryInv'
  <2>1. TypeInv' /\ WithinFileInv'
    BY <1>5, TypeStep, WithinStep DEF RecoveryInv, rvars
  <2> QED BY <1>5, <2>1 DEF RecoveryInv, LoggedWithinFile, rvars, vars
<1> QED BY <1>1, <1>2, <1>4, <1>5 DEF RNext, Loaded

\* However often the process dies, in the middle of saving the free list too, its
\* log, its index, its free list and its handlers only have spans of the file.
THEOREM RestartBounds == RSpec => [](TypeInv /\ WithinFile /\ LoggedWithinFile)
<1>1. RecoveryInv => TypeInv /\ WithinFile /\ LoggedWithinFile
  BY DEF RecoveryInv, WithinFileInv
<1> QED BY <1>1, RecoveryInit, RecoveryStep, PTL DEF RSpec

-----------------------------------------------------------------------------
(* One writer, and a process that dies when its log is flushed. *)

\* A block that is lost leaves its writer with nothing, and every other span where
\* it was.
LEMMA LostLeavesDivided ==
    ASSUME SingleWriter, TypeInv, TypeInv', OneWriterInv,
           NEW c \in Clients, MarkLost(c)
    PROVE  OneWriterInv'
<1>1. pc[c] = "mark" /\ UNCHANGED <<disk, eof, index, free, worker>>
  BY DEF MarkLost, store, queue
<1>2. /\ pc'[c] = "idle"
      /\ \A d \in Clients : d # c =>
            pc[d] \notin Acting /\ pc'[d] = pc[d] /\ req'[d] = req[d]
  BY <1>1, ActsAlone DEF Acting, MarkLost, Return, Goto, TypeInv, TypeOK
<1>3. WorkerOK' /\ WriterOK' /\ IndexPointsAtData'
  BY <1>1, <1>2
  DEF OneWriterInv, WorkerOK, WriterOK, IndexPointsAtData, Acting
<1>4. Held(c)' = NoSpan
  BY <1>2 DEF Held
<1>5. SpaceApart'
  BY <1>1, <1>2, <1>4, NoSpanType, NoSpanApart, DividedAfter
  DEF OneWriterInv, SpaceApart, LiveNotFree, TypeInv, TypeOK
<1> QED BY <1>3, <1>5 DEF OneWriterInv

\* A process that starts with an index whose spans are apart, from each other and
\* from the blocks it has left, and point at data, is as good as new.
LEMMA RebornDivided ==
    ASSUME TypeInv', Reborn, free' = free \/ free' = NoBlocks,
           \A j, k \in Keys : j # k => Apart(index'[j], index'[k]),
           \A j, k \in DOMAIN free : j # k => Apart(free[j], free[k]),
           \A j \in DOMAIN free, k \in Keys : Apart(free[j], index'[k]),
           IndexPointsAtData'
    PROVE  OneWriterInv'
<1>1. disk' = disk /\ worker' = Idle /\ \A c \in Clients : pc'[c] = "idle"
  BY DEF Reborn
<1>2. WorkerOK' /\ WriterOK'
  BY <1>1 DEF WorkerOK, WriterOK, Idle
<1>3. \A c \in Clients : Held(c)' = NoSpan
  BY <1>1 DEF Held
<1>4. \A j \in DOMAIN free' : j \in DOMAIN free /\ free'[j] = free[j]
  BY DEF NoBlocks
<1>5. SpaceApart'
  BY <1>1, <1>3, <1>4, NoSpanApart DEF SpaceApart, LiveNotFree, TypeInv, TypeOK
<1> QED BY <1>2, <1>5 DEF OneWriterInv

\* Dying with every change in the files changes neither index nor data.
LEMMA FlushedStep ==
    ASSUME SingleWriter, RecoveryInv, RecoveryInv', OneWriterInv, [FlushedNext]_rvars
    PROVE  OneWriterInv' /\ (Map!Next \/ UNCHANGED Content)
<1>1. TypeInv /\ TypeInv' /\ WithinFile
  BY DEF RecoveryInv, WithinFileInv
<1>2. CASE [Next]_vars
  BY <1>1, <1>2, OneWriterStep, MapStep
<1>3. ASSUME NEW c \in Clients, MarkLost(c)
      PROVE  OneWriterInv' /\ UNCHANGED Content
  BY <1>1, <1>3, LostLeavesDivided, ContentKept DEF MarkLost, store
<1>4. CASE (Restart \/ RestartTorn) /\ index' = index
  <2>1. Reborn /\ (free' = free \/ free' = NoBlocks)
    BY <1>4 DEF Restart, RestartTorn
  <2>2. UNCHANGED <<disk, index>>
    BY <1>4, <2>1 DEF Reborn
  <2>3. OneWriterInv'
    BY <1>1, <2>1, <2>2, RebornDivided
    DEF OneWriterInv, SpaceApart, LiveNotFree, IndexPointsAtData
  <2> QED BY <2>2, <2>3, ContentKept
<1> QED BY <1>2, <1>3, <1>4 DEF FlushedNext, RNext, Loaded, rvars

\* FlushedSpec is a restriction of RSpec.
LEMMA FlushedTyping == FlushedSpec => []RecoveryInv
<1>1. RecoveryInv /\ [FlushedNext]_rvars => RecoveryInv'
  BY RecoveryStep DEF FlushedNext
<1> QED BY <1>1, RecoveryInit, PTL DEF FlushedSpec

\* With one client that saves and frees, a process that dies with its log flushed,
\* at whatever point of a write, of a save of the free list or of a handler, starts
\* again with entries that point at their values and with space that has one owner:
\* what is lost is at most the space of the save or free that was cut short.
THEOREM FlushedRestartKeepsData ==
    ASSUME SingleWriter
    PROVE  FlushedSpec => [](IndexPointsAtData /\ SpaceApart)
<1>1. RInit => OneWriterInv
  BY OneWriterInit DEF RInit
<1>2. RecoveryInv /\ RecoveryInv' /\ OneWriterInv /\ [FlushedNext]_rvars
      => OneWriterInv'
  BY FlushedStep
<1>3. OneWriterInv => IndexPointsAtData /\ SpaceApart
  BY DEF OneWriterInv
<1> QED BY <1>1, <1>2, <1>3, FlushedTyping, PTL DEF FlushedSpec

\* And nobody who reads the table sees that it died: the map is what it was.
THEOREM FlushedRestartImplements ==
    ASSUME SingleWriter
    PROVE  FlushedSpec => ImplementsMap
<1>1. RInit => OneWriterInv /\ Map!Init
  BY OneWriterInit, MapInit DEF RInit
<1>2. RecoveryInv /\ RecoveryInv' /\ OneWriterInv /\ [FlushedNext]_rvars
      => OneWriterInv' /\ (Map!Next \/ UNCHANGED Content)
  BY FlushedStep
<1> QED BY <1>1, <1>2, FlushedTyping, PTL DEF FlushedSpec, ImplementsMap, Map!Spec

-----------------------------------------------------------------------------
(* One writer that frees nothing, and a process that may die at any step. *)

\* With nothing freed there is nothing to reuse.
LEMMA StaysAppending ==
    ASSUME TypeInv, NoneFreed, NoneFreed', OnlyAppends, Next
    PROVE  OnlyAppends'
<1>1. pc \in [Clients -> Steps] /\ worker \in WorkerState
  BY DEF TypeInv, TypeOK
<1>2. /\ \A n : BestFit(free, n) = {}
      /\ \A s : SaveBlockCheck(free, s) = {free}
  BY DEF OnlyAppends, BestFit, Fitting, SaveBlockCheck, Covering
<1>3. CASE WorkerReceive
  BY <1>1, <1>3 DEF WorkerReceive, OnlyAppends, Goto, WorkerState, store
<1>4. CASE WorkerStart
  BY <1>1, <1>2, <1>4 DEF WorkerStart, Begin, OnlyAppends, WorkerState
<1>5. ASSUME NEW c \in Clients, WorkerWrite(c) \/ WorkerCheck(c) \/ WorkerRead(c)
      PROVE  OnlyAppends'
  <2>1. free' = free
    BY <1>2, <1>5 DEF WorkerWrite, WorkerCheck, WorkerRead, store
  <2>2. worker'.mode \in {worker.mode, "collect"}
    BY <1>1, <1>5 DEF WorkerWrite, WorkerCheck, WorkerRead, EndBatch, Idle, WorkerState
  <2>3. \A d \in Clients : pc'[d] = pc[d] \/ pc'[d] \in {"written", "idle", "store", "got"}
    BY <1>1, <1>5 DEF WorkerWrite, WorkerCheck, WorkerRead, Goto, Return
  <2> QED BY <2>1, <2>2, <2>3 DEF OnlyAppends
<1>6. ASSUME NEW c \in Clients, Client(c) PROVE OnlyAppends'
  <2>1. CASE \E w \in Workload : DirectAllocate(c, w[1], w[2])
    <3>1. Goto(c, "directAppend") /\ free' = free /\ worker' = worker
      BY <1>2, <2>1 DEF DirectAllocate, queue
    <3>2. \A d \in Clients : pc'[d] = pc[d] \/ pc'[d] = "directAppend"
      BY <1>1, <3>1 DEF Goto
    <3> QED BY <3>1, <3>2 DEF OnlyAppends
  <2>2. CASE DirectCheck(c)
    <3>1. Goto(c, "store") /\ free' = free /\ worker' = worker
      BY <1>2, <2>2 DEF DirectCheck, queue
    <3>2. \A d \in Clients : pc'[d] = pc[d] \/ pc'[d] = "store"
      BY <1>1, <3>1 DEF Goto
    <3> QED BY <3>1, <3>2 DEF OnlyAppends
  <2>3. CASE Mark(c)
    BY <2>3 DEF Mark, NoneFreed
  <2>4. CASE ~DirectCheck(c) /\ ~Mark(c)
             /\ ~\E w \in Workload : DirectAllocate(c, w[1], w[2])
    <3>1. /\ free' = free /\ worker' = worker
          /\ \A d \in Clients :
                pc'[d] = pc[d] \/ pc'[d] \notin {"directReuse", "directWritten"}
      BY <1>1, <1>6, <2>4
      DEF Client, SaveSend, DirectWrite, SaveStore, FreeLookup, FreeRemove, ReadLookup,
          ReadSend, ReadGivesUp, DirectRead, ReadReturn, Goto, Return, store, queue,
          OnlyAppends
    <3> QED BY <3>1 DEF OnlyAppends
  <2> QED BY <2>1, <2>2, <2>3, <2>4
<1> QED BY <1>3, <1>4, <1>5, <1>6 DEF Next, Worker

\* And every write goes behind all that the file has: what a span of the file
\* holds, it keeps.
LEMMA AppendsKeepData ==
    ASSUME TypeInv, OneWriterInv, OnlyAppends, [Next]_vars,
           NEW s \in Span, s.end <= eof, NEW u \in Values, Holds(disk, s, u)
    PROVE  Holds(disk', s, u)
<1>1. eof \in Nat
  BY SpansTyped
<1>2. ASSUME NEW v \in Values, WriteAt(v, eof) PROVE Holds(disk', s, u)
  BY <1>1, <1>2, EndApart, WriteKeeps
<1>3. ASSUME NEW c \in Clients, WorkerWrite(c) PROVE Holds(disk', s, u)
  <2>1. pc[c] = "writeTaken" /\ worker.mode = "append"
    BY <1>3 DEF WorkerWrite, NextAt, OnlyAppends, TypeInv, TypeOK, WorkerState
  <2>2. worker.cur = eof /\ req[c].val \in Values
    BY <2>1, WorkloadPair DEF OneWriterInv, WorkerOK, TypeInv, StepsOK, Saving
  <2> QED BY <1>2, <1>3, <2>2 DEF WorkerWrite
<1>4. ASSUME NEW c \in Clients, DirectWrite(c) PROVE Holds(disk', s, u)
  <2>1. pc[c] = "directAppend"
    BY <1>4 DEF DirectWrite, OnlyAppends
  <2>2. req[c].val \in Values
    BY <2>1, WorkloadPair DEF TypeInv, StepsOK, Saving
  <2> QED BY <1>2, <1>4, <2>1, <2>2 DEF DirectWrite
<1>5. CASE disk' = disk
  BY <1>5 DEF Holds
<1> QED BY <1>3, <1>4, <1>5
    DEF Next, Worker, Client, vars, store, WorkerReceive, WorkerStart, WorkerCheck,
        WorkerRead, SaveSend, SaveStore, Mark, DirectAllocate, DirectCheck,
        FreeLookup, FreeRemove, ReadLookup, ReadSend, ReadGivesUp, DirectRead,
        ReadReturn

\* How a save comes to have a span that it has written and not yet stored.
LEMMA WrittenStep ==
    ASSUME TypeInv, OnlyAppends, Next,
           NEW c \in Clients, pc'[c] \in {"written", "store"}
    PROVE  \/ pc[c] \in {"written", "store"} /\ req'[c] = req[c]
           \/ WorkerWrite(c) /\ req'[c].span = SpanOf(worker.cur, req[c].val)
           \/ DirectWrite(c) /\ req'[c].span = req[c].span
<1>1. pc \in [Clients -> Steps] /\ req \in [Clients -> Request]
  BY DEF TypeInv, TypeOK
<1>2. CASE WorkerReceive
  BY <1>2, ReceiveMoves
<1>3. CASE WorkerStart
  BY <1>3 DEF WorkerStart
<1>4. ASSUME NEW d \in Clients, d # c,
             WorkerWrite(d) \/ WorkerCheck(d) \/ WorkerRead(d) \/ Client(d)
      PROVE  pc'[c] = pc[c] /\ req'[c] = req[c]
  BY <1>4, OthersStay
<1>5. CASE WorkerWrite(c)
  <2>1. CASE Fits(req[c].val, worker.cur)
    <3>1. req' = [req EXCEPT ![c].span = SpanOf(worker.cur, req[c].val)]
      BY <1>5, <2>1 DEF WorkerWrite
    <3> QED BY <1>1, <1>5, <3>1 DEF Request
  <2>2. CASE ~Fits(req[c].val, worker.cur)
    BY <1>1, <1>5, <2>2 DEF WorkerWrite, Return, Goto
  <2> QED BY <2>1, <2>2
<1>6. CASE WorkerCheck(c)
  BY <1>6 DEF WorkerCheck
<1>7. CASE DirectWrite(c)
  BY <1>1, <1>7 DEF DirectWrite, Return, Goto
<1>8. ASSUME WorkerRead(c) \/ Client(c), ~DirectWrite(c) PROVE FALSE
  <2>1. ~DirectCheck(c)
    <3>1. pc[c] # "directWritten"
      BY DEF OnlyAppends
    <3> QED BY <3>1 DEF DirectCheck
  <2>2. CASE \/ WorkerRead(c) \/ SaveStore(c) \/ Mark(c) \/ FreeRemove(c)
             \/ ReadSend(c) \/ ReadGivesUp(c) \/ DirectRead(c) \/ ReadReturn(c)
    <3>1. \E s \in {"idle", "got", "mark", "readQueued"} : Goto(c, s)
      BY <2>2
      DEF WorkerRead, SaveStore, Mark, FreeRemove, ReadSend, ReadGivesUp, DirectRead,
          ReadReturn, Return
    <3> QED BY <1>1, <3>1 DEF Goto
  <2>3. ASSUME NEW k, NEW v,
               SaveSend(c, k, v) \/ DirectAllocate(c, k, v) \/ FreeLookup(c, k)
               \/ ReadLookup(c, k)
        PROVE  FALSE
    BY <1>1, <2>3 DEF SaveSend, DirectAllocate, FreeLookup, ReadLookup, Goto
  <2> QED BY <1>8, <2>1, <2>2, <2>3 DEF Client
<1> QED BY <1>2, <1>3, <1>4, <1>5, <1>6, <1>7, <1>8 DEF Next, Worker

\* The bytes of a save on its way to the index are behind all that any key ever had.
LEMMA NewStaysApart ==
    ASSUME SingleWriter, RecoveryInv, KeepingInv, Next, Remember
    PROVE  NewApart'
<1> SUFFICES ASSUME NEW c \in Clients, pc'[c] \in {"written", "store"},
                    NEW k \in Keys, NEW s \in logged'[k]
             PROVE  Apart(req'[c].span, s)
  BY DEF NewApart
<1>1. /\ TypeInv /\ LoggedWithinFile /\ OneWriterInv /\ OnlyAppends /\ NewApart
      /\ logged[k] \subseteq Span /\ index[k] \in logged[k]
      /\ eof \in Nat /\ pc \in [Clients -> Steps]
  BY SpansTyped DEF RecoveryInv, KeepingInv, TypeInv, TypeOK
<1>2. UNCHANGED index
  <2> SUFFICES ASSUME NEW d \in Clients, SaveStore(d) \/ FreeRemove(d) PROVE FALSE
    BY WhoStores
  <2>1. pc[d] \in {"store", "remove"} /\ pc'[d] \in {"mark", "idle"}
    BY <1>1 DEF SaveStore, FreeRemove, Goto, Return
  <2>2. c # d /\ pc'[c] = pc[c]
    BY <1>1, <2>1 DEF SaveStore, FreeRemove, Goto, Return
  <2> QED BY <1>1, <2>1, <2>2, ActsAlone DEF Acting
<1>3. s \in logged[k] /\ s \in Span /\ s.end <= eof
  BY <1>1, <1>2 DEF Remember, LoggedWithinFile
<1>4. ASSUME NEW v \in Values, req'[c].span = SpanOf(eof, v)
      PROVE  Apart(req'[c].span, s)
  BY <1>1, <1>3, <1>4, EndApart
<1>5. CASE pc[c] \in {"written", "store"} /\ req'[c] = req[c]
  BY <1>1, <1>3, <1>5 DEF NewApart
<1>6. CASE WorkerWrite(c) /\ req'[c].span = SpanOf(worker.cur, req[c].val)
  <2>1. pc[c] = "writeTaken" /\ worker.mode = "append"
    BY <1>1, <1>6 DEF WorkerWrite, NextAt, OnlyAppends, TypeInv, TypeOK, WorkerState
  <2>2. worker.cur = eof /\ req[c].val \in Values
    BY <1>1, <2>1, WorkloadPair
    DEF OneWriterInv, WorkerOK, TypeInv, StepsOK, Saving
  <2> QED BY <1>4, <1>6, <2>2
<1>7. CASE DirectWrite(c) /\ req'[c].span = req[c].span
  <2>1. pc[c] = "directAppend"
    BY <1>1, <1>7 DEF DirectWrite, OnlyAppends
  <2>2. req[c].span = SpanOf(eof, req[c].val) /\ req[c].val \in Values
    BY <1>1, <2>1, WorkloadPair
    DEF OneWriterInv, WriterOK, TypeInv, StepsOK, Saving
  <2> QED BY <1>4, <1>7, <2>2
<1> QED BY <1>1, <1>5, <1>6, <1>7, WrittenStep

\* And so it stays apart from them when it is stored.
LEMMA LoggedStaysApart ==
    ASSUME RecoveryInv, KeepingInv, Next, Remember, NoneFreed'
    PROVE  LoggedApart'
<1>1. /\ LoggedApart /\ NewApart /\ \A k \in Keys : index[k] \in logged[k]
      /\ index \in [Keys -> Span] /\ pc \in [Clients -> Steps] /\ TypeInv
  BY DEF RecoveryInv, KeepingInv, TypeInv, TypeOK
<1>2. \A k \in Keys : logged'[k] = logged[k] \cup {index'[k]}
  BY DEF Remember
<1>3. CASE UNCHANGED index
  <2>1. ASSUME NEW k \in Keys PROVE logged'[k] = logged[k]
    <3>1. index[k] \in logged[k] /\ logged'[k] = logged[k] \cup {index[k]}
      BY <1>1, <1>2, <1>3
    <3> QED BY <3>1
  <2> QED BY <1>1, <2>1 DEF LoggedApart
<1>4. ASSUME NEW c \in Clients, SaveStore(c) PROVE LoggedApart'
  <2> DEFINE n == req[c].span
  <2>1. /\ pc[c] = "store" /\ req[c].key \in Keys
        /\ \A k \in Keys : index'[k] = IF k = req[c].key THEN n ELSE index[k]
    BY <1>1, <1>4, WorkloadPair DEF SaveStore, TypeInv, StepsOK, Saving
  <2>2. \A k \in Keys : \A s \in logged[k] : Apart(n, s) /\ Apart(s, n)
    <3>1. \A k \in Keys : \A s \in logged[k] : Apart(n, s)
      BY <1>1, <2>1 DEF NewApart
    <3> QED BY <3>1, ApartSym
  <2> HIDE DEF n
  <2>3. ASSUME NEW k \in Keys
        PROVE  logged'[k] = IF k = req[c].key THEN logged[k] \cup {n} ELSE logged[k]
    <3>1. index[k] \in logged[k]
      BY <1>1
    <3>2. CASE k = req[c].key
      BY <1>2, <2>1, <3>2
    <3>3. CASE k # req[c].key
      <4>1. logged'[k] = logged[k] \cup {index[k]}
        BY <1>2, <2>1, <3>3
      <4> QED BY <3>1, <3>3, <4>1
    <3> QED BY <3>2, <3>3
  <2> SUFFICES ASSUME NEW j \in Keys, NEW k \in Keys, j # k,
                      NEW s \in logged'[j], NEW t \in logged'[k]
               PROVE  Apart(s, t)
    BY DEF LoggedApart
  <2>4. CASE s \in logged[j] /\ t \in logged[k]
    BY <1>1, <2>4 DEF LoggedApart
  <2>5. CASE s \notin logged[j]
    <3>1. s = n /\ t \in logged[k]
      BY <2>3, <2>5
    <3> QED BY <2>2, <3>1
  <2>6. CASE t \notin logged[k]
    <3>1. t = n /\ s \in logged[j]
      BY <2>3, <2>6
    <3> QED BY <2>2, <3>1
  <2> QED BY <2>4, <2>5, <2>6
<1>5. ASSUME NEW c \in Clients, FreeRemove(c) PROVE FALSE
  BY <1>1, <1>5 DEF FreeRemove, Goto, NoneFreed
<1> QED BY <1>3, <1>4, <1>5, WhoStores

LEMMA KeepingInit == RInit => KeepingInv
<1> SUFFICES ASSUME RInit PROVE KeepingInv
  OBVIOUS
<1>1. OneWriterInv /\ logged = [k \in Keys |-> {NoSpan}]
  BY OneWriterInit DEF RInit, Init
<1>2. NoneFreed /\ OnlyAppends /\ NewApart
  BY DEF RInit, Init, NoneFreed, OnlyAppends, NewApart, Idle
<1>3. LoggedPointsAtData /\ LoggedApart
  BY <1>1, NoSpanApart, NoSpanType DEF LoggedPointsAtData, LoggedApart
<1> QED BY <1>1, <1>2, <1>3 DEF KeepingInv

LEMMA KeepingStep ==
    ASSUME SingleWriter, RecoveryInv, RecoveryInv', KeepingInv, [KeepingNext]_rvars
    PROVE  KeepingInv'
<1>1. /\ TypeInv /\ TypeInv' /\ WithinFile /\ LoggedWithinFile
      /\ logged \in [Keys -> SUBSET Span]
      /\ OneWriterInv /\ NoneFreed /\ OnlyAppends
      /\ LoggedPointsAtData /\ LoggedApart /\ NewApart
  BY DEF RecoveryInv, WithinFileInv, KeepingInv
<1>2. NoneFreed'
  BY <1>1 DEF KeepingNext, NoneFreed, rvars, vars
<1>3. ASSUME Next, Remember PROVE KeepingInv'
  <2>1. OneWriterInv' /\ IndexPointsAtData'
    BY <1>1, <1>3, OneWriterStep DEF OneWriterInv
  <2>2. OnlyAppends'
    BY <1>1, <1>2, <1>3, StaysAppending
  <2>3. LoggedPointsAtData'
    <3> SUFFICES ASSUME NEW k \in Keys, NEW s \in logged'[k], s # NoSpan
                 PROVE  \E v \in Values : <<k, v>> \in Workload /\ Holds(disk', s, v)
      BY DEF LoggedPointsAtData
    <3>1. CASE s \in logged[k]
      <4>1. PICK v \in Values : <<k, v>> \in Workload /\ Holds(disk, s, v)
        BY <1>1, <3>1 DEF LoggedPointsAtData
      <4>2. s \in Span /\ s.end <= eof
        BY <1>1, <3>1 DEF LoggedWithinFile
      <4> QED BY <1>1, <1>3, <4>1, <4>2, AppendsKeepData
    <3>2. CASE s = index'[k]
      BY <2>1, <3>2 DEF IndexPointsAtData
    <3> QED BY <1>3, <3>1, <3>2 DEF Remember
  <2>4. LoggedApart' /\ NewApart'
    BY <1>2, <1>3, LoggedStaysApart, NewStaysApart
  <2> QED BY <1>2, <2>1, <2>2, <2>3, <2>4 DEF KeepingInv
<1>4. ASSUME NEW c \in Clients, MarkLost(c) PROVE FALSE
  BY <1>1, <1>4 DEF MarkLost, NoneFreed
<1>5. CASE Restart \/ RestartTorn
  <2>1. Reborn /\ (free' = free \/ free' = NoBlocks) /\ DOMAIN free' = {}
    BY <1>1, <1>5 DEF Restart, RestartTorn, OnlyAppends, NoBlocks
  <2>2. UNCHANGED <<disk, logged>> /\ \A k \in Keys : index'[k] \in logged[k]
    BY <2>1 DEF Reborn, Recoverable
  <2>3. \A j, k \in Keys : j # k => Apart(index'[j], index'[k])
    BY <1>1, <2>2 DEF LoggedApart
  <2>4. IndexPointsAtData'
    BY <1>1, <2>2 DEF LoggedPointsAtData, IndexPointsAtData
  <2>5. OneWriterInv'
    BY <1>1, <2>1, <2>3, <2>4, RebornDivided DEF OnlyAppends
  <2>6. OnlyAppends' /\ NewApart'
    BY <2>1 DEF OnlyAppends, NewApart, Reborn, Idle
  <2>7. LoggedPointsAtData' /\ LoggedApart'
    BY <1>1, <2>2 DEF LoggedPointsAtData, LoggedApart
  <2> QED BY <1>2, <2>5, <2>6, <2>7 DEF KeepingInv
<1>6. CASE UNCHANGED rvars
  <2>1. OneWriterInv'
    BY <1>1, <1>6, OneWriterStep DEF rvars
  <2> QED BY <1>1, <1>2, <1>6, <2>1
      DEF KeepingInv, OnlyAppends, LoggedPointsAtData, LoggedApart, NewApart, rvars, vars
<1> QED BY <1>3, <1>4, <1>5, <1>6 DEF KeepingNext, RNext, Loaded

\* KeepingSpec is a restriction of RSpec.
LEMMA KeepingTyping == KeepingSpec => []RecoveryInv
<1>1. RecoveryInv /\ [KeepingNext]_rvars => RecoveryInv'
  BY RecoveryStep DEF KeepingNext
<1> QED BY <1>1, RecoveryInit, PTL DEF KeepingSpec

\* With one client that never frees, nor saves over an entry, a process may die at
\* any step, its log as far behind as it likes: the entries that a restart brings
\* back, and those there are, point at whole values saved for their keys, and no
\* save that follows is given their bytes.
THEOREM KeepingRestartKeepsData ==
    ASSUME SingleWriter
    PROVE  KeepingSpec => [](IndexPointsAtData /\ LoggedPointsAtData /\ SpaceApart)
<1>1. RecoveryInv /\ RecoveryInv' /\ KeepingInv /\ [KeepingNext]_rvars
      => KeepingInv'
  BY KeepingStep
<1>2. KeepingInv => IndexPointsAtData /\ LoggedPointsAtData /\ SpaceApart
  BY DEF KeepingInv, OneWriterInv
<1> QED BY <1>1, <1>2, KeepingInit, KeepingTyping, PTL DEF KeepingSpec

\* What was looked up was in the index, and stays where it is.
LEMMA ReadsStep ==
    ASSUME RecoveryInv, KeepingInv, ReadersHold, ReadsOfKey, [KeepingNext]_rvars
    PROVE  ReadersHold' /\ ReadsOfKey'
<1>1. /\ TypeInv /\ WithinFile /\ OneWriterInv /\ NoneFreed /\ OnlyAppends
      /\ IndexPointsAtData
  BY DEF RecoveryInv, WithinFileInv, KeepingInv, OneWriterInv
<1>2. ASSUME [Next]_vars, NEW c \in Clients, pc'[c] \in Asking
      PROVE  \E v \in Values :
                 <<req'[c].key, v>> \in Workload /\ Holds(disk', req'[c].span, v)
  <2>1. ASSUME NEW v \in Values, NEW s \in Span, s.end <= eof, Holds(disk, s, v)
        PROVE  Holds(disk', s, v)
    BY <1>1, <1>2, <2>1, AppendsKeepData
  <2>2. CASE pc[c] \in Asking /\ req'[c] = req[c]
    <3>1. PICK v \in Values :
             <<req[c].key, v>> \in Workload /\ Holds(disk, req[c].span, v)
      BY <2>2 DEF ReadersHold
    <3>2. req[c].span \in Span /\ req[c].span.end <= eof
      BY <1>1, <2>2, SpansTyped DEF WithinFile, Asking
    <3> QED BY <2>1, <2>2, <3>1, <3>2
  <2>3. CASE \E k \in Keys : /\ index[k] # NoSpan
                             /\ req'[c].key = k /\ req'[c].span = index[k]
    <3>1. PICK k \in Keys : /\ index[k] # NoSpan
                           /\ req'[c].key = k /\ req'[c].span = index[k]
      BY <2>3
    <3>2. PICK v \in Values : <<k, v>> \in Workload /\ Holds(disk, index[k], v)
      BY <1>1, <3>1 DEF IndexPointsAtData
    <3>3. index[k] \in Span /\ index[k].end <= eof
      BY <1>1, SpansTyped DEF WithinFile
    <3> QED BY <2>1, <3>1, <3>2, <3>3
  <2> QED BY <1>1, <1>2, <2>2, <2>3, ReaderStep
<1>3. ASSUME [Next]_vars, NEW c \in Clients, pc'[c] = "got"
      PROVE  \E v \in Values :
                 <<req'[c].key, v>> \in Workload /\ req'[c].got = Enc(v)
  <2>1. CASE pc[c] = "got" /\ req'[c] = req[c]
    BY <2>1 DEF ReadsOfKey
  <2>2. CASE /\ pc[c] \in Asking
             /\ req'[c].key = req[c].key
             /\ req'[c].got = CellsOf(req[c].span)
    <3>1. PICK v \in Values :
             <<req[c].key, v>> \in Workload /\ Holds(disk, req[c].span, v)
      BY <2>2 DEF ReadersHold
    <3> QED BY <2>2, <3>1, CellsHeld
  <2> QED BY <1>1, <1>3, <2>1, <2>2, ReaderStep
<1>4. CASE [Next]_vars
  BY <1>2, <1>3, <1>4 DEF ReadersHold, ReadsOfKey
<1>5. ASSUME NEW c \in Clients, MarkLost(c) PROVE FALSE
  BY <1>1, <1>5 DEF MarkLost, NoneFreed
<1>6. CASE Reborn
  BY <1>6 DEF Reborn, ReadersHold, ReadsOfKey, Asking
<1> QED BY <1>4, <1>5, <1>6
    DEF KeepingNext, RNext, Loaded, Restart, RestartTorn, rvars

\* Any number of clients read beside the one that saves: as long as nothing is
\* freed, no read is spoiled by what is saved between its look-up and its turn, and
\* each is answered with one whole value of its key.
THEOREM KeepingReadsRight ==
    ASSUME SingleWriter
    PROVE  KeepingSpec => []ReadsOfKey
<1>1. RInit => ReadersHold /\ ReadsOfKey
  BY DEF RInit, Init, ReadersHold, ReadsOfKey, Asking
<1>2. RecoveryInv /\ RecoveryInv' /\ KeepingInv /\ [KeepingNext]_rvars
      => KeepingInv'
  BY KeepingStep
<1>3. RecoveryInv /\ KeepingInv /\ ReadersHold /\ ReadsOfKey /\ [KeepingNext]_rvars
      => ReadersHold' /\ ReadsOfKey'
  BY ReadsStep
<1> QED BY <1>1, <1>2, <1>3, KeepingInit, KeepingTyping, PTL DEF KeepingSpec
=============================================================================
