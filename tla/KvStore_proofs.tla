--------------------------- MODULE KvStore_proofs ---------------------------
(***************************************************************************)
(* Proofs about KvStore, for any sets of keys, values and clients:         *)
(*   - no span of the index, the free list or the queue reaches beyond the *)
(*     end of the data file;                                               *)
(*   - in a table that a single client writes nothing in the file has two  *)
(*     owners, every entry of the index points at a value saved for its    *)
(*     key, and the table implements the map KvMap.                        *)
(***************************************************************************)
EXTENDS KvStore, TLAPS

\* Every value has bytes.
LEMMA SizePositive ==
    ASSUME NEW v \in Values
    PROVE  Size[v] \in Nat /\ Size[v] > 0
BY SizeAssumption

\* The saves of the instance are of its keys and values.
LEMMA WorkloadPair ==
    ASSUME NEW k, NEW v, <<k, v>> \in Workload
    PROVE  k \in Keys /\ v \in Values
BY WorkloadAssumption

\* So is each of them, as a pair.
LEMMA WorkloadMember ==
    ASSUME NEW w \in Workload
    PROVE  w[1] \in Keys /\ w[2] \in Values /\ <<w[1], w[2]>> = w
BY WorkloadAssumption

\* The span of a value written at an offset.
LEMMA SpanOfType ==
    ASSUME NEW o \in Nat, NEW v \in Values
    PROVE  /\ SpanOf(o, v) \in Span
           /\ SpanOf(o, v).start = o
           /\ SpanOf(o, v).end = o + Size[v]
BY SizePositive DEF SpanOf, Span

\* A write gives a file that is no shorter, and leaves what is before it.
LEMMA WriteAtType ==
    ASSUME disk \in [Offsets -> Cell], eof \in 0 .. MaxFile,
           NEW v \in Values, NEW o \in Nat, WriteAt(v, o)
    PROVE  /\ disk' \in [Offsets -> Cell]
           /\ eof' \in 0 .. MaxFile
           /\ eof <= eof'
           /\ Fits(v, o) => o + Size[v] <= eof'
           /\ \A i \in Offsets : i < o => disk'[i] = disk[i]
           /\ \A i \in Offsets : i >= o + Size[v] => disk'[i] = disk[i]
<1>1. Size[v] \in Nat /\ Size[v] > 0 /\ MaxFile \in Nat
  BY SizePositive, CapacityAssumption
<1>2. disk' \in [Offsets -> Cell]
  BY <1>1 DEF WriteAt, Cell, Offsets
<1>3. eof' \in 0 .. MaxFile /\ eof <= eof' /\ (Fits(v, o) => o + Size[v] <= eof')
  BY <1>1 DEF WriteAt, Fits
<1>4. \A i \in Offsets : (i < o \/ i >= o + Size[v]) => disk'[i] = disk[i]
  BY <1>1 DEF WriteAt, Offsets
<1> QED BY <1>2, <1>3, <1>4

\* What a read gives of a span is cells.
LEMMA CellsType ==
    ASSUME disk \in [Offsets -> Cell], NEW s \in Span
    PROVE  CellsOf(s) \in Seq(Cell)
<1>1. s.end - s.start \in Int
  BY DEF Span
<1>2. \A i \in 1 .. s.end - s.start :
         (IF s.start + i - 1 \in Offsets THEN disk[s.start + i - 1] ELSE Blank) \in Cell
  BY DEF Cell
<1>3. CASE s.end - s.start \in Nat
  <2>1. CellsOf(s) \in [1 .. s.end - s.start -> Cell]
    BY <1>2 DEF CellsOf
  <2> QED BY <2>1, <1>3
<1>4. CASE s.end - s.start < 0
  <2>1. 1 .. s.end - s.start = 1 .. 0
    BY <1>1, <1>4
  <2>2. CellsOf(s) \in [1 .. 0 -> Cell]
    BY <1>2, <2>1 DEF CellsOf
  <2> QED BY <2>2
<1> QED BY <1>1, <1>3, <1>4

\* The empty span is a span.
LEMMA NoSpanType == NoSpan \in Span
BY DEF NoSpan, Span

\* No request is a request.
LEMMA NoRequestType == NoRequest \in Request
BY DEF NoRequest, Request, NoSpan, Span

-----------------------------------------------------------------------------
(* Type correctness. *)

\* Carving a span out of the free list leaves a list of spans.
LEMMA SaveBlockCheckType ==
    ASSUME \A k \in DOMAIN free : free[k] \in Span, NEW s \in Span,
           NEW f \in SaveBlockCheck(free, s)
    PROVE  \A k \in DOMAIN f : f[k] \in Span
<1>1. CASE Covering(free, s) = {}
  BY <1>1 DEF SaveBlockCheck
<1>2. CASE Covering(free, s) # {}
  <2>1. PICK k \in Covering(free, s) : f = Carve(free, k, s)
    BY <1>2 DEF SaveBlockCheck
  <2>2. ASSUME NEW g, \A j \in DOMAIN g : g[j] \in Span,
               NEW j, NEW m \in Nat, NEW n \in Nat, m <= n
        PROVE  \A i \in DOMAIN Cut(g, j, m, n) : Cut(g, j, m, n)[i] \in Span
    BY <2>2 DEF Cut, MarkAsFree, Span
  <2>3. /\ free[k].start \in Nat /\ free[k].end \in Nat
        /\ s.start \in Nat /\ s.end \in Nat
        /\ free[k].start <= s.start /\ s.start <= s.end /\ s.end <= free[k].end
    BY <2>1 DEF Covering, Within, Span
  <2>4. \A j \in DOMAIN Unlist(free, k) : Unlist(free, k)[j] \in Span
    BY DEF Unlist
  <2> QED BY <2>1, <2>2, <2>3, <2>4 DEF Carve
<1> QED BY <1>1, <1>2

\* Enqueueing a request keeps the queue one of waiting clients.
LEMMA EnqueueInv ==
    ASSUME TypeInv, NEW c \in Clients, Enqueue(c),
           pc[c] \notin {"writeQueued", "readQueued"},
           NEW step \in {"writeQueued", "readQueued"},
           Goto(c, step)
    PROVE  chan' \in Seq(Clients) /\ QueueOK'
<1>1. chan \in Seq(Clients) /\ chan' = Append(chan, c)
  BY DEF TypeInv, TypeOK, Enqueue
<1>2. \A i \in DOMAIN chan : chan[i] # c /\ chan[i] \in Clients
  BY <1>1 DEF TypeInv, QueueOK
<1>3. \A i \in DOMAIN chan' :
         \/ i \in DOMAIN chan /\ chan'[i] = chan[i]
         \/ i = Len(chan) + 1 /\ chan'[i] = c
  BY <1>1
<1>4. \A d \in Clients : pc'[d] = IF d = c THEN step ELSE pc[d]
  BY DEF Goto, TypeInv, TypeOK
<1> QED BY <1>1, <1>2, <1>3, <1>4 DEF TypeInv, QueueOK

\* So does a step of a client that is not in the queue.
LEMMA SameQueue ==
    ASSUME TypeInv, NEW c \in Clients, UNCHANGED chan,
           pc[c] \notin {"writeQueued", "readQueued"},
           NEW step, Goto(c, step)
    PROVE  QueueOK'
<1>1. \A i \in DOMAIN chan : chan[i] # c /\ chan[i] \in Clients
  BY DEF TypeInv, TypeOK, QueueOK
<1>2. \A d \in Clients : d # c => pc'[d] = pc[d]
  BY DEF Goto, TypeInv, TypeOK
<1> QED BY <1>1, <1>2 DEF TypeInv, QueueOK

\* The end of a batch leaves a worker and a batch.
LEMMA EndBatchType ==
    ASSUME TypeInv, NEW c \in Clients, NEW w \in WorkerState, EndBatch(c, w)
    PROVE  worker' \in WorkerState /\ batch' \in Seq(Clients)
<1>1. Idle \in WorkerState
  BY DEF Idle, WorkerState
<1>2. batch \in Seq(Clients) /\ <<>> \in Seq(Clients)
  BY DEF TypeInv, TypeOK
<1> QED BY <1>1, <1>2 DEF EndBatch

\* The start is well typed.
LEMMA TypeInit == Init => TypeInv
<1> SUFFICES ASSUME Init PROVE TypeInv
  OBVIOUS
<1>1. TypeOK
  BY NoRequestType, CapacityAssumption
  DEF Init, TypeOK, Cell, Span, NoSpan, Idle, WorkerState, Steps
<1>2. StepsOK
  BY DEF Init, StepsOK, Saving
<1>3. QueueOK
  BY DEF Init, QueueOK
<1> QED BY <1>1, <1>2, <1>3 DEF TypeInv

\* Every step keeps the types.
LEMMA TypeStep == TypeInv /\ [Next]_vars => TypeInv'
<1> SUFFICES ASSUME TypeInv, [Next]_vars PROVE TypeInv'
  OBVIOUS
<1> USE DEF TypeInv
<1>1. ASSUME WorkerReceive PROVE TypeInv'
  <2> DEFINE c == Head(chan)
  <2>1. c \in Clients /\ chan' = Tail(chan) /\ chan' \in Seq(Clients)
    BY <1>1 DEF WorkerReceive, TypeOK
  <2>2. \A i \in DOMAIN chan' : chan'[i] = chan[i + 1] /\ i + 1 \in DOMAIN chan
                                /\ chan[i + 1] # c
    BY <1>1, <2>1 DEF WorkerReceive, TypeOK, QueueOK
  <2>3. pc[c] \in {"writeQueued", "readQueued"}
    BY <1>1 DEF WorkerReceive, TypeOK, QueueOK
  <2>4. pc' = [pc EXCEPT ![c] = IF pc[c] = "writeQueued" THEN "writeTaken"
                                ELSE "readTaken"]
    BY <1>1 DEF WorkerReceive, Goto
  <2>5. worker' \in WorkerState
    <3>1. CASE pc[c] = "writeQueued"
      <4>1. Size[req[c].val] \in Nat
        BY <2>1, <3>1, SizePositive, WorkloadPair DEF StepsOK, Saving
      <4> QED BY <4>1, <3>1, <1>1 DEF WorkerReceive, TypeOK, WorkerState
    <3>2. CASE pc[c] # "writeQueued"
      BY <3>2, <1>1 DEF WorkerReceive, TypeOK
    <3> QED BY <3>1, <3>2
  <2>6. TypeOK'
    <3>1. batch' \in Seq(Clients)
      BY <1>1, <2>1 DEF WorkerReceive, TypeOK
    <3>2. pc' \in [Clients -> Steps]
      BY <2>1, <2>4 DEF TypeOK, Steps
    <3> QED BY <1>1, <2>1, <2>5, <3>1, <3>2 DEF WorkerReceive, TypeOK, store, Offsets
  <2>7. StepsOK'
    BY <1>1, <2>1, <2>3, <2>4 DEF WorkerReceive, TypeOK, StepsOK, Saving
  <2>8. QueueOK'
    BY <2>1, <2>2, <2>4 DEF QueueOK, TypeOK
  <2> QED BY <2>6, <2>7, <2>8
<1>2. ASSUME WorkerStart PROVE TypeInv'
  <2>1. worker' \in WorkerState
    <3>1. ASSUME NEW m \in {"reuse", "append"}, NEW o \in Nat, Begin(m, o)
          PROVE  worker' \in WorkerState
      BY <3>1 DEF Begin, TypeOK, WorkerState
    <3>2. eof \in Nat
      BY CapacityAssumption DEF TypeOK
    <3>3. \A k \in BestFit(free, worker.total) : free[k].start \in Nat
      BY DEF BestFit, Fitting, TypeOK, Span
    <3> QED BY <1>2, <3>1, <3>2, <3>3 DEF WorkerStart
  <2>2. \A k \in DOMAIN free' : free'[k] \in Span
    BY <1>2 DEF WorkerStart, TypeOK, Unlist
  <2> QED BY <1>2, <2>1, <2>2
      DEF WorkerStart, TypeOK, StepsOK, QueueOK, Offsets
<1>3. ASSUME NEW c \in Clients, WorkerWrite(c) PROVE TypeInv'
  <2> DEFINE v == req[c].val
             w == IF worker.mode = "reuse"
                  THEN [worker EXCEPT !.cur = @ + Size[v]] ELSE worker
  <2>1. pc[c] = "writeTaken" /\ v \in Values /\ worker.cur \in Nat
    BY <1>3, WorkloadPair
    DEF WorkerWrite, NextAt, StepsOK, Saving, TypeOK, WorkerState
  <2>2. disk' \in [Offsets -> Cell] /\ eof' \in 0 .. MaxFile
    BY <1>3, <2>1, WriteAtType DEF WorkerWrite, TypeOK
  <2>3. w \in WorkerState
    <3>1. worker \in WorkerState /\ worker.cur + Size[v] \in Nat
      BY <2>1, SizePositive DEF TypeOK
    <3> QED BY <3>1 DEF WorkerState
  <2>4. SpanOf(worker.cur, v) \in Span
    BY <2>1, SpanOfType
  <2>5. CASE Fits(v, worker.cur)
    <3>1. /\ Goto(c, "written") /\ UNCHANGED <<index, free, chan, batch>>
          /\ req' = [req EXCEPT ![c].span = SpanOf(worker.cur, v)]
          /\ worker' = w
      BY <1>3, <2>5 DEF WorkerWrite
    <3>2. req' \in [Clients -> Request]
      BY <3>1, <2>4 DEF TypeOK, Request
    <3>3. TypeOK'
      BY <3>1, <3>2, <2>2, <2>3 DEF TypeOK, Goto, Steps, Offsets
    <3>4. StepsOK'
      BY <3>1, <2>1 DEF StepsOK, Goto, TypeOK, Saving
    <3>5. QueueOK'
      BY <3>1, <2>1, SameQueue
    <3> QED BY <3>3, <3>4, <3>5
  <2>6. CASE ~Fits(v, worker.cur)
    <3>1. Return(c) /\ UNCHANGED <<index, free, chan>> /\ EndBatch(c, w)
      BY <1>3, <2>6 DEF WorkerWrite
    <3>2. req' \in [Clients -> Request]
      BY <3>1, NoRequestType DEF TypeOK, Return
    <3>3. worker' \in WorkerState /\ batch' \in Seq(Clients)
      BY <3>1, <2>3, EndBatchType
    <3>4. TypeOK'
      BY <3>1, <3>2, <3>3, <2>2 DEF TypeOK, Goto, Return, Steps, Offsets
    <3>5. StepsOK'
      BY <3>1, <2>1 DEF StepsOK, Goto, Return, TypeOK, Saving
    <3>6. QueueOK'
      BY <3>1, <2>1, SameQueue DEF Return
    <3> QED BY <3>4, <3>5, <3>6
  <2> QED BY <2>5, <2>6
<1>4. ASSUME NEW c \in Clients, WorkerCheck(c) PROVE TypeInv'
  <2>1. \A k \in DOMAIN free' : free'[k] \in Span
    BY <1>4, SaveBlockCheckType DEF WorkerCheck, TypeOK, Request
  <2>2. worker' \in WorkerState /\ batch' \in Seq(Clients)
    BY <1>4, EndBatchType DEF WorkerCheck, TypeOK
  <2>3. TypeOK'
    BY <1>4, <2>1, <2>2 DEF WorkerCheck, TypeOK, Goto, Steps, Offsets
  <2>4. StepsOK'
    BY <1>4 DEF WorkerCheck, StepsOK, Goto, TypeOK, Saving
  <2>5. QueueOK'
    BY <1>4, SameQueue DEF WorkerCheck
  <2> QED BY <2>3, <2>4, <2>5
<1>5. ASSUME NEW c \in Clients, WorkerRead(c) PROVE TypeInv'
  <2>1. CellsOf(req[c].span) \in Seq(Cell)
    BY CellsType DEF TypeOK, Request
  <2>2. req' \in [Clients -> Request]
    BY <1>5, <2>1 DEF WorkerRead, TypeOK, Request
  <2>3. worker' \in WorkerState /\ batch' \in Seq(Clients)
    BY <1>5, EndBatchType DEF WorkerRead, TypeOK
  <2>4. TypeOK'
    BY <1>5, <2>2, <2>3 DEF WorkerRead, TypeOK, Goto, Steps, Offsets, store
  <2>5. StepsOK'
    BY <1>5 DEF WorkerRead, StepsOK, Goto, TypeOK, Saving
  <2>6. QueueOK'
    BY <1>5, SameQueue DEF WorkerRead, NextAt
  <2> QED BY <2>4, <2>5, <2>6
<1>6. ASSUME NEW c \in Clients, NEW w \in Workload, c \in Savers,
             SaveSend(c, w[1], w[2])
      PROVE  TypeInv'
  <2>1. w[1] \in Keys /\ w[2] \in Values /\ <<w[1], w[2]>> \in Workload
    BY WorkloadMember
  <2>2. [NoRequest EXCEPT !.key = w[1], !.val = w[2]] \in Request
    BY <2>1, NoRequestType DEF Request
  <2>3. chan' \in Seq(Clients) /\ QueueOK'
    BY <1>6, EnqueueInv DEF SaveSend
  <2>4. TypeOK'
    BY <1>6, <2>2, <2>3 DEF SaveSend, TypeOK, Goto, Steps, Offsets, store
  <2>5. StepsOK'
    <3>1. req'[c].key = w[1] /\ req'[c].val = w[2]
      BY <1>6 DEF SaveSend, TypeOK, NoRequest
    <3>2. \A d \in Clients : d # c => pc'[d] = pc[d] /\ req'[d] = req[d]
      BY <1>6 DEF SaveSend, TypeOK, Goto
    <3>3. c \in Writers /\ pc'[c] = "writeQueued"
      BY <1>6 DEF SaveSend, TypeOK, Goto, Writers
    <3> QED BY <2>1, <3>1, <3>2, <3>3 DEF StepsOK
  <2> QED BY <2>3, <2>4, <2>5
<1>7. ASSUME NEW c \in Clients, NEW w \in Workload, c \in DirectSavers,
             DirectAllocate(c, w[1], w[2])
      PROVE  TypeInv'
  <2> DEFINE r(s) == [NoRequest EXCEPT !.key = w[1], !.val = w[2], !.span = s]
  <2>1. w[1] \in Keys /\ w[2] \in Values /\ <<w[1], w[2]>> \in Workload
    BY WorkloadMember
  <2>2. PICK o \in Nat : /\ req' = [req EXCEPT ![c] = r(SpanOf(o, w[2]))]
                         /\ Goto(c, "directReuse") \/ Goto(c, "directAppend")
    <3>1. eof \in Nat
      BY CapacityAssumption DEF TypeOK
    <3>2. \A k \in BestFit(free, Size[w[2]]) : free[k].start \in Nat
      BY DEF BestFit, Fitting, TypeOK, Span
    <3> QED BY <1>7, <3>1, <3>2 DEF DirectAllocate
  <2>3. r(SpanOf(o, w[2])) \in Request
    BY <2>1, NoRequestType, SpanOfType DEF Request
  <2>4. \A k \in DOMAIN free' : free'[k] \in Span
    BY <1>7 DEF DirectAllocate, TypeOK, Unlist
  <2>5. TypeOK'
    BY <1>7, <2>2, <2>3, <2>4
    DEF DirectAllocate, TypeOK, Goto, Steps, Offsets, queue
  <2>6. StepsOK'
    <3>1. req'[c].key = w[1] /\ req'[c].val = w[2]
      BY <2>2 DEF TypeOK, NoRequest
    <3>2. \A d \in Clients : d # c => pc'[d] = pc[d] /\ req'[d] = req[d]
      BY <2>2 DEF TypeOK, Goto
    <3>3. c \in Writers /\ pc'[c] \in {"directReuse", "directAppend"}
      BY <1>7, <2>2 DEF TypeOK, Goto, Writers
    <3> QED BY <2>1, <3>1, <3>2, <3>3 DEF StepsOK
  <2>7. QueueOK'
    BY <1>7, <2>2, SameQueue DEF DirectAllocate, queue
  <2> QED BY <2>5, <2>6, <2>7
<1>8. ASSUME NEW c \in Clients, DirectWrite(c) PROVE TypeInv'
  <2> DEFINE v == req[c].val
             o == IF pc[c] = "directReuse" THEN req[c].span.start ELSE eof
  <2>1. pc[c] \in {"directReuse", "directAppend"} /\ v \in Values /\ o \in Nat
    <3>1. pc[c] \in {"directReuse", "directAppend"}
      BY <1>8 DEF DirectWrite
    <3>2. v \in Values
      BY <3>1, WorkloadPair DEF StepsOK, Saving
    <3>3. eof \in Nat /\ req[c].span.start \in Nat
      BY CapacityAssumption DEF TypeOK, Request, Span
    <3> QED BY <3>1, <3>2, <3>3
  <2>2. disk' \in [Offsets -> Cell] /\ eof' \in 0 .. MaxFile
    BY <1>8, <2>1, WriteAtType DEF DirectWrite, TypeOK
  <2>3. \/ Return(c)
        \/ Goto(c, "directWritten") /\ UNCHANGED req
        \/ Goto(c, "store") /\ UNCHANGED req
    BY <1>8 DEF DirectWrite
  <2>4. req' \in [Clients -> Request]
    BY <2>3, NoRequestType DEF Return, TypeOK
  <2>5. TypeOK'
    BY <1>8, <2>2, <2>3, <2>4
    DEF DirectWrite, TypeOK, Goto, Return, Steps, Offsets, queue
  <2>6. StepsOK'
    BY <2>1, <2>3 DEF StepsOK, Goto, Return, TypeOK, Saving
  <2>7. QueueOK'
    BY <1>8, <2>1, <2>3, SameQueue DEF DirectWrite, Return, queue
  <2> QED BY <2>5, <2>6, <2>7
<1>9. ASSUME NEW c \in Clients, DirectCheck(c) PROVE TypeInv'
  <2>1. \A k \in DOMAIN free' : free'[k] \in Span
    BY <1>9, SaveBlockCheckType DEF DirectCheck, TypeOK, Request
  <2>2. TypeOK'
    BY <1>9, <2>1 DEF DirectCheck, TypeOK, Goto, Steps, Offsets, queue
  <2>3. StepsOK'
    BY <1>9 DEF DirectCheck, StepsOK, Goto, TypeOK, Saving
  <2>4. QueueOK'
    BY <1>9, SameQueue DEF DirectCheck, queue
  <2> QED BY <2>2, <2>3, <2>4
<1>10. ASSUME NEW c \in Clients, SaveStore(c) PROVE TypeInv'
  <2>1. pc[c] = "store" /\ c \in Writers /\ req[c].key \in Keys
    BY <1>10, WorkloadPair DEF SaveStore, StepsOK, Saving
  <2>2. index' \in [Keys -> Span]
    BY <1>10, <2>1 DEF SaveStore, TypeOK, Request
  <2>3. \/ Return(c)
        \/ /\ Goto(c, "mark")
           /\ req' = [req EXCEPT ![c].old = index[req[c].key]]
    BY <1>10 DEF SaveStore
  <2>4. req' \in [Clients -> Request]
    <3>1. index[req[c].key] \in Span
      BY <2>1 DEF TypeOK
    <3>2. CASE Return(c)
      BY <3>2, NoRequestType DEF Return, TypeOK
    <3>3. CASE req' = [req EXCEPT ![c].old = index[req[c].key]]
      BY <3>1, <3>3 DEF TypeOK, Request
    <3> QED BY <2>3, <3>2, <3>3
  <2>5. TypeOK'
    BY <1>10, <2>2, <2>3, <2>4
    DEF SaveStore, TypeOK, Goto, Return, Steps, Offsets, queue
  <2>6. StepsOK'
    <3>1. CASE Return(c)
      BY <3>1 DEF StepsOK, Goto, Return, TypeOK, Saving
    <3>2. CASE Goto(c, "mark") /\ req' = [req EXCEPT ![c].old = index[req[c].key]]
      <4>1. req'[c].key = req[c].key /\ pc'[c] = "mark"
        BY <3>2 DEF TypeOK, Request, Goto
      <4>2. \A d \in Clients : d # c => req'[d] = req[d] /\ pc'[d] = pc[d]
        BY <3>2 DEF TypeOK, Goto
      <4> QED BY <2>1, <4>1, <4>2 DEF StepsOK, Saving
    <3> QED BY <2>3, <3>1, <3>2
  <2>7. QueueOK'
    BY <1>10, <2>1, <2>3, SameQueue DEF SaveStore, Return, queue
  <2> QED BY <2>5, <2>6, <2>7
<1>11. ASSUME NEW c \in Clients, Mark(c) PROVE TypeInv'
  <2>1. \A k \in DOMAIN free' : free'[k] \in Span
    BY <1>11 DEF Mark, MarkAsFree, TypeOK, Request
  <2>2. req' \in [Clients -> Request]
    BY <1>11, NoRequestType DEF Mark, Return, TypeOK
  <2>3. TypeOK'
    BY <1>11, <2>1, <2>2 DEF Mark, TypeOK, Goto, Return, Steps, Offsets, queue
  <2>4. StepsOK'
    BY <1>11 DEF Mark, StepsOK, Goto, Return, TypeOK, Saving
  <2>5. QueueOK'
    BY <1>11, SameQueue DEF Mark, Return, queue
  <2> QED BY <2>3, <2>4, <2>5
<1>12. ASSUME NEW c \in Clients, NEW k \in Keys, c \in Freers, FreeLookup(c, k)
       PROVE  TypeInv'
  <2>1. index[k] \in Span
    BY DEF TypeOK
  <2>2. req' \in [Clients -> Request]
    BY <1>12, <2>1, NoRequestType DEF FreeLookup, TypeOK, Request
  <2>3. TypeOK'
    BY <1>12, <2>2 DEF FreeLookup, TypeOK, Goto, Steps, Offsets, queue, store
  <2>4. StepsOK'
    BY <1>12 DEF FreeLookup, StepsOK, Goto, TypeOK, Saving, Writers, NoRequest
  <2>5. QueueOK'
    BY <1>12, SameQueue DEF FreeLookup, queue
  <2> QED BY <2>3, <2>4, <2>5
<1>13. ASSUME NEW c \in Clients, FreeRemove(c) PROVE TypeInv'
  <2>1. TypeOK'
    BY <1>13, NoSpanType DEF FreeRemove, TypeOK, Goto, Steps, Offsets, queue
  <2>2. StepsOK'
    BY <1>13 DEF FreeRemove, StepsOK, Goto, TypeOK, Saving
  <2>3. QueueOK'
    BY <1>13, SameQueue DEF FreeRemove, queue
  <2> QED BY <2>1, <2>2, <2>3
<1>14. ASSUME NEW c \in Clients, NEW k \in Keys, ReadLookup(c, k)
       PROVE  TypeInv'
  <2>1. index[k] \in Span
    BY DEF TypeOK
  <2>2. req' \in [Clients -> Request]
    BY <1>14, <2>1, NoRequestType DEF ReadLookup, TypeOK, Request
  <2>3. TypeOK'
    BY <1>14, <2>2 DEF ReadLookup, TypeOK, Goto, Steps, Offsets, queue, store
  <2>4. StepsOK'
    BY <1>14 DEF ReadLookup, StepsOK, Goto, TypeOK, Saving, Writers, NoRequest
  <2>5. QueueOK'
    BY <1>14, SameQueue DEF ReadLookup, queue
  <2> QED BY <2>3, <2>4, <2>5
<1>15. ASSUME NEW c \in Clients, ReadSend(c) PROVE TypeInv'
  <2>1. chan' \in Seq(Clients) /\ QueueOK'
    BY <1>15, EnqueueInv DEF ReadSend
  <2>2. TypeOK'
    BY <1>15, <2>1 DEF ReadSend, TypeOK, Goto, Steps, Offsets, store
  <2>3. StepsOK'
    BY <1>15 DEF ReadSend, StepsOK, Goto, TypeOK, Saving
  <2> QED BY <2>1, <2>2, <2>3
<1>16. ASSUME NEW c \in Clients, ReadGivesUp(c) \/ ReadReturn(c) PROVE TypeInv'
  <2>1. /\ pc[c] \in {"readAsk", "got"} /\ Return(c)
        /\ UNCHANGED <<store, queue>>
    BY <1>16 DEF ReadGivesUp, ReadReturn
  <2>2. req' \in [Clients -> Request]
    BY <2>1, NoRequestType DEF Return, TypeOK
  <2>3. TypeOK'
    BY <2>1, <2>2 DEF TypeOK, Goto, Return, Steps, Offsets, queue, store
  <2>4. StepsOK'
    BY <2>1 DEF StepsOK, Goto, Return, TypeOK, Saving
  <2>5. QueueOK'
    BY <2>1, SameQueue DEF Return, queue
  <2> QED BY <2>3, <2>4, <2>5
<1>17. ASSUME NEW c \in Clients, DirectRead(c) PROVE TypeInv'
  <2>1. CellsOf(req[c].span) \in Seq(Cell)
    BY CellsType DEF TypeOK, Request
  <2>2. \/ Return(c)
        \/ Goto(c, "got") /\ req' = [req EXCEPT ![c].got = CellsOf(req[c].span)]
    BY <1>17 DEF DirectRead
  <2>3. req' \in [Clients -> Request]
    <3>1. CASE Return(c)
      BY <3>1, NoRequestType DEF Return, TypeOK
    <3>2. CASE req' = [req EXCEPT ![c].got = CellsOf(req[c].span)]
      BY <2>1, <3>2 DEF TypeOK, Request
    <3> QED BY <2>2, <3>1, <3>2
  <2>4. TypeOK'
    BY <1>17, <2>2, <2>3
    DEF DirectRead, TypeOK, Goto, Return, Steps, Offsets, queue, store
  <2>5. StepsOK'
    BY <1>17, <2>2 DEF DirectRead, StepsOK, Goto, Return, TypeOK, Saving
  <2>6. QueueOK'
    BY <1>17, <2>2, SameQueue DEF DirectRead, Return, queue
  <2> QED BY <2>4, <2>5, <2>6
<1>18. ASSUME UNCHANGED vars PROVE TypeInv'
  BY <1>18 DEF vars, TypeOK, StepsOK, QueueOK, Offsets
<1> QED BY <1>1, <1>2, <1>3, <1>4, <1>5, <1>6, <1>7, <1>8, <1>9, <1>10,
           <1>11, <1>12, <1>13, <1>14, <1>15, <1>16, <1>17, <1>18
    DEF Next, Worker, Client

\* The whole state stays in its types, a saved pair stays in the workload, and
\* the channel of the file worker holds each waiting client once.
THEOREM Typing == Spec => []TypeInv
BY TypeInit, TypeStep, PTL DEF Spec

-----------------------------------------------------------------------------
(* No span reaches beyond the end of the file. *)

\* Carving leaves no span that ends later than those before.
LEMMA FreeWithin ==
    ASSUME NEW e \in Nat, \A k \in DOMAIN free : free[k] \in Span /\ free[k].end <= e,
           NEW s \in Span, NEW f \in SaveBlockCheck(free, s)
    PROVE  \A k \in DOMAIN f : f[k].end <= e
<1>1. CASE Covering(free, s) = {}
  BY <1>1 DEF SaveBlockCheck
<1>2. CASE Covering(free, s) # {}
  <2>1. PICK k \in Covering(free, s) : f = Carve(free, k, s)
    BY <1>2 DEF SaveBlockCheck
  <2>2. ASSUME NEW g, \A j \in DOMAIN g : g[j].end <= e,
               NEW j, NEW m \in Nat, NEW n \in Nat, n <= e
        PROVE  \A i \in DOMAIN Cut(g, j, m, n) : Cut(g, j, m, n)[i].end <= e
    BY <2>2 DEF Cut, MarkAsFree
  <2>3. /\ free[k] \in Span /\ free[k].end <= e
        /\ s.start <= e /\ s.start \in Nat /\ s.end \in Nat
        /\ free[k].start \in Nat /\ free[k].end \in Nat
        /\ s.start <= s.end
    BY <2>1 DEF Covering, Within, Span
  <2>4. \A j \in DOMAIN Unlist(free, k) : Unlist(free, k)[j].end <= e
    BY DEF Unlist
  <2> QED BY <2>1, <2>2, <2>3, <2>4 DEF Carve
<1> QED BY <1>1, <1>2

\* The spans that WithinFileInv speaks of are spans.
LEMMA SpansTyped ==
    ASSUME TypeInv
    PROVE  /\ eof \in Nat /\ MaxFile \in Nat
           /\ \A k \in Keys : index[k] \in Span /\ index[k].end \in Nat
           /\ \A k \in DOMAIN free : free[k] \in Span /\ free[k].end \in Nat
           /\ \A c \in Clients : /\ req[c].span \in Span /\ req[c].span.end \in Nat
                                 /\ req[c].old \in Span /\ req[c].old.end \in Nat
BY CapacityAssumption DEF TypeInv, TypeOK, Request, Span

\* The step of a client that keeps its spans, or drops them.
LEMMA KeepWithin ==
    ASSUME TypeInv, WithinFileInv, NEW c \in Clients, NEW step,
           Goto(c, step), pc[c] # "directAppend", step # "directAppend",
           req' \in [Clients -> Request],
           \A d \in Clients : /\ req'[d].span \in {req[d].span, NoSpan}
                              /\ req'[d].old \in {req[d].old, NoSpan}
                              /\ d # c => req'[d] = req[d],
           eof' = eof
    PROVE  /\ \A d \in Clients : pc'[d] # "directAppend" => req'[d].span.end <= eof'
           /\ \A d \in Clients : req'[d].old.end <= eof'
           /\ \A d \in Clients : pc'[d] = "directAppend" =>
                 req'[d].span.end <= eof' + Size[req'[d].val]
<1>1. \A d \in Clients : d # c => pc'[d] = pc[d]
  BY DEF Goto, TypeInv, TypeOK
<1>2. pc'[c] = step
  BY DEF Goto, TypeInv, TypeOK
<1>3. NoSpan.end <= eof
  BY SpansTyped DEF NoSpan
<1> QED BY <1>1, <1>2, <1>3 DEF WithinFileInv, WithinFile

\* At the start there are none of them.
LEMMA WithinInit == Init => WithinFileInv
BY CapacityAssumption DEF Init, WithinFileInv, WithinFile, NoRequest, NoSpan

\* Every step keeps the spans within the file, which never shrinks.
LEMMA WithinStep == TypeInv /\ TypeInv' /\ WithinFileInv /\ [Next]_vars => WithinFileInv'
<1> SUFFICES ASSUME TypeInv, TypeInv', WithinFileInv, [Next]_vars
             PROVE  WithinFileInv'
  OBVIOUS
<1>t. req' \in [Clients -> Request]
  BY DEF TypeInv, TypeOK
<1>1. ASSUME WorkerReceive PROVE WithinFileInv'
  <2>1. \A c \in Clients : pc'[c] = "directAppend" <=> pc[c] = "directAppend"
    <3>1. Head(chan) \in Clients /\ pc[Head(chan)] \in {"writeQueued", "readQueued"}
      BY <1>1 DEF WorkerReceive, TypeInv, TypeOK, QueueOK
    <3> QED BY <1>1, <3>1 DEF WorkerReceive, Goto, TypeInv, TypeOK
  <2> QED BY <1>1, <2>1 DEF WorkerReceive, WithinFileInv, WithinFile, store
<1>2. ASSUME WorkerStart PROVE WithinFileInv'
  <2>1. \A k \in DOMAIN free' : free'[k].end <= eof
    BY <1>2 DEF WorkerStart, Unlist, WithinFileInv, WithinFile
  <2> QED BY <1>2, <2>1 DEF WorkerStart, WithinFileInv, WithinFile
<1>3. ASSUME NEW c \in Clients, WorkerWrite(c) PROVE WithinFileInv'
  <2> DEFINE v == req[c].val
  <2>1. pc[c] = "writeTaken" /\ v \in Values /\ worker.cur \in Nat
    BY <1>3, WorkloadPair
    DEF WorkerWrite, NextAt, TypeInv, StepsOK, Saving, TypeOK, WorkerState
  <2>2. /\ eof <= eof' /\ eof' \in Nat
        /\ Fits(v, worker.cur) => worker.cur + Size[v] <= eof'
    BY <1>3, <2>1, WriteAtType DEF WorkerWrite, TypeInv, TypeOK
  <2>3. \A d \in Clients : d # c => pc'[d] = pc[d] /\ req'[d] = req[d]
    BY <1>3 DEF WorkerWrite, Goto, Return, TypeInv, TypeOK
  <2>4. /\ req'[c].old.end <= eof' /\ req'[c].span.end <= eof'
        /\ pc'[c] # "directAppend"
    <3>1. CASE Fits(v, worker.cur)
      <4>1. req'[c].span = SpanOf(worker.cur, v) /\ req'[c].old = req[c].old
            /\ pc'[c] = "written"
        BY <1>3, <3>1 DEF WorkerWrite, Goto, TypeInv, TypeOK, Request
      <4>2. SpanOf(worker.cur, v).end <= eof'
        BY <3>1, <2>1, <2>2, SpanOfType
      <4> QED BY <4>1, <4>2, <2>2, SpansTyped DEF WithinFileInv, WithinFile
    <3>2. CASE ~Fits(v, worker.cur)
      <4>1. req'[c] = NoRequest /\ pc'[c] = "idle"
        BY <1>3, <3>2 DEF WorkerWrite, Return, Goto, TypeInv, TypeOK
      <4> QED BY <4>1, <2>2 DEF NoRequest, NoSpan
    <3> QED BY <3>1, <3>2
  <2>5. index' = index /\ free' = free
    BY <1>3 DEF WorkerWrite
  <2>6. \A d \in Clients : pc'[d] = "directAppend" =>
            /\ d # c /\ Size[req[d].val] \in Nat
            /\ req[d].span.end <= eof + Size[req[d].val]
    BY <2>3, <2>4, WorkloadPair, SizePositive
    DEF WithinFileInv, TypeInv, StepsOK, Saving
  <2> QED BY <2>2, <2>3, <2>4, <2>5, <2>6, SpansTyped
      DEF WithinFileInv, WithinFile
<1>4. ASSUME NEW c \in Clients, WorkerCheck(c) \/ DirectCheck(c)
      PROVE  WithinFileInv'
  <2>1. /\ pc[c] \in {"written", "directWritten"} /\ Goto(c, "store")
        /\ free' \in SaveBlockCheck(free, req[c].span)
        /\ UNCHANGED <<disk, eof, index, req>>
    BY <1>4 DEF WorkerCheck, DirectCheck
  <2>2. \A k \in DOMAIN free' : free'[k].end <= eof
    BY <2>1, FreeWithin, SpansTyped DEF WithinFileInv, WithinFile
  <2> QED BY <1>t, <2>1, <2>2, KeepWithin DEF WithinFileInv, WithinFile
<1>5. ASSUME NEW c \in Clients, WorkerRead(c) PROVE WithinFileInv'
  <2>1. /\ pc[c] = "readTaken" /\ Goto(c, "got") /\ UNCHANGED store
        /\ req' = [req EXCEPT ![c].got = CellsOf(req[c].span)]
    BY <1>5 DEF WorkerRead, NextAt
  <2>2. \A d \in Clients : /\ req'[d].span = req[d].span
                           /\ req'[d].old = req[d].old
                           /\ d # c => req'[d] = req[d]
    BY <2>1 DEF TypeInv, TypeOK, Request
  <2> QED BY <1>t, <2>1, <2>2, KeepWithin DEF WithinFileInv, WithinFile, store
<1>6. ASSUME NEW c \in Clients, NEW w \in Workload, SaveSend(c, w[1], w[2])
      PROVE  WithinFileInv'
  <2>1. /\ pc[c] = "idle" /\ Goto(c, "writeQueued") /\ UNCHANGED store
        /\ req' = [req EXCEPT ![c] = [NoRequest EXCEPT !.key = w[1], !.val = w[2]]]
    BY <1>6 DEF SaveSend
  <2>2. \A d \in Clients : /\ req'[d].span \in {req[d].span, NoSpan}
                           /\ req'[d].old \in {req[d].old, NoSpan}
                           /\ d # c => req'[d] = req[d]
    BY <2>1 DEF TypeInv, TypeOK, NoRequest
  <2> QED BY <1>t, <2>1, <2>2, KeepWithin DEF WithinFileInv, WithinFile, store
<1>7. ASSUME NEW c \in Clients, NEW w \in Workload,
             DirectAllocate(c, w[1], w[2])
      PROVE  WithinFileInv'
  <2> DEFINE v == w[2]
             r(s) == [NoRequest EXCEPT !.key = w[1], !.val = v, !.span = s]
  <2>1. v \in Values /\ Size[v] \in Nat
    BY WorkloadMember, SizePositive
  <2>2. PICK o \in Nat :
           /\ req' = [req EXCEPT ![c] = r(SpanOf(o, v))]
           /\ \/ Goto(c, "directReuse") /\ o + Size[v] <= eof
              \/ Goto(c, "directAppend") /\ o = eof
    <3>1. \A k \in BestFit(free, Size[v]) :
             free[k].start \in Nat /\ free[k].start + Size[v] <= eof
      BY <2>1, SpansTyped
      DEF BestFit, Fitting, Length, Span, WithinFileInv, WithinFile
    <3> QED BY <1>7, <3>1, SpansTyped DEF DirectAllocate
  <2>3. /\ req'[c].span.end = o + Size[v] /\ req'[c].val = v
        /\ req'[c].old = NoSpan
    BY <2>1, <2>2, SpanOfType DEF TypeInv, TypeOK, NoRequest
  <2>4. \A d \in Clients : d # c => pc'[d] = pc[d] /\ req'[d] = req[d]
    BY <2>2 DEF Goto, TypeInv, TypeOK
  <2>5. /\ pc'[c] # "directAppend" => req'[c].span.end <= eof
        /\ pc'[c] = "directAppend" => req'[c].span.end <= eof + Size[v]
    <3>1. CASE Goto(c, "directReuse") /\ o + Size[v] <= eof
      <4>1. pc'[c] = "directReuse"
        BY <3>1 DEF Goto, TypeInv, TypeOK
      <4> QED BY <3>1, <4>1, <2>3
    <3>2. CASE Goto(c, "directAppend") /\ o = eof
      <4>1. pc'[c] = "directAppend"
        BY <3>2 DEF Goto, TypeInv, TypeOK
      <4> QED BY <3>2, <4>1, <2>1, <2>3, SpansTyped
    <3> QED BY <2>2, <3>1, <3>2
  <2>6. \A k \in DOMAIN free' : free'[k].end <= eof
    <3>1. free' = free \/ \E b : free' = Unlist(free, b)
      BY <1>7 DEF DirectAllocate
    <3> QED BY <3>1 DEF Unlist, WithinFileInv, WithinFile
  <2>7. index' = index /\ eof' = eof
    BY <1>7 DEF DirectAllocate
  <2> QED BY <2>3, <2>4, <2>5, <2>6, <2>7, SpansTyped
      DEF WithinFileInv, WithinFile, NoSpan
<1>8. ASSUME NEW c \in Clients, DirectWrite(c) PROVE WithinFileInv'
  <2> DEFINE v == req[c].val
             o == IF pc[c] = "directReuse" THEN req[c].span.start ELSE eof
  <2>1. pc[c] \in {"directReuse", "directAppend"} /\ v \in Values
    BY <1>8, WorkloadPair DEF DirectWrite, TypeInv, StepsOK, Saving
  <2>2. o \in Nat /\ Size[v] \in Nat
    BY <2>1, SpansTyped, SizePositive DEF Span
  <2>3. eof <= eof' /\ eof' \in Nat /\ (Fits(v, o) => o + Size[v] <= eof')
    BY <1>8, <2>1, <2>2, WriteAtType DEF DirectWrite, TypeInv, TypeOK
  <2>4. \A d \in Clients : d # c => pc'[d] = pc[d] /\ req'[d] = req[d]
    BY <1>8 DEF DirectWrite, Goto, Return, TypeInv, TypeOK
  <2>5. /\ req'[c].old.end <= eof' /\ req'[c].span.end <= eof'
        /\ pc'[c] # "directAppend"
    <3>1. CASE Fits(v, o)
      <4>1. req'[c] = req[c] /\ pc'[c] \in {"directWritten", "store"}
        BY <1>8, <3>1 DEF DirectWrite, Goto, TypeInv, TypeOK
      <4>2. req[c].span.end <= eof'
        BY <2>1, <2>2, <2>3, <3>1, SpansTyped DEF WithinFileInv, WithinFile
      <4> QED BY <4>1, <4>2, <2>3, SpansTyped DEF WithinFileInv, WithinFile
    <3>2. CASE ~Fits(v, o)
      <4>1. req'[c] = NoRequest /\ pc'[c] = "idle"
        BY <1>8, <3>2 DEF DirectWrite, Return, Goto, TypeInv, TypeOK
      <4> QED BY <4>1, <2>3 DEF NoRequest, NoSpan
    <3> QED BY <3>1, <3>2
  <2>6. index' = index /\ free' = free
    BY <1>8 DEF DirectWrite
  <2>7. \A d \in Clients : pc'[d] = "directAppend" =>
            /\ d # c /\ Size[req[d].val] \in Nat
            /\ req[d].span.end <= eof + Size[req[d].val]
    BY <2>4, <2>5, WorkloadPair, SizePositive
    DEF WithinFileInv, TypeInv, StepsOK, Saving
  <2> QED BY <2>3, <2>4, <2>5, <2>6, <2>7, SpansTyped
      DEF WithinFileInv, WithinFile
<1>9. ASSUME NEW c \in Clients, SaveStore(c) PROVE WithinFileInv'
  <2>1. pc[c] = "store" /\ req[c].key \in Keys
    BY <1>9, WorkloadPair DEF SaveStore, TypeInv, StepsOK, Saving
  <2>2. \A k \in Keys : index'[k].end <= eof
    BY <1>9, <2>1 DEF SaveStore, WithinFileInv, WithinFile, TypeInv, TypeOK
  <2>3. /\ req'[c].span \in {req[c].span, NoSpan}
        /\ req'[c].old \in {req[c].old, NoSpan, index[req[c].key]}
        /\ pc'[c] \in {"mark", "idle"}
    BY <1>9 DEF SaveStore, Return, Goto, NoRequest, TypeInv, TypeOK, Request
  <2>4. \A d \in Clients : d # c => pc'[d] = pc[d] /\ req'[d] = req[d]
    BY <1>9 DEF SaveStore, Return, Goto, TypeInv, TypeOK
  <2>5. UNCHANGED <<eof, free>>
    BY <1>9 DEF SaveStore
  <2> QED BY <2>1, <2>2, <2>3, <2>4, <2>5, SpansTyped
      DEF WithinFileInv, WithinFile, NoSpan
<1>10. ASSUME NEW c \in Clients, Mark(c) PROVE WithinFileInv'
  <2>1. pc[c] = "mark" /\ Return(c) /\ UNCHANGED <<eof, index>>
    BY <1>10 DEF Mark
  <2>2. \A k \in DOMAIN free' : free'[k].end <= eof
    BY <1>10 DEF Mark, MarkAsFree, WithinFileInv, WithinFile
  <2>3. \A d \in Clients : /\ req'[d].span \in {req[d].span, NoSpan}
                           /\ req'[d].old \in {req[d].old, NoSpan}
                           /\ d # c => req'[d] = req[d]
    BY <2>1 DEF Return, NoRequest, TypeInv, TypeOK
  <2> QED BY <1>t, <2>1, <2>2, <2>3, KeepWithin
      DEF WithinFileInv, WithinFile, Return
<1>11. ASSUME NEW c \in Clients, NEW k \in Keys,
              FreeLookup(c, k) \/ ReadLookup(c, k)
       PROVE  WithinFileInv'
  <2>1. UNCHANGED <<eof, index, free>> /\ index[k].end <= eof
    BY <1>11 DEF FreeLookup, ReadLookup, store, WithinFileInv, WithinFile
  <2>2. /\ req'[c].span \in {NoSpan, index[k]} /\ req'[c].old \in {NoSpan, index[k]}
        /\ pc'[c] \in {"remove", "readAsk"}
    BY <1>11 DEF FreeLookup, ReadLookup, Goto, NoRequest, TypeInv, TypeOK
  <2>3. \A d \in Clients : d # c => pc'[d] = pc[d] /\ req'[d] = req[d]
    BY <1>11 DEF FreeLookup, ReadLookup, Goto, TypeInv, TypeOK
  <2> QED BY <2>1, <2>2, <2>3, SpansTyped DEF WithinFileInv, WithinFile, NoSpan
<1>12. ASSUME NEW c \in Clients, FreeRemove(c) PROVE WithinFileInv'
  <2>1. /\ pc[c] = "remove" /\ Goto(c, "mark") /\ UNCHANGED <<eof, free, req>>
        /\ index' = [index EXCEPT ![req[c].key] = NoSpan]
    BY <1>12 DEF FreeRemove
  <2>2. \A k \in Keys : index'[k].end <= eof
    BY <2>1, SpansTyped DEF WithinFileInv, WithinFile, TypeInv, TypeOK, NoSpan
  <2> QED BY <1>t, <2>1, <2>2, KeepWithin DEF WithinFileInv, WithinFile
<1>13. ASSUME NEW c \in Clients, ReadSend(c) PROVE WithinFileInv'
  <2>1. pc[c] = "readAsk" /\ Goto(c, "readQueued") /\ UNCHANGED <<store, req>>
    BY <1>13 DEF ReadSend
  <2> QED BY <1>t, <2>1, KeepWithin DEF WithinFileInv, WithinFile, store
<1>14. ASSUME NEW c \in Clients, ReadGivesUp(c) \/ ReadReturn(c)
       PROVE  WithinFileInv'
  <2>1. pc[c] \in {"readAsk", "got"} /\ Return(c) /\ UNCHANGED store
    BY <1>14 DEF ReadGivesUp, ReadReturn
  <2>2. \A d \in Clients : /\ req'[d].span \in {req[d].span, NoSpan}
                           /\ req'[d].old \in {req[d].old, NoSpan}
                           /\ d # c => req'[d] = req[d]
    BY <2>1 DEF Return, NoRequest, TypeInv, TypeOK
  <2> QED BY <1>t, <2>1, <2>2, KeepWithin
      DEF WithinFileInv, WithinFile, Return, store
<1>15. ASSUME NEW c \in Clients, DirectRead(c) PROVE WithinFileInv'
  <2>1. pc[c] = "readAsk" /\ UNCHANGED store
    BY <1>15 DEF DirectRead
  <2>2. PICK step \in {"idle", "got"} : Goto(c, step)
    BY <1>15 DEF DirectRead, Return
  <2>3. \A d \in Clients : /\ req'[d].span \in {req[d].span, NoSpan}
                           /\ req'[d].old \in {req[d].old, NoSpan}
                           /\ d # c => req'[d] = req[d]
    BY <1>15 DEF DirectRead, Return, NoRequest, TypeInv, TypeOK, Request
  <2> QED BY <1>t, <2>1, <2>2, <2>3, KeepWithin
      DEF WithinFileInv, WithinFile, store
<1>16. ASSUME UNCHANGED vars PROVE WithinFileInv'
  BY <1>16 DEF vars, WithinFileInv, WithinFile
<1> QED BY <1>1, <1>2, <1>3, <1>4, <1>5, <1>6, <1>7, <1>8, <1>9, <1>10,
           <1>11, <1>12, <1>13, <1>14, <1>15, <1>16
    DEF Next, Worker, Client

\* The inductive form: beside the spans within the file there is only the one that
\* a direct append asked for and has not written, which ends where the file will.
THEOREM FileInvariant == Spec => []WithinFileInv
BY WithinInit, WithinStep, Typing, PTL DEF Spec

\* Every span that the index, the free list or a handler holds lies within the
\* file, for any number of concurrent clients: a read is never cut short.
THEOREM FileBounds == Spec => []WithinFile
<1>1. WithinFileInv => WithinFile
  BY DEF WithinFileInv
<1> QED BY <1>1, FileInvariant, PTL

-----------------------------------------------------------------------------
(* One writer. *)


\* The steps at which a client owns bytes of the file or changes who does.
Acting == {"writeTaken", "written", "store", "mark", "remove",
           "directReuse", "directAppend", "directWritten"}

\* Being apart is symmetric.
LEMMA ApartSym ==
    ASSUME NEW a, NEW b, Apart(a, b)
    PROVE  Apart(b, a)
BY DEF Apart

\* What lies within a span is apart from what the span is apart from.
LEMMA ApartWithin ==
    ASSUME NEW a \in Span, NEW b \in Span, NEW s \in Span, Apart(a, b), Within(s, a)
    PROVE  Apart(s, b)
BY DEF Apart, Within, Span

\* The empty span is apart from every other.
LEMMA NoSpanApart ==
    ASSUME NEW a \in Span
    PROVE  Apart(NoSpan, a) /\ Apart(a, NoSpan)
BY DEF Apart, NoSpan, Span

\* The end of the file is apart from all that lies within it.
LEMMA EndApart ==
    ASSUME NEW o \in Nat, NEW v \in Values, NEW s \in Span, s.end <= o
    PROVE  Apart(SpanOf(o, v), s)
BY SpanOfType DEF Apart

\* A write changes what no span apart from it holds.
LEMMA WriteKeeps ==
    ASSUME TypeInv, NEW v \in Values, NEW o \in Nat, WriteAt(v, o),
           NEW s \in Span, Apart(SpanOf(o, v), s), NEW u \in Values
    PROVE  Holds(disk', s, u) <=> Holds(disk, s, u)
<1>1. /\ \A i \in Offsets : i < o => disk'[i] = disk[i]
      /\ \A i \in Offsets : i >= o + Size[v] => disk'[i] = disk[i]
  BY WriteAtType DEF TypeInv, TypeOK
<1>2. Size[v] \in Nat /\ Size[u] \in Nat /\ MaxFile \in Nat
  BY SizePositive, CapacityAssumption
<1>3. s.start \in Nat /\ s.end \in Nat
  BY DEF Span
<1>4. s.end <= o \/ o + Size[v] <= s.start
  BY SpanOfType DEF Apart
<1>5. ASSUME s.end - s.start = Size[u], NEW i \in 1 .. Size[u],
             s.start + i - 1 \in Offsets
      PROVE  disk'[s.start + i - 1] = disk[s.start + i - 1]
  <2>1. s.start + i - 1 < o \/ s.start + i - 1 >= o + Size[v]
    BY <1>2, <1>3, <1>4, <1>5
  <2> QED BY <1>1, <1>5, <2>1
<1> QED BY <1>5 DEF Holds

\* A write that fits leaves its value where it went.
LEMMA WriteHolds ==
    ASSUME TypeInv, NEW v \in Values, NEW o \in Nat, WriteAt(v, o), Fits(v, o)
    PROVE  Holds(disk', SpanOf(o, v), v)
<1>1. Size[v] \in Nat /\ Size[v] > 0 /\ MaxFile \in Nat /\ o + Size[v] <= MaxFile
  BY SizePositive, CapacityAssumption DEF Fits
<1>2. ASSUME NEW i \in 1 .. Size[v]
      PROVE  o + i - 1 \in Offsets /\ disk'[o + i - 1] = <<v, i>>
  <2>1. o + i - 1 \in Offsets /\ o + i - 1 >= o /\ o + i - 1 < o + Size[v]
    BY <1>1 DEF Offsets
  <2>2. disk'[o + i - 1] = <<v, (o + i - 1) - o + 1>>
    BY <2>1 DEF WriteAt
  <2>3. (o + i - 1) - o + 1 = i
    OBVIOUS
  <2> QED BY <2>1, <2>2, <2>3
<1> QED BY <1>1, <1>2, SpanOfType DEF Holds

\* A span holds one value at most.
LEMMA HoldsOne ==
    ASSUME NEW d, NEW s, NEW u \in Values, NEW v \in Values,
           Holds(d, s, u), Holds(d, s, v)
    PROVE  u = v
<1>1. 1 \in 1 .. Size[u] /\ 1 \in 1 .. Size[v]
  BY SizePositive
<1>2. d[s.start + 1 - 1] = <<u, 1>> /\ d[s.start + 1 - 1] = <<v, 1>>
  BY <1>1 DEF Holds
<1> QED BY <1>2

\* While one client acts, no other does.
LEMMA Alone ==
    ASSUME TypeInv, SingleWriter, NEW c \in Clients, c \in Writers,
           NEW d \in Clients, d # c
    PROVE  pc[d] \notin Acting /\ pc[d] # "writeQueued"
BY DEF SingleWriter, TypeInv, StepsOK, Acting, Saving

\* With one writer no two clients act at the same time.
LEMMA ActsAlone ==
    ASSUME TypeInv, SingleWriter, NEW c \in Clients,
           pc[c] \in Acting \/ pc[c] = "writeQueued"
    PROVE  /\ c \in Writers
           /\ \A d \in Clients : d # c => pc[d] \notin Acting /\ pc[d] # "writeQueued"
<1>1. c \in Writers
  BY DEF TypeInv, StepsOK, Acting, Saving
<1> QED BY <1>1, Alone

\* The space stays divided after a step of the writer c that leaves it the span h.
LEMMA DividedAfter ==
    ASSUME NEW c \in Clients, TypeInv',
           \A d \in Clients : d # c => pc'[d] \notin Acting,
           Held(c)' \in Span,
           \A j, k \in Keys : j # k => Apart(index'[j], index'[k]),
           \A j, k \in DOMAIN free' : j # k => Apart(free'[j], free'[k]),
           \A j \in DOMAIN free', k \in Keys : Apart(free'[j], index'[k]),
           \A k \in Keys : Apart(Held(c)', index'[k]),
           \A k \in DOMAIN free' : Apart(Held(c)', free'[k])
    PROVE  SpaceApart'
<1>1. \A d \in Clients : d # c => Held(d)' = NoSpan
  BY DEF Held, Acting
<1>2. \A k \in Keys : index'[k] \in Span
  BY DEF TypeInv, TypeOK
<1>3. \A k \in DOMAIN free' : free'[k] \in Span
  BY DEF TypeInv, TypeOK
<1> QED BY <1>1, <1>2, <1>3, NoSpanApart DEF SpaceApart, LiveNotFree

\* A step of a reader, or one before a writer owns anything.
LEMMA Quiet ==
    ASSUME TypeInv, TypeInv', OneWriterInv, UNCHANGED store,
           \A d \in Clients : pc[d] \in Acting \/ pc'[d] \in Acting =>
               pc'[d] = pc[d] /\ req'[d] = req[d],
           \/ worker' = worker
           \/ worker' = Idle /\ \A d \in Clients : pc[d] \notin Writing
    PROVE  OneWriterInv'
<1>1. UNCHANGED <<disk, eof, index, free>>
  BY DEF store
<1>2. \A d \in Clients : pc[d] \in Acting \/ pc'[d] \in Acting =>
         pc'[d] = pc[d] /\ req'[d] = req[d]
  OBVIOUS
<1>3. CASE worker' = worker
  <2>1. WorkerOK'
    BY <1>1, <1>2, <1>3 DEF OneWriterInv, WorkerOK, Acting
  <2>2. WriterOK'
    BY <1>1, <1>2 DEF OneWriterInv, WriterOK, Acting
  <2>3. \A d \in Clients : Held(d)' = Held(d)
    BY <1>2, <1>3 DEF Held, Acting
  <2>4. SpaceApart'
    BY <1>1, <2>3 DEF OneWriterInv, SpaceApart, LiveNotFree
  <2>5. IndexPointsAtData'
    BY <1>1 DEF OneWriterInv, IndexPointsAtData
  <2> QED BY <2>1, <2>2, <2>4, <2>5 DEF OneWriterInv
<1>4. CASE worker' = Idle /\ \A d \in Clients : pc[d] \notin Writing
  <2>0. \A d \in Clients : pc'[d] \notin Writing
    BY <1>2, <1>4 DEF Writing, Acting
  <2>1. WorkerOK'
    BY <1>4, <2>0 DEF WorkerOK, Idle, Writing
  <2>2. WriterOK'
    BY <1>1, <1>2 DEF OneWriterInv, WriterOK, Acting
  <2>3. \A d \in Clients : Held(d)' = Held(d)
    BY <1>2, <1>4, <2>0 DEF Held, Acting, Writing
  <2>4. SpaceApart'
    BY <1>1, <2>3 DEF OneWriterInv, SpaceApart, LiveNotFree
  <2>5. IndexPointsAtData'
    BY <1>1 DEF OneWriterInv, IndexPointsAtData
  <2> QED BY <2>1, <2>2, <2>4, <2>5 DEF OneWriterInv
<1> QED BY <1>3, <1>4

\* The inductive step, one action at a time.
LEMMA StepReceive ==
    ASSUME TypeInv, TypeInv', SingleWriter, OneWriterInv, WorkerReceive
    PROVE  OneWriterInv'
<1> DEFINE c == Head(chan)
           v == req[c].val
<1>1. c \in Clients /\ pc[c] \in {"writeQueued", "readQueued"}
  BY DEF WorkerReceive, TypeInv, TypeOK, QueueOK
<1>2. UNCHANGED <<disk, eof, index, free, req>> /\ worker.mode = "collect"
  BY DEF WorkerReceive, store
<1>3. \A d \in Clients : d # c => pc'[d] = pc[d]
  BY <1>1 DEF WorkerReceive, Goto, TypeInv, TypeOK
<1>4. CASE pc[c] = "readQueued"
  <2>1. pc'[c] = "readTaken" /\ worker' = worker
    BY <1>1, <1>4 DEF WorkerReceive, Goto, TypeInv, TypeOK
  <2> QED BY <1>2, <1>3, <1>4, <2>1, Quiet DEF Acting, store
<1>5. CASE pc[c] = "writeQueued"
  <2>1. pc'[c] = "writeTaken"
    BY <1>1, <1>5 DEF WorkerReceive, Goto, TypeInv, TypeOK
  <2>2. \A d \in Clients : d # c => pc[d] \notin Acting
    BY <1>1, <1>5, ActsAlone
  <2>3. worker.total = 0 /\ v \in Values
    BY <1>1, <1>2, <1>5, <2>2, WorkloadPair
    DEF OneWriterInv, WorkerOK, Acting, TypeInv, StepsOK, Saving
  <2>4. worker'.mode = "collect" /\ worker'.total = Size[v]
    BY <1>2, <1>5, <2>3, SizePositive
    DEF WorkerReceive, TypeInv, TypeOK, WorkerState
  <2>5. WorkerOK'
    <3>1. \A d \in Clients : pc'[d] = "writeTaken" => d = c
      BY <1>3, <2>2 DEF Acting
    <3>2. \A d \in Clients : pc'[d] # "written"
      BY <1>3, <2>1, <2>2 DEF Acting
    <3>3. req' = req
      BY <1>2
    <3> QED BY <1>1, <2>1, <2>4, <3>1, <3>2, <3>3 DEF WorkerOK
  <2>6. WriterOK'
    BY <1>2, <1>3, <2>1 DEF OneWriterInv, WriterOK
  <2>7. \A d \in Clients : Held(d)' = Held(d)
    BY <1>2, <1>3, <1>5, <2>1, <2>2, <2>4 DEF Held, Acting
  <2>8. SpaceApart'
    BY <1>2, <2>7 DEF OneWriterInv, SpaceApart, LiveNotFree
  <2>9. IndexPointsAtData'
    BY <1>2 DEF OneWriterInv, IndexPointsAtData
  <2> QED BY <2>5, <2>6, <2>8, <2>9 DEF OneWriterInv
<1> QED BY <1>1, <1>4, <1>5

\* A block that leaves the free list is apart from the rest and from the index.
LEMMA UnlistApart ==
    ASSUME TypeInv, SpaceApart, NEW k \in DOMAIN free, NEW s \in Span,
           Within(s, free[k])
    PROVE  /\ \A i, j \in DOMAIN Unlist(free, k) :
                 i # j => Apart(Unlist(free, k)[i], Unlist(free, k)[j])
           /\ \A i \in DOMAIN Unlist(free, k), j \in Keys :
                 Apart(Unlist(free, k)[i], index[j])
           /\ \A j \in Keys : Apart(s, index[j])
           /\ \A j \in DOMAIN Unlist(free, k) : Apart(s, Unlist(free, k)[j])
<1>1. \A i \in DOMAIN Unlist(free, k) :
         i \in DOMAIN free /\ i # k /\ Unlist(free, k)[i] = free[i]
  BY DEF Unlist
<1>2. \A j \in Keys : index[j] \in Span
  BY SpansTyped
<1>3. \A j \in DOMAIN free : free[j] \in Span
  BY SpansTyped
<1>4. \A j \in Keys : Apart(s, index[j])
  BY <1>2, <1>3, ApartWithin DEF SpaceApart, LiveNotFree
<1>5. \A j \in DOMAIN free : j # k => Apart(s, free[j])
  BY <1>3, ApartWithin DEF SpaceApart
<1> QED BY <1>1, <1>4, <1>5 DEF SpaceApart, LiveNotFree

\* The worker takes up a save: the bytes come from the free list or the end of the file.
LEMMA StepStart ==
    ASSUME TypeInv, TypeInv', SingleWriter, WithinFile, OneWriterInv, WorkerStart
    PROVE  OneWriterInv'
<1>1. UNCHANGED <<disk, eof, index, pc, req>> /\ worker.mode = "collect"
  BY DEF WorkerStart
<1>2. \A d \in Clients : pc[d] # "written"
  BY <1>1 DEF OneWriterInv, WorkerOK
<1>3. WriterOK' /\ IndexPointsAtData'
  BY <1>1 DEF OneWriterInv, WriterOK, IndexPointsAtData
<1>4. PICK m \in {"reuse", "append"}, o \in Nat :
         /\ Begin(m, o)
         /\ m = "append" => o = eof
         /\ \/ \E k \in BestFit(free, worker.total) :
                  /\ worker.total > 0
                  /\ free' = Unlist(free, k)
                  /\ m = "reuse" => o = free[k].start
            \/ m = "append" /\ free' = free
  <2>1. eof \in Nat
    BY SpansTyped
  <2>2. \A k \in BestFit(free, worker.total) : free[k].start \in Nat
    BY SpansTyped DEF BestFit, Fitting, Span
  <2> QED BY <2>1, <2>2 DEF WorkerStart
<1>5. worker'.mode = m /\ worker'.cur = o
  BY <1>4 DEF Begin, TypeInv, TypeOK, WorkerState
<1>6. WorkerOK'
  BY <1>1, <1>4, <1>5 DEF WorkerOK
<1>7. SpaceApart'
  <2>1. CASE m = "append" /\ free' = free
    <3>1. \A d \in Clients : Held(d)' = Held(d)
      BY <1>1, <1>5, <2>1 DEF Held
    <3> QED BY <1>1, <2>1, <3>1 DEF OneWriterInv, SpaceApart, LiveNotFree
  <2>2. ASSUME NEW k \in BestFit(free, worker.total), worker.total > 0,
               free' = Unlist(free, k), m = "reuse" => o = free[k].start
        PROVE  SpaceApart'
    <3>1. k \in DOMAIN free /\ free[k] \in Span /\ Length(free[k]) >= worker.total
      BY <2>2, SpansTyped DEF BestFit, Fitting
    <3>2. PICK c \in Clients : pc[c] = "writeTaken"
      BY <1>1, <2>2 DEF OneWriterInv, WorkerOK, TypeInv, TypeOK, WorkerState
    <3>3. \A d \in Clients : d # c => pc'[d] \notin Acting
      BY <1>1, <3>2, ActsAlone DEF Acting
    <3>4. req[c].val \in Values /\ worker.total = Size[req[c].val]
      BY <1>1, <3>2, WorkloadPair
      DEF OneWriterInv, WorkerOK, TypeInv, StepsOK, Saving
    <3>5. CASE m = "reuse"
      <4> DEFINE h == SpanOf(o, req[c].val)
      <4>1. Held(c)' = h
        BY <1>1, <1>5, <3>2, <3>5 DEF Held
      <4>2. h \in Span /\ Within(h, free[k])
        BY <2>2, <3>1, <3>4, <3>5, SpanOfType, SizePositive DEF Within, Length, Span
      <4>3. SpaceApart /\ index' = index /\ h' = h
        BY <1>1, <1>4 DEF OneWriterInv
      <4> HIDE DEF h
      <4>4. /\ \A i, j \in DOMAIN free' : i # j => Apart(free'[i], free'[j])
            /\ \A i \in DOMAIN free', j \in Keys : Apart(free'[i], index'[j])
            /\ \A j \in Keys : Apart(h, index'[j])
            /\ \A j \in DOMAIN free' : Apart(h, free'[j])
        BY <2>2, <3>1, <4>2, <4>3, UnlistApart
      <4> QED BY <3>3, <4>1, <4>2, <4>3, <4>4, DividedAfter DEF SpaceApart, LiveNotFree
    <3>6. CASE m = "append"
      <4>1. Held(c)' = NoSpan
        BY <1>1, <1>5, <3>2, <3>6 DEF Held
      <4>2. Within(free[k], free[k])
        BY <3>1 DEF Within, Span
      <4>3. SpaceApart /\ index' = index
        BY <1>1 DEF OneWriterInv
      <4>4. /\ \A i, j \in DOMAIN free' : i # j => Apart(free'[i], free'[j])
            /\ \A i \in DOMAIN free', j \in Keys : Apart(free'[i], index'[j])
        BY <2>2, <3>1, <4>2, <4>3, UnlistApart
      <4>5. /\ \A j \in Keys : Apart(NoSpan, index'[j])
            /\ \A j \in DOMAIN free' : Apart(NoSpan, free'[j])
        BY NoSpanApart DEF TypeInv, TypeOK
      <4>6. \A i, j \in Keys : i # j => Apart(index'[i], index'[j])
        BY <4>3 DEF SpaceApart
      <4> QED BY <3>3, <4>1, <4>4, <4>5, <4>6, NoSpanType, DividedAfter
    <3> QED BY <3>5, <3>6
  <2> QED BY <1>4, <2>1, <2>2
<1> QED BY <1>3, <1>6, <1>7 DEF OneWriterInv

\* A write into space that nobody else owns keeps what the index points at.
LEMMA WriteElsewhere ==
    ASSUME TypeInv, OneWriterInv, UNCHANGED index,
           NEW v \in Values, NEW o \in Nat, WriteAt(v, o),
           \A k \in Keys : Apart(SpanOf(o, v), index[k])
    PROVE  IndexPointsAtData'
<1>1. \A k \in Keys, u \in Values :
         Holds(disk', index[k], u) <=> Holds(disk, index[k], u)
  BY WriteKeeps, SpansTyped
<1> QED BY <1>1 DEF OneWriterInv, IndexPointsAtData

\* It writes them.
LEMMA StepWrite ==
    ASSUME TypeInv, TypeInv', SingleWriter, WithinFile, OneWriterInv,
           NEW c \in Clients, WorkerWrite(c)
    PROVE  OneWriterInv'
<1> DEFINE v == req[c].val
           h == SpanOf(worker.cur, v)
<1>1. /\ pc[c] = "writeTaken" /\ worker.mode \in {"reuse", "append"}
      /\ WriteAt(v, worker.cur) /\ UNCHANGED <<index, free>>
  BY DEF WorkerWrite, NextAt, TypeInv, TypeOK, WorkerState
<1>2. v \in Values /\ worker.cur \in Nat
  BY <1>1, WorkloadPair DEF TypeInv, StepsOK, Saving, TypeOK, WorkerState
<1>3. \A d \in Clients : d # c => pc[d] \notin Acting /\ pc'[d] = pc[d]
  BY <1>1, ActsAlone DEF Acting, WorkerWrite, Goto, Return, TypeInv, TypeOK
<1>4. h \in Span
  BY <1>2, SpanOfType
<1>5. /\ \A k \in Keys : Apart(h, index[k])
      /\ \A k \in DOMAIN free : Apart(h, free[k])
  <2>1. CASE worker.mode = "reuse"
    <3>1. Held(c) = h
      BY <1>1, <2>1 DEF Held
    <3> QED BY <3>1 DEF OneWriterInv, SpaceApart
  <2>2. CASE worker.mode = "append"
    <3>1. worker.cur = eof
      BY <1>1, <2>2 DEF OneWriterInv, WorkerOK
    <3> QED BY <1>2, <3>1, EndApart, SpansTyped DEF WithinFile
  <2> QED BY <1>1, <2>1, <2>2
<1>6. IndexPointsAtData'
  BY <1>1, <1>2, <1>5, WriteElsewhere
<1>7. /\ SpaceApart
      /\ \A k \in DOMAIN free : free[k] \in Span
      /\ \A k \in Keys : index[k] \in Span
  BY SpansTyped DEF OneWriterInv
<1>8. CASE Fits(v, worker.cur)
  <2>1. /\ pc'[c] = "written" /\ req'[c].span = h /\ req'[c].val = v
        /\ worker'.mode = worker.mode
    BY <1>8 DEF WorkerWrite, Goto, TypeInv, TypeOK, Request, WorkerState
  <2>2. Holds(disk', h, v)
    BY <1>1, <1>2, <1>8, WriteHolds
  <2>3. WriterOK'
    BY <1>3, <2>1, <2>2 DEF WriterOK, Acting
  <2>4. WorkerOK'
    BY <1>1, <1>3, <2>1 DEF WorkerOK, Acting
  <2>5. Held(c)' = h
    BY <2>1 DEF Held
  <2>6. SpaceApart'
    BY <1>1, <1>3, <1>4, <1>5, <1>7, <2>5, DividedAfter DEF SpaceApart, LiveNotFree
  <2> QED BY <1>6, <2>3, <2>4, <2>6 DEF OneWriterInv
<1>9. CASE ~Fits(v, worker.cur)
  <2>1. pc'[c] = "idle"
    BY <1>9 DEF WorkerWrite, Return, Goto, TypeInv, TypeOK
  <2>2. \A d \in Clients : pc'[d] \notin Acting
    BY <1>3, <2>1 DEF Acting
  <2>3. WriterOK'
    BY <2>2 DEF WriterOK, Acting
  <2>4. \/ worker' = Idle
        \/ worker'.mode = worker.mode
    BY <1>9 DEF WorkerWrite, EndBatch, TypeInv, TypeOK, WorkerState
  <2>5. WorkerOK'
    BY <1>1, <2>2, <2>4 DEF WorkerOK, Acting, Idle
  <2>6. Held(c)' = NoSpan
    BY <2>1 DEF Held
  <2>7. SpaceApart'
    BY <1>1, <1>7, <2>2, <2>6, NoSpanApart, NoSpanType, DividedAfter
    DEF SpaceApart, LiveNotFree
  <2> QED BY <1>6, <2>3, <2>5, <2>7 DEF OneWriterInv
<1> QED BY <1>8, <1>9

\* SaveBlockCheck finds nothing to carve out of: GetBlock took the block whole.
LEMMA NothingToCarve ==
    ASSUME TypeInv, OneWriterInv, NEW c \in Clients,
           pc[c] \in {"written", "directWritten"}
    PROVE  SaveBlockCheck(free, req[c].span) = {free}
<1>1. req[c].val \in Values /\ Holds(disk, req[c].span, req[c].val)
  BY WorkloadPair DEF OneWriterInv, WriterOK, TypeInv, StepsOK, Saving
<1>2. req[c].span.start < req[c].span.end
  BY <1>1, SizePositive, SpansTyped DEF Holds, Span
<1>3. \A k \in DOMAIN free : Apart(req[c].span, free[k])
  BY DEF OneWriterInv, SpaceApart, Held
<1>4. \A k \in DOMAIN free : ~Within(req[c].span, free[k])
  BY <1>2, <1>3, SpansTyped DEF Apart, Within, Span
<1>5. Covering(free, req[c].span) = {}
  BY <1>4 DEF Covering
<1> QED BY <1>5 DEF SaveBlockCheck

\* The check of the free list after a write carves out what it has written.
LEMMA StepCheck ==
    ASSUME TypeInv, TypeInv', SingleWriter, OneWriterInv, NEW c \in Clients,
           WorkerCheck(c) \/ DirectCheck(c)
    PROVE  OneWriterInv'
<1>1. /\ pc[c] \in {"written", "directWritten"} /\ Goto(c, "store")
      /\ free' \in SaveBlockCheck(free, req[c].span)
      /\ UNCHANGED <<disk, eof, index, req>>
  BY DEF WorkerCheck, DirectCheck
<1>2. free' = free
  BY <1>1, NothingToCarve
<1>3. /\ pc'[c] = "store"
      /\ \A d \in Clients : d # c => pc[d] \notin Acting /\ pc'[d] = pc[d]
  BY <1>1, ActsAlone DEF Acting, Goto, TypeInv, TypeOK
<1>4. worker' = Idle \/ worker' = worker
  BY DEF WorkerCheck, DirectCheck, EndBatch, queue
<1>5. WorkerOK'
  <2>1. \A d \in Clients : pc'[d] # "writeTaken" /\ pc'[d] # "written"
    BY <1>3 DEF Acting
  <2>2. worker.mode = "collect" => worker.total = 0
    BY <1>1, <1>3 DEF OneWriterInv, WorkerOK, Acting
  <2> QED BY <1>4, <2>1, <2>2 DEF WorkerOK, Idle
<1>6. WriterOK'
  BY <1>1, <1>3 DEF OneWriterInv, WriterOK, Acting
<1>7. Held(c)' = req[c].span /\ Held(c) = req[c].span /\ req[c].span \in Span
  BY <1>1, <1>3, SpansTyped DEF Held
<1>8. SpaceApart'
  BY <1>1, <1>2, <1>3, <1>7, DividedAfter DEF OneWriterInv, SpaceApart, LiveNotFree
<1>9. IndexPointsAtData'
  BY <1>1 DEF OneWriterInv, IndexPointsAtData
<1> QED BY <1>5, <1>6, <1>8, <1>9 DEF OneWriterInv

\* The client stores the span in the index.
LEMMA StepStore ==
    ASSUME TypeInv, TypeInv', SingleWriter, OneWriterInv, NEW c \in Clients,
           SaveStore(c)
    PROVE  OneWriterInv'
<1> DEFINE k == req[c].key
           s == req[c].span
<1>1. /\ pc[c] = "store" /\ index' = [index EXCEPT ![k] = s]
      /\ UNCHANGED <<disk, eof, free, worker>>
  BY DEF SaveStore, queue
<1>2. k \in Keys /\ s \in Span /\ <<k, req[c].val>> \in Workload /\ req[c].val \in Values
  BY <1>1, WorkloadPair, SpansTyped DEF TypeInv, StepsOK, Saving
<1>3. \A d \in Clients : d # c => pc[d] \notin Acting /\ pc'[d] = pc[d]
  BY <1>1, ActsAlone DEF Acting, SaveStore, Return, Goto, TypeInv, TypeOK
<1>4. pc'[c] \in {"mark", "idle"} /\ (pc'[c] = "mark" => req'[c].old = index[k])
  BY DEF SaveStore, Return, Goto, TypeInv, TypeOK, Request
<1>5. Holds(disk, s, req[c].val)
  BY <1>1 DEF OneWriterInv, WriterOK
<1>6. Held(c) = s
  BY <1>1 DEF Held
<1>7. \A j \in Keys : index'[j] = IF j = k THEN s ELSE index[j]
  BY <1>1, <1>2 DEF TypeInv, TypeOK
<1>8. WorkerOK'
  BY <1>1, <1>3, <1>4 DEF OneWriterInv, WorkerOK, Acting
<1>9. WriterOK'
  BY <1>3, <1>4 DEF WriterOK, Acting
<1>10. IndexPointsAtData'
  BY <1>1, <1>2, <1>5, <1>7 DEF OneWriterInv, IndexPointsAtData
<1>11. /\ \A j \in Keys : Apart(s, index[j])
       /\ \A j \in DOMAIN free : Apart(s, free[j])
       /\ SpaceApart
  BY <1>6 DEF OneWriterInv, SpaceApart
<1>12. /\ \A i, j \in Keys : i # j => Apart(index'[i], index'[j])
       /\ \A i \in DOMAIN free', j \in Keys : Apart(free'[i], index'[j])
       /\ \A i, j \in DOMAIN free' : i # j => Apart(free'[i], free'[j])
  BY <1>1, <1>7, <1>11, ApartSym DEF SpaceApart, LiveNotFree
<1>13. SpaceApart'
  <2>1. CASE pc'[c] = "mark"
    <3>1. Held(c)' = index[k] /\ index[k] \in Span
      BY <1>2, <1>4, <2>1, SpansTyped DEF Held
    <3>2. /\ \A j \in Keys : Apart(index[k], index'[j])
          /\ \A j \in DOMAIN free' : Apart(index[k], free'[j])
      BY <1>1, <1>2, <1>7, <1>11, ApartSym DEF SpaceApart, LiveNotFree
    <3> QED BY <1>3, <1>12, <3>1, <3>2, DividedAfter
  <2>2. CASE pc'[c] = "idle"
    <3>1. Held(c)' = NoSpan
      BY <2>2 DEF Held
    <3>2. /\ \A j \in Keys : index'[j] \in Span
          /\ \A j \in DOMAIN free' : free'[j] \in Span
      BY DEF TypeInv, TypeOK
    <3> QED BY <1>3, <1>12, <3>1, <3>2, NoSpanApart, NoSpanType, DividedAfter
  <2> QED BY <1>4, <2>1, <2>2
<1> QED BY <1>8, <1>9, <1>10, <1>13 DEF OneWriterInv

\* It marks the old span free.
LEMMA StepMark ==
    ASSUME TypeInv, TypeInv', SingleWriter, OneWriterInv, NEW c \in Clients, Mark(c)
    PROVE  OneWriterInv'
<1> DEFINE h == req[c].old
<1>1. /\ pc[c] = "mark" /\ free' = MarkAsFree(free, req[c].key, h)
      /\ UNCHANGED <<disk, eof, index, worker>>
  BY DEF Mark, queue
<1>2. /\ pc'[c] = "idle"
      /\ \A d \in Clients : d # c => pc[d] \notin Acting /\ pc'[d] = pc[d]
  BY <1>1, ActsAlone DEF Acting, Mark, Return, Goto, TypeInv, TypeOK
<1>3. WorkerOK' /\ WriterOK' /\ IndexPointsAtData'
  BY <1>1, <1>2
  DEF OneWriterInv, WorkerOK, WriterOK, IndexPointsAtData, Acting
<1>4. Held(c) = h
  BY <1>1 DEF Held
<1>5. /\ \A j \in Keys : Apart(h, index[j])
      /\ \A j \in DOMAIN free : Apart(h, free[j])
      /\ SpaceApart
  BY <1>4 DEF OneWriterInv, SpaceApart
<1>6. \A j \in DOMAIN free' : \/ j = req[c].key /\ free'[j] = h
                              \/ j \in DOMAIN free /\ free'[j] = free[j]
  BY <1>1 DEF MarkAsFree
<1>7. /\ \A i, j \in Keys : i # j => Apart(index'[i], index'[j])
      /\ \A i \in DOMAIN free', j \in Keys : Apart(free'[i], index'[j])
  BY <1>1, <1>5, <1>6 DEF SpaceApart, LiveNotFree
<1>8. \A i, j \in DOMAIN free' : i # j => Apart(free'[i], free'[j])
  BY <1>5, <1>6, ApartSym DEF SpaceApart
<1>9. /\ Held(c)' = NoSpan
      /\ \A j \in Keys : index'[j] \in Span
      /\ \A j \in DOMAIN free' : free'[j] \in Span
  BY <1>2 DEF Held, TypeInv, TypeOK
<1>10. SpaceApart'
  BY <1>2, <1>7, <1>8, <1>9, NoSpanApart, NoSpanType, DividedAfter
<1> QED BY <1>3, <1>10 DEF OneWriterInv

\* A direct save takes its bytes from the free list or the end of the file.
LEMMA StepAllocate ==
    ASSUME TypeInv, TypeInv', SingleWriter, WithinFile, OneWriterInv,
           NEW c \in Clients, c \in DirectSavers, NEW w \in Workload,
           DirectAllocate(c, w[1], w[2])
    PROVE  OneWriterInv'
<1> DEFINE v == w[2]
           r(x) == [NoRequest EXCEPT !.key = w[1], !.val = v, !.span = x]
<1>1. v \in Values /\ Size[v] \in Nat /\ Size[v] > 0
  BY WorkloadMember, SizePositive
<1>2. pc[c] = "idle" /\ UNCHANGED <<disk, eof, index, worker>>
  BY DEF DirectAllocate, queue
<1>3. PICK o \in Nat :
         /\ req' = [req EXCEPT ![c] = r(SpanOf(o, v))]
         /\ \/ /\ Goto(c, "directReuse")
               /\ \E k \in BestFit(free, Size[v]) :
                     free' = Unlist(free, k) /\ o = free[k].start
            \/ /\ Goto(c, "directAppend") /\ o = eof
               /\ free' = free \/ \E k \in DOMAIN free : free' = Unlist(free, k)
  <2>1. eof \in Nat
    BY SpansTyped
  <2>2. \A k \in BestFit(free, Size[v]) : free[k].start \in Nat /\ k \in DOMAIN free
    BY SpansTyped DEF BestFit, Fitting, Span
  <2> QED BY <2>1, <2>2 DEF DirectAllocate
<1>4. req'[c].span = SpanOf(o, v) /\ req'[c].val = v /\ SpanOf(o, v).start = o
  BY <1>1, <1>3, SpanOfType DEF TypeInv, TypeOK, NoRequest
<1>5. /\ \A d \in Clients : d # c => pc[d] \notin Acting /\ pc'[d] = pc[d]
      /\ pc'[c] \in {"directReuse", "directAppend"}
  BY <1>3, Alone DEF Writers, Goto, TypeInv, TypeOK
<1>6. WorkerOK'
  BY <1>2, <1>5 DEF OneWriterInv, WorkerOK, Acting
<1>7. WriterOK'
  <2>1. pc'[c] = "directReuse" => req'[c].span = SpanOf(req'[c].span.start, req'[c].val)
    BY <1>4
  <2>2. pc'[c] = "directAppend" => req'[c].span = SpanOf(eof', req'[c].val)
    <3>1. CASE Goto(c, "directReuse")
      BY <3>1 DEF Goto, TypeInv, TypeOK
    <3>2. CASE o = eof
      BY <3>2, <1>2, <1>4
    <3> QED BY <1>3, <3>1, <3>2
  <2> QED BY <1>5, <2>1, <2>2 DEF WriterOK, Acting
<1>8. IndexPointsAtData'
  BY <1>2 DEF OneWriterInv, IndexPointsAtData
<1>9. SpaceApart /\ index' = index
  BY <1>2 DEF OneWriterInv
<1>10. \A i, j \in Keys : i # j => Apart(index'[i], index'[j])
  BY <1>9 DEF SpaceApart
<1>11. CASE /\ Goto(c, "directReuse")
            /\ \E k \in BestFit(free, Size[v]) :
                  free' = Unlist(free, k) /\ o = free[k].start
  <2>1. PICK k \in BestFit(free, Size[v]) : free' = Unlist(free, k) /\ o = free[k].start
    BY <1>11
  <2>2. k \in DOMAIN free /\ free[k] \in Span /\ Length(free[k]) >= Size[v]
    BY SpansTyped DEF BestFit, Fitting
  <2>3. SpanOf(o, v) \in Span /\ Within(SpanOf(o, v), free[k])
    BY <1>1, <2>1, <2>2, SpanOfType DEF Within, Length, Span
  <2>4. /\ \A i, j \in DOMAIN free' : i # j => Apart(free'[i], free'[j])
        /\ \A i \in DOMAIN free', j \in Keys : Apart(free'[i], index'[j])
        /\ \A j \in Keys : Apart(SpanOf(o, v), index'[j])
        /\ \A j \in DOMAIN free' : Apart(SpanOf(o, v), free'[j])
    BY <1>9, <2>1, <2>2, <2>3, UnlistApart
  <2>5. Held(c)' = SpanOf(o, v)
    BY <1>4, <1>11 DEF Held, Goto, TypeInv, TypeOK
  <2>6. SpaceApart'
    BY <1>5, <1>10, <2>3, <2>4, <2>5, DividedAfter
  <2> QED BY <1>6, <1>7, <1>8, <2>6 DEF OneWriterInv
<1>12. CASE /\ Goto(c, "directAppend")
            /\ free' = free \/ \E k \in DOMAIN free : free' = Unlist(free, k)
  <2>1. \A j \in DOMAIN free' : j \in DOMAIN free /\ free'[j] = free[j]
    BY <1>12 DEF Unlist
  <2>2. /\ \A i, j \in DOMAIN free' : i # j => Apart(free'[i], free'[j])
        /\ \A i \in DOMAIN free', j \in Keys : Apart(free'[i], index'[j])
    BY <1>9, <2>1 DEF SpaceApart, LiveNotFree
  <2>3. /\ Held(c)' = NoSpan
        /\ \A j \in Keys : index'[j] \in Span
        /\ \A j \in DOMAIN free' : free'[j] \in Span
    BY <1>12 DEF Held, Goto, TypeInv, TypeOK
  <2>4. SpaceApart'
    BY <1>5, <1>10, <2>2, <2>3, NoSpanApart, NoSpanType, DividedAfter
  <2> QED BY <1>6, <1>7, <1>8, <2>4 DEF OneWriterInv
<1> QED BY <1>3, <1>11, <1>12

\* It writes them.
LEMMA StepDirectWrite ==
    ASSUME TypeInv, TypeInv', SingleWriter, WithinFile, OneWriterInv,
           NEW c \in Clients, DirectWrite(c)
    PROVE  OneWriterInv'
<1> DEFINE v == req[c].val
           o == IF pc[c] = "directReuse" THEN req[c].span.start ELSE eof
           h == SpanOf(o, v)
<1>1. /\ pc[c] \in {"directReuse", "directAppend"} /\ WriteAt(v, o)
      /\ UNCHANGED <<index, free, worker>>
  BY DEF DirectWrite, queue
<1>2. v \in Values /\ o \in Nat
  BY <1>1, WorkloadPair, SpansTyped DEF TypeInv, StepsOK, Saving, Span
<1>3. \A d \in Clients : d # c => pc[d] \notin Acting /\ pc'[d] = pc[d]
  BY <1>1, ActsAlone DEF Acting, DirectWrite, Goto, Return, TypeInv, TypeOK
<1>4. h \in Span /\ h = req[c].span
  BY <1>1, <1>2, SpanOfType DEF OneWriterInv, WriterOK
<1>5. /\ \A k \in Keys : Apart(h, index[k])
      /\ \A k \in DOMAIN free : Apart(h, free[k])
  <2>1. CASE pc[c] = "directReuse"
    <3>1. Held(c) = h
      BY <1>4, <2>1 DEF Held
    <3> QED BY <3>1 DEF OneWriterInv, SpaceApart
  <2>2. CASE pc[c] = "directAppend"
    <3>1. o = eof
      BY <2>2
    <3> QED BY <1>2, <3>1, EndApart, SpansTyped DEF WithinFile
  <2> QED BY <1>1, <2>1, <2>2
<1>6. IndexPointsAtData'
  BY <1>1, <1>2, <1>5, WriteElsewhere
<1>7. /\ SpaceApart
      /\ \A k \in DOMAIN free : free[k] \in Span
      /\ \A k \in Keys : index[k] \in Span
  BY SpansTyped DEF OneWriterInv
<1>8. CASE Fits(v, o)
  <2>1. pc'[c] \in {"directWritten", "store"} /\ req'[c] = req[c]
    BY <1>8 DEF DirectWrite, Goto, TypeInv, TypeOK
  <2>2. Holds(disk', h, v)
    BY <1>1, <1>2, <1>8, WriteHolds
  <2>3. WriterOK'
    BY <1>3, <1>4, <2>1, <2>2 DEF WriterOK, Acting
  <2>4. WorkerOK'
    BY <1>1, <1>3, <2>1 DEF OneWriterInv, WorkerOK, Acting
  <2>5. Held(c)' = h
    BY <1>4, <2>1 DEF Held
  <2>6. SpaceApart'
    BY <1>1, <1>3, <1>4, <1>5, <1>7, <2>5, DividedAfter DEF SpaceApart, LiveNotFree
  <2> QED BY <1>6, <2>3, <2>4, <2>6 DEF OneWriterInv
<1>9. CASE ~Fits(v, o)
  <2>1. pc'[c] = "idle"
    BY <1>9 DEF DirectWrite, Return, Goto, TypeInv, TypeOK
  <2>2. \A d \in Clients : pc'[d] \notin Acting
    BY <1>3, <2>1 DEF Acting
  <2>3. WriterOK' /\ WorkerOK'
    BY <1>1, <1>3, <2>2 DEF OneWriterInv, WriterOK, WorkerOK, Acting
  <2>4. Held(c)' = NoSpan
    BY <2>1 DEF Held
  <2>5. SpaceApart'
    BY <1>1, <1>7, <2>2, <2>4, NoSpanApart, NoSpanType, DividedAfter
    DEF SpaceApart, LiveNotFree
  <2> QED BY <1>6, <2>3, <2>5 DEF OneWriterInv
<1> QED BY <1>8, <1>9

\* A free removes the entry, then marks its span.
LEMMA StepFree ==
    ASSUME TypeInv, TypeInv', SingleWriter, OneWriterInv, NEW c \in Clients,
           \/ \E k \in Keys : c \in Freers /\ FreeLookup(c, k)
           \/ FreeRemove(c)
    PROVE  OneWriterInv'
<1>1. CASE \E k \in Keys : c \in Freers /\ FreeLookup(c, k)
  <2>1. PICK k \in Keys : c \in Freers /\ FreeLookup(c, k)
    BY <1>1
  <2>2. /\ UNCHANGED <<disk, eof, index, free, worker>> /\ pc[c] = "idle"
        /\ pc'[c] = "remove" /\ req'[c].key = k /\ req'[c].old = index[k]
        /\ \A d \in Clients : d # c => /\ pc'[d] = pc[d] /\ req'[d] = req[d]
                                       /\ pc[d] \notin Acting
    BY <2>1, Alone
    DEF FreeLookup, Goto, TypeInv, TypeOK, NoRequest, store, queue, Writers
  <2>3. WorkerOK' /\ WriterOK' /\ IndexPointsAtData'
    BY <2>2 DEF OneWriterInv, WorkerOK, WriterOK, IndexPointsAtData, Acting
  <2>4. \A d \in Clients : Held(d)' = Held(d)
    BY <2>2 DEF Held, Acting
  <2>5. SpaceApart'
    BY <2>2, <2>4 DEF OneWriterInv, SpaceApart, LiveNotFree
  <2> QED BY <2>3, <2>5 DEF OneWriterInv
<1>2. CASE FreeRemove(c)
  <2> DEFINE k == req[c].key
  <2>1. /\ pc[c] = "remove" /\ index' = [index EXCEPT ![k] = NoSpan]
        /\ UNCHANGED <<disk, eof, free, worker, req>>
    BY <1>2 DEF FreeRemove, queue
  <2>2. /\ pc'[c] = "mark" /\ k \in Keys
        /\ \A d \in Clients : d # c => pc'[d] = pc[d] /\ pc[d] \notin Acting
    BY <1>2, <2>1, ActsAlone
    DEF FreeRemove, Goto, TypeInv, TypeOK, StepsOK, Acting
  <2>3. \A j \in Keys : index'[j] = IF j = k THEN NoSpan ELSE index[j]
    BY <2>1, <2>2 DEF TypeInv, TypeOK
  <2>4. WorkerOK' /\ WriterOK'
    BY <2>1, <2>2 DEF OneWriterInv, WorkerOK, WriterOK, Acting
  <2>5. IndexPointsAtData'
    BY <2>1, <2>3 DEF OneWriterInv, IndexPointsAtData
  <2>6. Held(c)' = req[c].old /\ req[c].old = index[k] /\ index[k] \in Span
    BY <2>1, <2>2, SpansTyped DEF Held, OneWriterInv, WriterOK
  <2>7. /\ SpaceApart
        /\ \A j \in DOMAIN free : free[j] \in Span
        /\ \A j \in Keys : index[j] \in Span
    BY SpansTyped DEF OneWriterInv
  <2>8. /\ \A i, j \in Keys : i # j => Apart(index'[i], index'[j])
        /\ \A i \in DOMAIN free', j \in Keys : Apart(free'[i], index'[j])
        /\ \A i, j \in DOMAIN free' : i # j => Apart(free'[i], free'[j])
    BY <2>1, <2>3, <2>7, NoSpanApart DEF SpaceApart, LiveNotFree
  <2>9. /\ \A j \in Keys : Apart(index[k], index'[j])
        /\ \A j \in DOMAIN free' : Apart(index[k], free'[j])
    BY <2>1, <2>2, <2>3, <2>7, NoSpanApart, ApartSym DEF SpaceApart, LiveNotFree
  <2>10. SpaceApart'
    BY <2>2, <2>6, <2>8, <2>9, DividedAfter
  <2> QED BY <2>4, <2>5, <2>10 DEF OneWriterInv
<1> QED BY <1>1, <1>2

\* At the start nothing is owned.
LEMMA OneWriterInit == Init => OneWriterInv
<1> SUFFICES ASSUME Init PROVE OneWriterInv
  OBVIOUS
<1>1. WorkerOK /\ WriterOK
  BY DEF Init, WorkerOK, WriterOK, Idle
<1>2. SpaceApart
  BY DEF Init, SpaceApart, LiveNotFree, Held, Apart, NoSpan
<1>3. IndexPointsAtData
  BY DEF Init, IndexPointsAtData
<1> QED BY <1>1, <1>2, <1>3 DEF OneWriterInv

\* The remaining actions change no span and no owner.
LEMMA StepQuiet ==
    ASSUME TypeInv, TypeInv', OneWriterInv, NEW c \in Clients,
           \/ WorkerRead(c)
           \/ \E w \in Workload : SaveSend(c, w[1], w[2])
           \/ \E k \in Keys : ReadLookup(c, k)
           \/ ReadSend(c) \/ ReadGivesUp(c) \/ DirectRead(c) \/ ReadReturn(c)
    PROVE  OneWriterInv'
<1>1. /\ pc[c] \notin Acting /\ pc'[c] \notin Acting /\ UNCHANGED store
      /\ \A d \in Clients : d # c => pc'[d] = pc[d] /\ req'[d] = req[d]
  BY DEF WorkerRead, NextAt, SaveSend, ReadLookup, ReadSend, ReadGivesUp,
         DirectRead, ReadReturn, Return, Goto, Acting, TypeInv, TypeOK
<1>2. \/ worker' = worker
      \/ worker' = Idle /\ \A d \in Clients : pc[d] \notin Writing
  BY DEF WorkerRead, EndBatch, SaveSend, ReadLookup, ReadSend, ReadGivesUp,
         DirectRead, ReadReturn, queue
<1> QED BY <1>1, <1>2, Quiet

\* Every step keeps the owners apart.
LEMMA OneWriterStep ==
    ASSUME TypeInv, TypeInv', SingleWriter, WithinFile, OneWriterInv, [Next]_vars
    PROVE  OneWriterInv'
<1>1. CASE UNCHANGED vars
  <2>1. UNCHANGED <<store, worker, pc, req>>
    BY <1>1 DEF vars, store
  <2> QED BY <2>1, Quiet
<1>2. CASE Next
  BY <1>2, StepReceive, StepStart, StepWrite, StepCheck, StepStore, StepMark,
     StepAllocate, StepDirectWrite, StepFree, StepQuiet
  DEF Next, Worker, Client
<1> QED BY <1>1, <1>2

\* The invariant that carries the two theorems below: what the worker and the
\* writer know at each of their steps, beside what is true of file and index.
THEOREM OneWriterInvariant ==
    ASSUME SingleWriter
    PROVE  Spec => []OneWriterInv
<1>1. TypeInv /\ TypeInv' /\ WithinFile /\ OneWriterInv /\ [Next]_vars
      => OneWriterInv'
  BY OneWriterStep
<1> QED BY <1>1, OneWriterInit, Typing, FileBounds, PTL DEF Spec

\* With one client that saves and frees, whatever the others read, no byte of the
\* file has two owners: no free block covers indexed data, and no save is given
\* bytes that a handler still holds.
THEOREM OneWriter ==
    ASSUME SingleWriter
    PROVE  Spec => []SpaceApart
<1>1. OneWriterInv => SpaceApart
  BY DEF OneWriterInv
<1> QED BY <1>1, OneWriterInvariant, PTL

\* With one client that saves and frees, every index entry points at a whole value
\* that was saved for its key, also while a later value of that key, or a value of
\* another key, is being written into space that was reused.
THEOREM PointsAtData ==
    ASSUME SingleWriter
    PROVE  Spec => []IndexPointsAtData
<1>1. OneWriterInv => IndexPointsAtData
  BY DEF OneWriterInv
<1> QED BY <1>1, OneWriterInvariant, PTL

-----------------------------------------------------------------------------
(* Refinement. *)

\* What the map says of the keys follows from the index and the file.
LEMMA ContentKept ==
    ASSUME UNCHANGED <<disk, index>>
    PROVE  UNCHANGED Content
BY DEF Content

\* A write that is apart from all spans of the index changes no content.
LEMMA ContentAfterWrite ==
    ASSUME TypeInv, UNCHANGED index,
           NEW v \in Values, NEW o \in Nat, WriteAt(v, o),
           \A k \in Keys : Apart(SpanOf(o, v), index[k])
    PROVE  UNCHANGED Content
<1>1. \A k \in Keys : ValuesAt(disk', index[k]) = ValuesAt(disk, index[k])
  BY WriteKeeps, SpansTyped DEF ValuesAt
<1> QED BY <1>1 DEF Content, ReadAs

\* Such is a write of the worker, with one writer,
LEMMA ContentOfWorkerWrite ==
    ASSUME TypeInv, WithinFile, OneWriterInv, NEW c \in Clients, WorkerWrite(c)
    PROVE  UNCHANGED Content
<1> DEFINE v == req[c].val
<1>1. /\ pc[c] = "writeTaken" /\ worker.mode \in {"reuse", "append"}
      /\ WriteAt(v, worker.cur) /\ UNCHANGED index
  BY DEF WorkerWrite, NextAt, TypeInv, TypeOK, WorkerState
<1>2. v \in Values /\ worker.cur \in Nat
  BY <1>1, WorkloadPair DEF TypeInv, StepsOK, Saving, TypeOK, WorkerState
<1>3. CASE worker.mode = "reuse"
  <2>1. Held(c) = SpanOf(worker.cur, v)
    BY <1>1, <1>3 DEF Held
  <2>2. \A k \in Keys : Apart(SpanOf(worker.cur, v), index[k])
    BY <2>1 DEF OneWriterInv, SpaceApart
  <2> QED BY <1>1, <1>2, <2>2, ContentAfterWrite
<1>4. CASE worker.mode = "append"
  <2>1. worker.cur = eof
    BY <1>1, <1>4 DEF OneWriterInv, WorkerOK
  <2>2. \A k \in Keys : Apart(SpanOf(worker.cur, v), index[k])
    BY <1>2, <2>1, EndApart, SpansTyped DEF WithinFile
  <2> QED BY <1>1, <1>2, <2>2, ContentAfterWrite
<1> QED BY <1>1, <1>3, <1>4

\* and one of a direct save.
LEMMA ContentOfDirectWrite ==
    ASSUME TypeInv, WithinFile, OneWriterInv, NEW c \in Clients, DirectWrite(c)
    PROVE  UNCHANGED Content
<1> DEFINE v == req[c].val
           o == IF pc[c] = "directReuse" THEN req[c].span.start ELSE eof
<1>1. /\ pc[c] \in {"directReuse", "directAppend"} /\ WriteAt(v, o)
      /\ UNCHANGED index
  BY DEF DirectWrite
<1>2. v \in Values /\ o \in Nat
  BY <1>1, WorkloadPair, SpansTyped DEF TypeInv, StepsOK, Saving, Span
<1>3. CASE pc[c] = "directReuse"
  <2>1. Held(c) = SpanOf(o, v)
    BY <1>3 DEF Held, OneWriterInv, WriterOK
  <2>2. \A k \in Keys : Apart(SpanOf(o, v), index[k])
    BY <2>1 DEF OneWriterInv, SpaceApart
  <2> QED BY <1>1, <1>2, <2>2, ContentAfterWrite
<1>4. CASE pc[c] = "directAppend"
  <2>1. o = eof
    BY <1>4
  <2>2. \A k \in Keys : Apart(SpanOf(o, v), index[k])
    BY <1>2, <2>1, EndApart, SpansTyped DEF WithinFile
  <2> QED BY <1>1, <1>2, <2>2, ContentAfterWrite
<1> QED BY <1>1, <1>3, <1>4

\* Storing the index entry is the step that saves, removing it the one that frees.
LEMMA ContentOfStore ==
    ASSUME TypeInv, OneWriterInv, NEW c \in Clients, SaveStore(c)
    PROVE  Map!Next
<1> DEFINE k == req[c].key
           v == req[c].val
           s == req[c].span
<1>1. /\ pc[c] = "store" /\ index' = [index EXCEPT ![k] = s] /\ disk' = disk
  BY DEF SaveStore
<1>2. k \in Keys /\ v \in Values
  BY <1>1, WorkloadPair DEF TypeInv, StepsOK, Saving
<1>3. Holds(disk, s, v)
  BY <1>1 DEF OneWriterInv, WriterOK
<1>4. s # NoSpan
  BY <1>2, <1>3, SizePositive DEF Holds, NoSpan
<1>5. ValuesAt(disk, s) = {v}
  BY <1>2, <1>3, HoldsOne DEF ValuesAt
<1>6. Decode({v}) = v
  BY DEF Decode
<1>7. \A j \in Keys : index'[j] = IF j = k THEN s ELSE index[j]
  BY <1>1, <1>2 DEF TypeInv, TypeOK
<1>8. ReadAs(disk, s) = v
  BY <1>4, <1>5, <1>6 DEF ReadAs
<1>9. \A j \in Keys : ReadAs(disk, index'[j])
                       = IF j = k THEN v ELSE ReadAs(disk, index[j])
  BY <1>7, <1>8
<1>10. Content' = [Content EXCEPT ![k] = v]
  BY <1>1, <1>2, <1>9 DEF Content
<1> QED BY <1>2, <1>10 DEF Map!Next, Map!Save

\* Removing an entry is a free of the map.
LEMMA ContentOfRemove ==
    ASSUME TypeInv, NEW c \in Clients, FreeRemove(c)
    PROVE  Map!Next
<1> DEFINE k == req[c].key
<1>1. k \in Keys /\ index' = [index EXCEPT ![k] = NoSpan] /\ disk' = disk
  BY DEF FreeRemove, TypeInv, StepsOK
<1>2. \A j \in Keys : index'[j] = IF j = k THEN NoSpan ELSE index[j]
  BY <1>1 DEF TypeInv, TypeOK
<1>3. ReadAs(disk, NoSpan) = Absent
  BY DEF ReadAs
<1>4. \A j \in Keys : ReadAs(disk, index'[j])
                       = IF j = k THEN Absent ELSE ReadAs(disk, index[j])
  BY <1>2, <1>3
<1>5. Content' = [Content EXCEPT ![k] = Absent]
  BY <1>1, <1>4 DEF Content
<1> QED BY <1>1, <1>5 DEF Map!Next, Map!Free

LEMMA MapInit == Init => Map!Init
BY DEF Init, Map!Init, Content, ReadAs

\* Any other step leaves what the keys are read as.
LEMMA MapStep ==
    ASSUME TypeInv, WithinFile, OneWriterInv, [Next]_vars
    PROVE  Map!Next \/ UNCHANGED Content
<1>1. CASE UNCHANGED vars
  BY <1>1, ContentKept DEF vars
<1>2. CASE \/ WorkerReceive \/ WorkerStart
           \/ \E c \in Clients : WorkerCheck(c) \/ WorkerRead(c)
  BY <1>2, ContentKept
  DEF WorkerReceive, WorkerStart, WorkerCheck, WorkerRead, store
<1>3. CASE \E c \in Clients : WorkerWrite(c)
  BY <1>3, ContentOfWorkerWrite
<1>4. CASE \E c \in Clients : Client(c)
  <2>1. PICK c \in Clients : Client(c)
    BY <1>4
  <2>2. CASE SaveStore(c)
    BY <2>2, ContentOfStore
  <2>3. CASE FreeRemove(c)
    BY <2>3, ContentOfRemove
  <2>4. CASE DirectWrite(c)
    BY <2>4, ContentOfDirectWrite
  <2>5. CASE ~(SaveStore(c) \/ FreeRemove(c) \/ DirectWrite(c))
    BY <2>1, <2>5, ContentKept
    DEF Client, SaveSend, DirectAllocate, DirectCheck, Mark, FreeLookup,
        ReadLookup, ReadSend, ReadGivesUp, DirectRead, ReadReturn, store
  <2> QED BY <2>2, <2>3, <2>4, <2>5
<1> QED BY <1>1, <1>2, <1>3, <1>4 DEF Next, Worker

\* A table with one writer implements the map: only the step that stores or removes
\* an index entry changes what is read, and only under that entry's key.
THEOREM Implements ==
    ASSUME SingleWriter
    PROVE  Spec => ImplementsMap
<1>1. TypeInv /\ WithinFile /\ OneWriterInv /\ [Next]_vars
      => Map!Next \/ UNCHANGED Content
  BY MapStep
<1>2. TypeInv /\ TypeInv' /\ WithinFile /\ OneWriterInv /\ [Next]_vars
      => OneWriterInv'
  BY OneWriterStep
<1> QED BY <1>1, <1>2, MapInit, OneWriterInit, Typing, FileBounds, PTL
    DEF Spec, ImplementsMap, Map!Spec

-----------------------------------------------------------------------------
(* Reads. *)

\* A read that is on its way has the span of some entry of its key.
ReadersOK ==
    \A c \in Clients : pc[c] \in Asking =>
        req[c].key \in Keys /\ req[c].span # NoSpan

LEMMA ReadersInit == Init => ReadersOK
BY DEF Init, ReadersOK, Asking

\* The step of one client leaves the others where they are.
LEMMA OthersStay ==
    ASSUME TypeInv, NEW c \in Clients, NEW d \in Clients, c # d,
           WorkerWrite(c) \/ WorkerCheck(c) \/ WorkerRead(c) \/ Client(c)
    PROVE  pc'[d] = pc[d] /\ req'[d] = req[d]
<1>1. pc \in [Clients -> Steps] /\ req \in [Clients -> Request]
  BY DEF TypeInv, TypeOK
<1>2. PICK s : Goto(c, s)
  BY DEF WorkerWrite, WorkerCheck, WorkerRead, Client, SaveSend, DirectAllocate,
         DirectWrite, DirectCheck, SaveStore, Mark, FreeLookup, FreeRemove, ReadLookup,
         ReadSend, ReadGivesUp, DirectRead, ReadReturn, Return
<1>3. req'[d] = req[d]
  BY <1>1
  DEF WorkerWrite, WorkerCheck, WorkerRead, Client, SaveSend, DirectAllocate,
      DirectWrite, DirectCheck, SaveStore, Mark, FreeLookup, FreeRemove, ReadLookup,
      ReadSend, ReadGivesUp, DirectRead, ReadReturn, Return
<1> QED BY <1>1, <1>2, <1>3 DEF Goto

\* And a receive moves the one client at the head of the channel.
LEMMA ReceiveMoves ==
    ASSUME TypeInv, WorkerReceive, NEW d \in Clients
    PROVE  /\ req' = req
           /\ \/ pc'[d] = pc[d]
              \/ pc[d] = "writeQueued" /\ pc'[d] = "writeTaken"
              \/ pc[d] = "readQueued" /\ pc'[d] = "readTaken"
<1> DEFINE c == Head(chan)
<1>1. c \in Clients /\ pc[c] \in {"writeQueued", "readQueued"} /\ req' = req
  <2>1. chan \in Seq(Clients) /\ chan # <<>>
    BY DEF WorkerReceive, TypeInv, TypeOK
  <2>2. c \in Clients /\ 1 \in DOMAIN chan /\ c = chan[1]
    BY <2>1
  <2> QED BY <2>2 DEF WorkerReceive, TypeInv, QueueOK
<1>2. \/ pc[c] = "writeQueued" /\ Goto(c, "writeTaken")
      \/ pc[c] = "readQueued" /\ Goto(c, "readTaken")
  BY <1>1 DEF WorkerReceive
<1> HIDE DEF c
<1> QED BY <1>1, <1>2 DEF Goto, TypeInv, TypeOK

\* What a step may do to a read: begin it with the span of an entry, leave it alone,
\* or answer it with the cells of its span.
LEMMA ReaderStep ==
    ASSUME TypeInv, [Next]_vars, NEW d \in Clients
    PROVE  /\ pc'[d] \in Asking =>
                 \/ pc[d] \in Asking /\ req'[d] = req[d]
                 \/ pc[d] = "idle"
                    /\ \E k \in Keys : /\ index[k] # NoSpan
                                       /\ req'[d].key = k /\ req'[d].span = index[k]
           /\ pc'[d] = "got" =>
                 \/ pc[d] = "got" /\ req'[d] = req[d]
                 \/ /\ pc[d] \in Asking
                    /\ req'[d].key = req[d].key
                    /\ req'[d].got = CellsOf(req[d].span)
<1> DEFINE Fine ==
             /\ pc'[d] \in Asking =>
                   \/ pc[d] \in Asking /\ req'[d] = req[d]
                   \/ pc[d] = "idle"
                      /\ \E k \in Keys : /\ index[k] # NoSpan
                                         /\ req'[d].key = k /\ req'[d].span = index[k]
             /\ pc'[d] = "got" =>
                   \/ pc[d] = "got" /\ req'[d] = req[d]
                   \/ /\ pc[d] \in Asking
                      /\ req'[d].key = req[d].key
                      /\ req'[d].got = CellsOf(req[d].span)
<1>1. pc \in [Clients -> Steps] /\ req \in [Clients -> Request]
  BY DEF TypeInv, TypeOK
<1>2. ASSUME pc'[d] = pc[d], req'[d] = req[d] PROVE Fine
  BY <1>2
<1>3. ASSUME pc'[d] \notin Asking, pc'[d] # "got" PROVE Fine
  BY <1>3
<1>4. CASE WorkerReceive
  BY <1>4, ReceiveMoves DEF Asking
<1>5. CASE WorkerStart \/ UNCHANGED vars
  BY <1>2, <1>5 DEF WorkerStart, vars
<1>6. ASSUME NEW c \in Clients, c # d,
             WorkerWrite(c) \/ WorkerCheck(c) \/ WorkerRead(c) \/ Client(c)
      PROVE  Fine
  BY <1>2, <1>6, OthersStay
<1>7. CASE WorkerRead(d) \/ DirectRead(d)
  <2>1. pc[d] \in Asking
    BY <1>7 DEF WorkerRead, DirectRead, NextAt, Asking
  <2>2. \/ pc'[d] = "idle"
        \/ req' = [req EXCEPT ![d].got = CellsOf(req[d].span)] /\ pc'[d] = "got"
    BY <1>1, <1>7 DEF WorkerRead, DirectRead, Goto, Return
  <2>3. req'[d] = [req[d] EXCEPT !.got = CellsOf(req[d].span)] =>
           req'[d].key = req[d].key /\ req'[d].got = CellsOf(req[d].span)
    BY <1>1 DEF Request
  <2> QED BY <1>1, <1>3, <2>1, <2>2, <2>3 DEF Asking
<1>8. CASE ReadSend(d)
  BY <1>1, <1>8 DEF ReadSend, Goto, Asking
<1>9. CASE \E k \in Keys : ReadLookup(d, k)
  <2>1. PICK k \in Keys : ReadLookup(d, k)
    BY <1>9
  <2>2. pc[d] = "idle" /\ pc'[d] = "readAsk" /\ index[k] # NoSpan
        /\ req'[d] = [NoRequest EXCEPT !.key = k, !.span = index[k]]
    BY <1>1, <2>1 DEF ReadLookup, Goto
  <2> QED BY <2>2 DEF NoRequest
<1>10. ASSUME WorkerWrite(d) \/ WorkerCheck(d) \/ Client(d),
              ~(ReadSend(d) \/ DirectRead(d) \/ \E k \in Keys : ReadLookup(d, k))
       PROVE  Fine
  <2>1. PICK s : Goto(d, s) /\ s \notin Asking /\ s # "got"
    BY <1>10
    DEF WorkerWrite, WorkerCheck, Client, SaveSend, DirectAllocate, DirectWrite,
        DirectCheck, SaveStore, Mark, FreeLookup, FreeRemove, ReadGivesUp, ReadReturn,
        Return, Asking
  <2> QED BY <1>1, <1>3, <2>1 DEF Goto
<1> QED BY <1>4, <1>5, <1>6, <1>7, <1>8, <1>9, <1>10 DEF Next, Worker

LEMMA ReadersStep == TypeInv /\ ReadersOK /\ [Next]_vars => ReadersOK'
BY ReaderStep DEF ReadersOK

\* The cells of a span that holds a value are its bytes.
LEMMA CellsHeld ==
    ASSUME NEW s, NEW v \in Values, Holds(disk, s, v)
    PROVE  CellsOf(s) = Enc(v)
<1>1. s.end - s.start = Size[v]
  BY DEF Holds
<1>2. \A i \in 1 .. Size[v] : s.start + i - 1 \in Offsets /\ disk[s.start + i - 1] = <<v, i>>
  BY DEF Holds
<1> QED BY <1>1, <1>2 DEF CellsOf, Enc

\* A read whose key still has the span that was looked up, when the bytes are read,
\* answers with the value that the table maps the key to, for any number of readers
\* beside one writer, through the worker or around it.
THEOREM ReadsAnswered ==
    ASSUME SingleWriter
    PROVE  Spec => ReadsCurrent
<1> DEFINE Right(c) ==
             /\ pc[c] \in Asking /\ pc'[c] = "got"
             /\ index[req[c].key] = req[c].span
             => \E v \in Values :
                   /\ <<req[c].key, v>> \in Workload
                   /\ Content[req[c].key] = v
                   /\ req'[c].got = Enc(v)
<1>1. ASSUME TypeInv, OneWriterInv, ReadersOK, [Next]_vars PROVE \A c \in Clients : Right(c)
  <2> SUFFICES ASSUME NEW c \in Clients, pc[c] \in Asking, pc'[c] = "got",
                      index[req[c].key] = req[c].span
               PROVE  \E v \in Values :
                         /\ <<req[c].key, v>> \in Workload
                         /\ Content[req[c].key] = v
                         /\ req'[c].got = Enc(v)
    OBVIOUS
  <2> DEFINE k == req[c].key
  <2>1. k \in Keys /\ index[k] # NoSpan
    BY <1>1 DEF ReadersOK
  <2>2. PICK v \in Values : <<k, v>> \in Workload /\ Holds(disk, index[k], v)
    BY <1>1, <2>1 DEF OneWriterInv, IndexPointsAtData
  <2>3. Content[k] = v
    <3>1. ValuesAt(disk, index[k]) = {v}
      BY <2>2, HoldsOne DEF ValuesAt
    <3>2. Decode({v}) = v
      BY DEF Decode
    <3> QED BY <2>1, <3>1, <3>2 DEF Content, ReadAs
  <2>4. CellsOf(index[k]) = Enc(v)
    BY <2>2, CellsHeld
  <2>5. req'[c].got = CellsOf(req[c].span)
    BY <1>1, ReaderStep DEF Asking
  <2> QED BY <2>2, <2>3, <2>4, <2>5
<1>2. TypeInv /\ OneWriterInv /\ ReadersOK /\ [Next]_vars => \A c \in Clients : Right(c)
  BY <1>1
<1>3. Spec => []ReadersOK
  BY ReadersInit, ReadersStep, Typing, PTL DEF Spec
<1>4. Spec => [][\A c \in Clients : Right(c)]_vars
  <2> HIDE DEF Right
  <2> QED BY <1>2, <1>3, Typing, OneWriterInvariant, PTL DEF Spec
<1> QED BY <1>4 DEF ReadsCurrent

-----------------------------------------------------------------------------
(* Reads beside a writer whose MarkAsFree waits for them. *)

\* The steps that change the index.
LEMMA WhoStores ==
    ASSUME Next
    PROVE  UNCHANGED index \/ \E c \in Clients : SaveStore(c) \/ FreeRemove(c)
BY DEF Next, Worker, Client, store, WorkerReceive, WorkerStart, WorkerWrite,
       WorkerCheck, WorkerRead, SaveSend, Mark, DirectAllocate, DirectWrite,
       DirectCheck, FreeLookup, ReadLookup, ReadSend, ReadGivesUp, DirectRead,
       ReadReturn

\* While a client is about to free what it took out of the index, neither the index
\* nor the file changes, and only the freeing ends that.
LEMMA MarkPending ==
    ASSUME TypeInv, SingleWriter, [Next]_vars,
           NEW w \in Clients, pc[w] = "mark"
    PROVE  /\ disk' = disk /\ index' = index
           /\ pc'[w] = "mark" \/ Mark(w)
<1>1. /\ \A d \in Clients : d # w => pc[d] \notin Acting
      /\ pc \in [Clients -> Steps]
  BY ActsAlone DEF Acting, TypeInv, TypeOK
<1>2. ASSUME NEW c \in Clients, WorkerWrite(c) \/ DirectWrite(c) \/ SaveStore(c) \/ FreeRemove(c)
      PROVE  FALSE
  <2>1. pc[c] \in Acting /\ pc[c] # "mark"
    BY <1>2 DEF WorkerWrite, NextAt, DirectWrite, SaveStore, FreeRemove, Acting
  <2> QED BY <1>1, <2>1
<1>3. CASE UNCHANGED vars
  BY <1>3 DEF vars, store
<1>4. CASE WorkerReceive
  BY <1>4, ReceiveMoves DEF WorkerReceive, store
<1>5. CASE WorkerStart
  BY <1>5 DEF WorkerStart
<1>6. ASSUME NEW c \in Clients, WorkerCheck(c) \/ WorkerRead(c) \/ Client(c), ~Mark(c)
      PROVE  disk' = disk /\ index' = index /\ pc'[w] = "mark"
  <2>1. /\ disk' = disk /\ index' = index
        /\ \E s : Goto(c, s)
        /\ pc[c] # "mark"
    BY <1>2, <1>6
    DEF WorkerCheck, WorkerRead, NextAt, Client, SaveSend, DirectAllocate, DirectCheck,
        FreeLookup, ReadLookup, ReadSend, ReadGivesUp, DirectRead, ReadReturn, Return,
        store
  <2> QED BY <1>1, <2>1 DEF Goto
<1>7. ASSUME NEW c \in Clients, Mark(c)
      PROVE  disk' = disk /\ index' = index /\ Mark(w)
  <2>1. pc[c] = "mark" /\ disk' = disk /\ index' = index
    BY <1>7 DEF Mark
  <2>2. c = w
    BY <1>1, <2>1 DEF Acting
  <2> QED BY <1>7, <2>1, <2>2
<1> QED BY <1>2, <1>3, <1>4, <1>5, <1>6, <1>7 DEF Next, Worker

\* An entry that a step takes from a key is about to be freed, in the same file.
LEMMA EntryGoes ==
    ASSUME TypeInv, TypeInv', OneWriterInv, [Next]_vars,
           NEW k \in Keys, index[k] # NoSpan, index'[k] # index[k]
    PROVE  disk' = disk /\ \E w \in Clients : pc'[w] = "mark"
<1>1. /\ pc \in [Clients -> Steps] /\ index \in [Keys -> Span]
  BY DEF TypeInv, TypeOK
<1>2. Next /\ ~(UNCHANGED index)
  BY DEF vars, store
<1>3. PICK c \in Clients : SaveStore(c) \/ FreeRemove(c)
  BY <1>2, WhoStores
<1>4. CASE SaveStore(c)
  <2>1. disk' = disk /\ k = req[c].key /\ index'[k] = req[c].span
    BY <1>1, <1>4 DEF SaveStore
  <2>2. Goto(c, "mark")
    BY <1>4, <2>1 DEF SaveStore
  <2> QED BY <1>1, <2>1, <2>2 DEF Goto
<1>5. CASE FreeRemove(c)
  BY <1>1, <1>5 DEF FreeRemove, Goto
<1> QED BY <1>3, <1>4, <1>5

\* What a read that has not been spoiled would find now.
LEMMA ReaderFinds ==
    ASSUME OneWriterInv, ReadersOK, Unspoiled, NEW c \in Clients, pc[c] \in Asking
    PROVE  \E v \in Values :
               <<req[c].key, v>> \in Workload /\ Holds(disk, req[c].span, v)
<1>1. req[c].key \in Keys /\ req[c].span # NoSpan
  BY DEF ReadersOK
<1> QED BY <1>1 DEF Unspoiled, OneWriterInv, IndexPointsAtData

\* Its span stays the one of its key, or nothing is written.
LEMMA SpanStays ==
    ASSUME SingleWriter, TypeInv, TypeInv', OneWriterInv, ReadersOK, Unspoiled,
           [PatientNext]_vars,
           NEW c \in Clients, pc[c] \in Asking, pc'[c] \in Asking, req'[c] = req[c]
    PROVE  \/ index'[req[c].key] = req[c].span
           \/ /\ \E w \in Clients : pc'[w] = "mark"
              /\ disk' = disk
<1> DEFINE k == req[c].key
<1>1. k \in Keys /\ req[c].span # NoSpan /\ [Next]_vars
  BY DEF ReadersOK, PatientNext
<1>2. CASE index[k] = req[c].span
  BY <1>1, <1>2, EntryGoes
<1>3. CASE \E w \in Clients : pc[w] = "mark"
  <2>1. PICK w \in Clients : pc[w] = "mark"
    BY <1>3
  <2>2. disk' = disk /\ (pc'[w] = "mark" \/ Mark(w))
    BY <1>1, <2>1, MarkPending
  <2>3. Mark(w) => UNCHANGED vars
    BY DEF PatientNext
  <2> QED BY <2>1, <2>2, <2>3 DEF vars
<1> QED BY <1>2, <1>3 DEF Unspoiled

\* The inductive step: a read that comes to answer found a value of its key.
LEMMA UnspoiledStep ==
    ASSUME SingleWriter, TypeInv, TypeInv', OneWriterInv, OneWriterInv', ReadersOK,
           Unspoiled, ReadsOfKey, [PatientNext]_vars
    PROVE  Unspoiled' /\ ReadsOfKey'
<1>1. [Next]_vars
  BY DEF PatientNext
<1>2. \A c \in Clients : pc[c] \in Asking =>
         \E v \in Values :
             <<req[c].key, v>> \in Workload /\ Holds(disk, req[c].span, v)
  BY ReaderFinds
<1>3. \A c \in Clients : pc[c] \in Asking /\ pc'[c] \in Asking /\ req'[c] = req[c] =>
         \/ index'[req[c].key] = req[c].span
         \/ /\ \E w \in Clients : pc'[w] = "mark"
            /\ disk' = disk
  BY SpanStays
<1>4. Unspoiled'
  <2> SUFFICES ASSUME NEW c \in Clients, pc'[c] \in Asking
               PROVE  \/ index'[req'[c].key] = req'[c].span
                      \/ /\ \E w \in Clients : pc'[w] = "mark"
                         /\ \E v \in Values : /\ <<req'[c].key, v>> \in Workload
                                              /\ Holds(disk', req'[c].span, v)
    BY DEF Unspoiled
  <2>1. CASE pc[c] \in Asking /\ req'[c] = req[c]
    BY <1>2, <1>3, <2>1
  <2>2. ASSUME NEW k \in Keys, index[k] # NoSpan,
               req'[c].key = k, req'[c].span = index[k]
        PROVE  \/ index'[k] = index[k]
               \/ /\ \E w \in Clients : pc'[w] = "mark"
                  /\ \E v \in Values : /\ <<k, v>> \in Workload
                                       /\ Holds(disk', index[k], v)
    <3>1. PICK v \in Values : <<k, v>> \in Workload /\ Holds(disk, index[k], v)
      BY <2>2 DEF OneWriterInv, IndexPointsAtData
    <3> QED BY <1>1, <2>2, <3>1, EntryGoes
  <2> QED BY <1>1, <2>1, <2>2, ReaderStep
<1>5. ReadsOfKey'
  <2> SUFFICES ASSUME NEW c \in Clients, pc'[c] = "got"
               PROVE  \E v \in Values :
                          <<req'[c].key, v>> \in Workload /\ req'[c].got = Enc(v)
    BY DEF ReadsOfKey
  <2>1. CASE pc[c] = "got" /\ req'[c] = req[c]
    BY <2>1 DEF ReadsOfKey
  <2>2. CASE /\ pc[c] \in Asking
             /\ req'[c].key = req[c].key
             /\ req'[c].got = CellsOf(req[c].span)
    <3>1. PICK v \in Values :
             <<req[c].key, v>> \in Workload /\ Holds(disk, req[c].span, v)
      BY <1>2, <2>2
    <3> QED BY <2>2, <3>1, CellsHeld
  <2> QED BY <1>1, <2>1, <2>2, ReaderStep
<1> QED BY <1>4, <1>5

LEMMA PatientReads ==
    ASSUME SingleWriter
    PROVE  PatientSpec => [](TypeInv /\ WithinFile /\ OneWriterInv /\ ReadersOK
                            /\ Unspoiled /\ ReadsOfKey)
<1>1. Init => Unspoiled /\ ReadsOfKey
  BY DEF Init, Unspoiled, ReadsOfKey, Asking
<1>2. SingleWriter /\ TypeInv /\ TypeInv' /\ OneWriterInv /\ OneWriterInv' /\ ReadersOK
      /\ Unspoiled /\ ReadsOfKey /\ [PatientNext]_vars
      => Unspoiled' /\ ReadsOfKey'
  BY UnspoiledStep
<1>3. [PatientNext]_vars => [Next]_vars
  BY DEF PatientNext
<1>4. Spec => [](TypeInv /\ WithinFile /\ OneWriterInv /\ ReadersOK)
  BY ReadersInit, ReadersStep, Typing, FileBounds, OneWriterInvariant, PTL DEF Spec
<1>5. PatientSpec => [](TypeInv /\ WithinFile /\ OneWriterInv /\ ReadersOK)
  BY <1>3, <1>4, PTL DEF PatientSpec, Spec
<1> QED BY <1>1, <1>2, <1>5, PTL DEF PatientSpec

\* What spoils a read of AsyncRead is MarkAsFree between its look-up and its turn,
\* and nothing else: if a single writer freed a span only when no read is on its
\* way, every read would answer with one whole value of its key, for any number of
\* readers.
THEOREM PatientReadsRight ==
    ASSUME SingleWriter
    PROVE  PatientSpec => []ReadsOfKey
BY PatientReads, PTL

-----------------------------------------------------------------------------
(* Refinement of the map with reads. *)

Reading == Asking \cup {"got"}

\* A read begins with its look-up,
LEMMA ReadBegins ==
    ASSUME TypeInv, Next, NEW c \in Clients, pc[c] \notin Reading, pc'[c] \in Reading
    PROVE  \E k \in Keys : c \in Readers /\ ReadLookup(c, k)
<1>1. pc \in [Clients -> Steps]
  BY DEF TypeInv, TypeOK
<1>2. ~WorkerReceive
  BY ReceiveMoves DEF Reading, Asking
<1>3. ~WorkerStart
  BY DEF WorkerStart
<1>4. ASSUME NEW d \in Clients, d # c,
             WorkerWrite(d) \/ WorkerCheck(d) \/ WorkerRead(d) \/ Client(d)
      PROVE  FALSE
  BY <1>4, OthersStay
<1>5. ~WorkerRead(c) /\ ~ReadSend(c) /\ ~DirectRead(c) /\ ~ReadReturn(c)
  BY DEF WorkerRead, NextAt, ReadSend, DirectRead, ReadReturn, Reading, Asking
<1>6. CASE \/ WorkerWrite(c) \/ WorkerCheck(c) \/ DirectWrite(c) \/ DirectCheck(c)
           \/ SaveStore(c) \/ Mark(c) \/ FreeRemove(c) \/ ReadGivesUp(c)
  <2>1. \E t \in {"written", "store", "directWritten", "mark", "idle"} : Goto(c, t)
    BY <1>6
    DEF WorkerWrite, WorkerCheck, DirectWrite, DirectCheck, SaveStore, Mark, FreeRemove,
        ReadGivesUp, Return
  <2> QED BY <1>1, <2>1 DEF Goto, Reading, Asking
<1>7. ASSUME NEW k, NEW v, SaveSend(c, k, v) \/ DirectAllocate(c, k, v) \/ FreeLookup(c, k)
      PROVE  FALSE
  <2>1. \E t \in {"writeQueued", "directReuse", "directAppend", "remove"} : Goto(c, t)
    BY <1>7 DEF SaveSend, DirectAllocate, FreeLookup
  <2> QED BY <1>1, <2>1 DEF Goto, Reading, Asking
<1> QED BY <1>2, <1>3, <1>4, <1>5, <1>6, <1>7 DEF Next, Worker, Client

\* and ends when the handler returns.
LEMMA ReadEnds ==
    ASSUME TypeInv, Next, NEW c \in Clients, pc[c] \in Reading, pc'[c] \notin Reading
    PROVE  UNCHANGED store /\ Return(c)
<1>1. pc \in [Clients -> Steps]
  BY DEF TypeInv, TypeOK
<1>2. ~WorkerReceive
  BY ReceiveMoves DEF Reading, Asking
<1>3. ~WorkerStart
  BY DEF WorkerStart
<1>4. ASSUME NEW d \in Clients, d # c,
             WorkerWrite(d) \/ WorkerCheck(d) \/ WorkerRead(d) \/ Client(d)
      PROVE  FALSE
  BY <1>4, OthersStay
<1>5. /\ ~WorkerWrite(c) /\ ~WorkerCheck(c) /\ ~DirectWrite(c) /\ ~DirectCheck(c)
      /\ ~SaveStore(c) /\ ~Mark(c) /\ ~FreeRemove(c)
      /\ \A k, v : ~SaveSend(c, k, v) /\ ~DirectAllocate(c, k, v)
      /\ \A k : ~FreeLookup(c, k) /\ ~ReadLookup(c, k)
  BY DEF WorkerWrite, NextAt, WorkerCheck, DirectWrite, DirectCheck, SaveStore, Mark,
         FreeRemove, SaveSend, DirectAllocate, FreeLookup, ReadLookup, Reading, Asking
<1>6. ~WorkerRead(c) /\ ~ReadSend(c)
  BY <1>1 DEF WorkerRead, ReadSend, Goto, Reading, Asking
<1>7. ReadGivesUp(c) \/ DirectRead(c) \/ ReadReturn(c)
  BY <1>2, <1>3, <1>4, <1>5, <1>6 DEF Next, Worker, Client
<1>8. ~Goto(c, "got")
  BY <1>1 DEF Goto, Reading
<1> QED BY <1>7, <1>8 DEF ReadGivesUp, DirectRead, ReadReturn

\* A step that changes the file changes neither the index nor what it says.
LEMMA DiskStep ==
    ASSUME TypeInv, WithinFile, OneWriterInv, [Next]_vars
    PROVE  disk' = disk \/ (UNCHANGED index /\ UNCHANGED Content)
<1>1. ASSUME NEW c \in Clients, WorkerWrite(c) \/ DirectWrite(c)
      PROVE  UNCHANGED index /\ UNCHANGED Content
  BY <1>1, ContentOfWorkerWrite, ContentOfDirectWrite DEF WorkerWrite, DirectWrite
<1>2. ASSUME ~\E c \in Clients : WorkerWrite(c) \/ DirectWrite(c)
      PROVE  disk' = disk
  BY <1>2
  DEF Next, Worker, Client, vars, store, WorkerReceive, WorkerStart, WorkerCheck,
      WorkerRead, SaveSend, DirectAllocate, DirectCheck, SaveStore, Mark, FreeLookup,
      FreeRemove, ReadLookup, ReadSend, ReadGivesUp, DirectRead, ReadReturn
<1> QED BY <1>1, <1>2

\* A span that holds a value is read as that value.
LEMMA ReadHeld ==
    ASSUME NEW d, NEW s, s # NoSpan, NEW v \in Values, Holds(d, s, v)
    PROVE  ReadAs(d, s) = v
<1>1. ValuesAt(d, s) = {v}
  BY HoldsOne DEF ValuesAt
<1>2. Decode({v}) = v
  BY DEF Decode
<1> QED BY <1>1, <1>2 DEF ReadAs

\* And its bytes decode to it.
LEMMA EncOne ==
    ASSUME NEW v \in Values
    PROVE  Decode({u \in Values : Enc(u) = Enc(v)}) = v
<1>1. ASSUME NEW u \in Values, Enc(u) = Enc(v) PROVE u = v
  <2>1. 1 \in 1 .. Size[u] /\ 1 \in 1 .. Size[v]
    BY SizePositive
  <2>2. Enc(u)[1] = <<u, 1>> /\ Enc(v)[1] = <<v, 1>>
    BY <2>1 DEF Enc
  <2> QED BY <1>1, <2>2
<1>2. {u \in Values : Enc(u) = Enc(v)} = {v}
  BY <1>1
<1>3. Decode({v}) = v
  BY DEF Decode
<1> QED BY <1>2, <1>3

\* The cases of Answers, and Content at a key, before and after a step.
LEMMA AnswersAre ==
    ASSUME NEW c \in Readers
    PROVE  /\ pc[c] \in Asking => Answers[c] = ReadAs(disk, req[c].span)
           /\ pc[c] = "got" => Answers[c] = Decode({v \in Values : Enc(v) = req[c].got})
           /\ pc[c] \notin Reading => Answers[c] = Absent
           /\ pc'[c] \in Asking => Answers'[c] = ReadAs(disk', req'[c].span)
           /\ pc'[c] = "got" => Answers'[c] = Decode({v \in Values : Enc(v) = req'[c].got})
           /\ pc'[c] \notin Reading => Answers'[c] = Absent
BY DEF Answers, Reading, Asking

LEMMA ContentAt ==
    ASSUME NEW k \in Keys
    PROVE  /\ Content[k] = ReadAs(disk, index[k])
           /\ Content'[k] = ReadAs(disk', index'[k])
BY DEF Content

\* What a read is going to answer stays the same from its look-up to its return.
LEMMA AnswerStays ==
    ASSUME SingleWriter, TypeInv, TypeInv', WithinFile, OneWriterInv, OneWriterInv',
           ReadersOK, Unspoiled, ReadsOfKey, [PatientNext]_vars,
           NEW c \in Readers, pc[c] \in Reading, pc'[c] \in Reading
    PROVE  Answers'[c] = Answers[c]
<1> DEFINE k == req[c].key
           s == req[c].span
<1>1. [Next]_vars /\ c \in Clients
  BY DEF PatientNext, Clients
<1>2. ASSUME ~(pc[c] \in Asking /\ req'[c] = req[c]), pc'[c] \in Asking
      PROVE  pc[c] = "idle"
  BY <1>1, <1>2, ReaderStep
<1>3. CASE pc[c] \in Asking /\ pc'[c] \in Asking
  <2>1. req'[c] = req[c] /\ k \in Keys /\ s # NoSpan
    BY <1>1, <1>2, <1>3 DEF ReadersOK, Asking
  <2>2. CASE disk' = disk
    BY <1>3, <2>1, <2>2, AnswersAre
  <2>3. CASE disk' # disk
    <3>1. index' = index /\ Content' = Content
      BY <1>1, <2>3, DiskStep
    <3>2. index[k] = s
      BY <1>1, <1>3, <2>1, <2>3, <3>1, SpanStays
    <3>3. Content[k] = ReadAs(disk, s) /\ Content'[k] = ReadAs(disk', s)
      BY <2>1, <3>1, <3>2, ContentAt
    <3> QED BY <1>3, <2>1, <3>1, <3>3, AnswersAre
  <2> QED BY <2>2, <2>3
<1>4. CASE pc[c] \in Asking /\ pc'[c] = "got"
  <2>1. s # NoSpan /\ req'[c].got = CellsOf(s)
    BY <1>1, <1>4, ReaderStep DEF ReadersOK, Asking
  <2>2. PICK v \in Values : Holds(disk, s, v)
    BY <1>1, <1>4, ReaderFinds
  <2>3. ReadAs(disk, s) = v /\ CellsOf(s) = Enc(v)
    BY <2>1, <2>2, ReadHeld, CellsHeld
  <2>4. Decode({u \in Values : Enc(u) = req'[c].got}) = v
    BY <2>1, <2>3, EncOne
  <2>5. Answers[c] = v
    BY <1>4, <2>3, AnswersAre
  <2>6. Answers'[c] = Decode({u \in Values : Enc(u) = req'[c].got})
    BY <1>4, AnswersAre
  <2> QED BY <2>4, <2>5, <2>6
<1>5. CASE pc[c] = "got"
  <2>1. pc'[c] = "got" /\ req'[c] = req[c]
    BY <1>1, <1>2, <1>5, ReaderStep DEF Reading, Asking
  <2> QED BY <1>5, <2>1, AnswersAre
<1> QED BY <1>3, <1>4, <1>5 DEF Reading

\* A step of one reader leaves what the others will answer.
LEMMA OneAnswers ==
    ASSUME TypeInv, NEW c \in Readers, disk' = disk,
           NEW t, Goto(c, t), NEW r, req' = [req EXCEPT ![c] = r]
    PROVE  Answers' = [Answers EXCEPT ![c] = Answers'[c]]
<1>1. \A d \in Readers : d # c => pc'[d] = pc[d] /\ req'[d] = req[d]
  BY DEF Goto, TypeInv, TypeOK, Clients
<1>2. \A d \in Readers : d # c => Answers'[d] = Answers[d]
  <2> SUFFICES ASSUME NEW d \in Readers, d # c PROVE Answers'[d] = Answers[d]
    OBVIOUS
  <2>1. pc'[d] = pc[d] /\ req'[d] = req[d]
    BY <1>1
  <2>2. CASE pc[d] \in Asking
    <3>1. /\ Answers[d] = ReadAs(disk, req[d].span)
          /\ Answers'[d] = ReadAs(disk', req'[d].span)
      BY <2>1, <2>2, AnswersAre
    <3> QED BY <2>1, <3>1
  <2>3. CASE pc[d] = "got"
    <3>1. /\ Answers[d] = Decode({v \in Values : Enc(v) = req[d].got})
          /\ Answers'[d] = Decode({v \in Values : Enc(v) = req'[d].got})
      BY <2>1, <2>3, AnswersAre
    <3> QED BY <2>1, <3>1
  <2>4. CASE pc[d] \notin Reading
    BY <2>1, <2>4, AnswersAre
  <2> QED BY <2>2, <2>3, <2>4 DEF Reading
<1>3. /\ Answers' = [d \in Readers |-> Answers'[d]]
      /\ Answers = [d \in Readers |-> Answers[d]]
  BY DEF Answers
<1> QED BY <1>2, <1>3

LEMMA ReadsMapStep ==
    ASSUME SingleWriter, TypeInv, TypeInv', WithinFile, OneWriterInv, OneWriterInv',
           ReadersOK, Unspoiled, ReadsOfKey, [PatientNext]_vars
    PROVE  Map!ReadNext \/ UNCHANGED <<Content, Answers>>
<1>1. [Next]_vars
  BY DEF PatientNext
<1>2. CASE \A c \in Readers : Answers'[c] = Answers[c]
  <2>1. /\ Answers' = [d \in Readers |-> Answers'[d]]
        /\ Answers = [d \in Readers |-> Answers[d]]
    BY DEF Answers
  <2>2. Answers' = Answers
    BY <1>2, <2>1
  <2> QED BY <1>1, <2>2, MapStep DEF Map!ReadNext
<1>3. ASSUME NEW c \in Readers, Answers'[c] # Answers[c] PROVE Map!ReadNext
  <2>1. Next
    BY <1>1, <1>3 DEF vars, store, Answers
  <2>2. c \in Clients /\ (pc[c] \in Reading <=> pc'[c] \notin Reading)
    BY <1>3, AnswerStays, AnswersAre DEF Clients
  <2>3. CASE pc[c] \notin Reading
    <3>1. PICK k \in Keys : ReadLookup(c, k)
      BY <2>1, <2>2, <2>3, ReadBegins
    <3>2. /\ UNCHANGED <<disk, index>> /\ index[k] # NoSpan
          /\ pc'[c] = "readAsk" /\ req'[c].span = index[k]
      BY <2>2, <3>1 DEF ReadLookup, Goto, store, TypeInv, TypeOK, NoRequest
    <3>3. Content' = Content
      BY <3>2, ContentKept
    <3>4. Answers[c] = Absent /\ Answers'[c] = Content[k]
      BY <2>3, <3>2, AnswersAre, ContentAt DEF Asking
    <3>5. Content[k] # Absent
      <4>1. PICK v \in Values : Holds(disk, index[k], v)
        BY <3>2 DEF OneWriterInv, IndexPointsAtData
      <4>2. Content[k] = v
        BY <3>2, <4>1, ReadHeld, ContentAt
      <4> QED BY <4>2, SentinelAssumption
    <3>6. Answers' = [Answers EXCEPT ![c] = Answers'[c]]
      <4>1. /\ Goto(c, "readAsk")
            /\ req' = [req EXCEPT ![c] = [NoRequest EXCEPT !.key = k, !.span = index[k]]]
        BY <3>1 DEF ReadLookup
      <4> QED BY <3>2, <4>1, OneAnswers
    <3>7. Map!Ask(c, k)
      BY <3>3, <3>4, <3>5, <3>6 DEF Map!Ask
    <3> QED BY <3>7 DEF Map!ReadNext
  <2>4. CASE pc[c] \in Reading
    <3>1. UNCHANGED store /\ Return(c)
      BY <2>1, <2>2, <2>4, ReadEnds
    <3>2. UNCHANGED <<disk, index>> /\ Content' = Content
      BY <3>1, ContentKept DEF store
    <3>3. Answers'[c] = Absent
      BY <2>2, <2>4, AnswersAre
    <3>4. Answers' = [Answers EXCEPT ![c] = Answers'[c]]
      BY <3>1, <3>2, OneAnswers DEF Return
    <3>5. Map!Answer(c)
      BY <1>3, <3>2, <3>3, <3>4 DEF Map!Answer
    <3> QED BY <3>5 DEF Map!ReadNext
  <2> QED BY <2>3, <2>4
<1> QED BY <1>2, <1>3

\* With the same patience the table implements the map with its reads: each reader
\* answers what its key mapped to at its look-up, however long it then waits in the
\* channel, and whatever happens to the key meanwhile.
THEOREM PatientImplementsReads ==
    ASSUME SingleWriter
    PROVE  PatientSpec => ImplementsReads
<1>1. Init => Map!Init /\ Answers = [c \in Readers |-> Absent]
  BY MapInit DEF Init, Answers, Asking, Clients
<1>2. SingleWriter /\ TypeInv /\ TypeInv' /\ WithinFile /\ OneWriterInv /\ OneWriterInv'
      /\ ReadersOK /\ Unspoiled /\ ReadsOfKey /\ [PatientNext]_vars
      => Map!ReadNext \/ UNCHANGED <<Content, Answers>>
  BY ReadsMapStep
<1>3. PatientSpec => [](TypeInv /\ WithinFile /\ OneWriterInv /\ ReadersOK
                      /\ Unspoiled /\ ReadsOfKey)
  BY PatientReads
<1> QED BY <1>1, <1>2, <1>3, PTL DEF PatientSpec, ImplementsReads, Map!ReadSpec

\* One client by itself always waits: what it saves, frees and reads one request
\* after the other, through the worker or around it, is what a map would give it.
COROLLARY OneClientReadsRight ==
    ASSUME NEW c, Clients = {c}
    PROVE  Spec => []ReadsOfKey /\ ImplementsReads
<1>1. SingleWriter
  BY DEF SingleWriter, Clients, Writers
<1>2. [Next]_vars => [PatientNext]_vars
  BY DEF PatientNext, Mark, Asking
<1> QED BY <1>1, <1>2, PatientReadsRight, PatientImplementsReads, PTL
    DEF Spec, PatientSpec
=============================================================================
