------------------------------- MODULE KvStore -------------------------------
(***************************************************************************)
(* One table of TsunamiDB: its data file, the goroutine that owns the file *)
(* (data/dataManager/v2), the key index (data/fileSystem/v1), the free     *)
(* list (FreeList) and the request handlers that update the three of them  *)
(* in separate steps (servers/public-api/v1/routes, lib/export,            *)
(* servers/network-manager/tasks).                                         *)
(*                                                                         *)
(* A handler is a client of the model and pc says where it is:             *)
(*   save   idle -> writeQueued -> writeTaken -> written -> store          *)
(*               -> mark | idle                                            *)
(*   save through dataManager/v1 (save_encrypted, peer tasks)              *)
(*          idle -> directReuse | directAppend -> directWritten -> store   *)
(*   free   idle -> remove -> mark -> idle                                 *)
(*   read   idle -> readAsk -> readQueued -> readTaken -> got -> idle      *)
(* The bytes of a value v, as Encode lays them out, are the cells          *)
(* <<v, 1>> ... <<v, Size[v]>>; the file is an array of cells.             *)
(***************************************************************************)
EXTENDS Integers, Sequences, FreeList

CONSTANTS
    Keys, Values,
    Size,          \* [Values -> Nat \ {0}], the encoded length of each value
    Workload,      \* the pairs <<key, value>> that clients save
    Savers,        \* clients that save through the file worker
    DirectSavers,  \* clients that save through dataManager/v1
    Freers,        \* clients that free keys
    Readers,       \* clients that read keys
    Blank,         \* a byte never written
    Absent,        \* what a key without data maps to
    Garbage,       \* what a span that holds no value decodes to
    MaxFile,       \* capacity of the disk, in cells
    ChanCap        \* capacity of the worker's channel (10000 in the code)

Clients == Savers \cup DirectSavers \cup Freers \cup Readers
Writers == Savers \cup DirectSavers \cup Freers

ASSUME SizeAssumption == Size \in [Values -> Nat \ {0}]
ASSUME WorkloadAssumption == Workload \subseteq Keys \X Values
ASSUME CapacityAssumption == MaxFile \in Nat /\ ChanCap \in Nat \ {0}
ASSUME SentinelAssumption ==
    /\ Absent \notin Values /\ Garbage \notin Values /\ Absent # Garbage
    /\ Blank \notin Values \X Nat

VARIABLES
    disk,    \* the cells of <table> in db/data
    eof,     \* the length of that file
    index,   \* the table index: key -> span (entry{start, end})
    free,    \* fl.blocks, the free list of the table
    chan,    \* the worker's channel, oldest request first
    batch,   \* "pending" in fileWorkerLoop
    worker,  \* where executeBatch is: mode, totalSize, curOffset
    pc,      \* per client: its step
    req      \* per client: the variables of the handler and of its request:
             \*   key, val  what is saved, read or freed
             \*   span      the span written, or to read
             \*   old       the span to mark as free
             \*   got       the cells the worker answered with

store == <<disk, eof, index, free>>
queue == <<chan, batch, worker>>
vars  == <<disk, eof, index, free, chan, batch, worker, pc, req>>

Offsets == 0 .. MaxFile - 1
Span    == {s \in [start : Nat, end : Nat] : s.start <= s.end}
NoSpan  == [start |-> 0, end |-> 0]   \* no entry: a stored span is never empty
SpanOf(offset, v) == [start |-> offset, end |-> offset + Size[v]]

Cell == (Values \X (Nat \ {0})) \cup {Blank}
Enc(v) == [i \in 1 .. Size[v] |-> <<v, i>>]

\* Variant: the last cell is left out.
CellsOfShort(s) == [i \in 1 .. s.end - s.start - 1 |->
                  IF s.start + i - 1 \in Offsets THEN disk[s.start + i - 1]
                  ELSE Blank]
CellsOf(s) == [i \in 1 .. s.end - s.start |->
                  IF s.start + i - 1 \in Offsets THEN disk[s.start + i - 1]
                  ELSE Blank]

\* On disk d, span s holds exactly the bytes of v.
Holds(d, s, v) ==
    /\ s.end - s.start = Size[v]
    /\ \A i \in 1 .. Size[v] :
          s.start + i - 1 \in Offsets /\ d[s.start + i - 1] = <<v, i>>

Taken   == {"writeTaken", "written", "readTaken"}
Writing == {"writeTaken", "written"}

Request == [key : Keys \cup {Absent}, val : Values \cup {Absent},
            span : Span, old : Span, got : Seq(Cell)]
NoRequest == [key |-> Absent, val |-> Absent,
              span |-> NoSpan, old |-> NoSpan, got |-> <<>>]

WorkerState == [mode : {"collect", "reuse", "append"}, total : Nat, cur : Nat]
Idle == [mode |-> "collect", total |-> 0, cur |-> 0]

Init ==
    /\ disk = [o \in Offsets |-> Blank]
    /\ eof = 0
    /\ index = [k \in Keys |-> NoSpan]
    /\ free = [k \in {} |-> NoSpan]
    /\ chan = <<>> /\ batch = <<>> /\ worker = Idle
    /\ pc = [c \in Clients |-> "idle"]
    /\ req = [c \in Clients |-> NoRequest]

Goto(c, step) == pc' = [pc EXCEPT ![c] = step]

\* The handler returns: its variables are gone.
Return(c) == Goto(c, "idle") /\ req' = [req EXCEPT ![c] = NoRequest]

\* sendToFileWorker: the request enters the channel when there is room. With
\* the channel full for a second the handler answers an error: see ReadGivesUp;
\* for a save nothing has changed yet, so giving up is no step of the model.
Enqueue(c) == Len(chan) < ChanCap /\ chan' = Append(chan, c)

-----------------------------------------------------------------------------
(* The file. *)

\* Variant: the length grows although the disk is full.
WriteAtUncapped(v, offset) ==
    /\ disk' = [o \in Offsets |->
                  IF o >= offset /\ o < offset + Size[v]
                  THEN <<v, o - offset + 1>> ELSE disk[o]]
    /\ eof' = IF offset + Size[v] <= eof THEN eof ELSE offset + Size[v]

\* WriteAt(Enc(v), offset). A disk that fills up keeps the cells that fit.
WriteAt(v, offset) ==
    /\ disk' = [o \in Offsets |->
                  IF o >= offset /\ o < offset + Size[v]
                  THEN <<v, o - offset + 1>> ELSE disk[o]]
    /\ eof' = IF offset + Size[v] <= eof THEN eof
              ELSE IF offset + Size[v] <= MaxFile THEN offset + Size[v]
              ELSE IF MaxFile <= eof THEN eof ELSE MaxFile

\* Variant: the error of a short write is ignored.
FitsAlways(v, offset) == TRUE
Fits(v, offset) == offset + Size[v] <= MaxFile

-----------------------------------------------------------------------------
(* The file worker. *)

\* One receive of the collecting loop.
WorkerReceive ==
    /\ worker.mode = "collect"
    /\ chan # <<>>
    /\ LET c == Head(chan)
       IN  /\ chan' = Tail(chan)
           /\ batch' = Append(batch, c)
           /\ IF pc[c] = "writeQueued"
              THEN /\ Goto(c, "writeTaken")
                   /\ worker' = [worker EXCEPT !.total = @ + Size[req[c].val]]
              ELSE /\ Goto(c, "readTaken")
                   /\ UNCHANGED worker
    /\ UNCHANGED <<store, req>>

\* executeBatch knows where the writes of the batch go.
Begin(mode, offset) == worker' = [worker EXCEPT !.mode = mode, !.cur = offset]

\* The channel is empty, executeBatch begins. The writes of the batch get one
\* free block that fits them all, or else each of them gets Seek(0, SeekEnd),
\* which is the same offset for all: nothing has been written yet.
\* GetBlock unlists the whole block even when it then fails to save the list.
WorkerStart ==
    /\ worker.mode = "collect"
    /\ batch # <<>> /\ chan = <<>>
    /\ \/ /\ worker.total > 0
          /\ \E k \in BestFit(free, worker.total) :
                /\ free' = Unlist(free, k)
                /\ Begin("reuse", free[k].start) \/ Begin("append", eof)
       \/ /\ worker.total = 0 \/ Fitting(free, worker.total) = {}
          /\ Begin("append", eof)
          /\ UNCHANGED free
    /\ UNCHANGED <<disk, eof, index, chan, batch, pc, req>>

\* c is the first of the batch at the given step.
NextAt(c, step) ==
    /\ pc[c] = step
    /\ \E i \in DOMAIN batch :
          batch[i] = c /\ \A j \in 1 .. i - 1 : pc[batch[j]] # step

\* Variant: pending is not emptied.
EndBatchNever(c, w) == worker' = w /\ UNCHANGED batch

\* The answer to c ends the batch if c was the last of it: pending[:0].
EndBatch(c, w) ==
    IF \E d \in Clients \ {c} : pc[d] \in Taken
    THEN worker' = w /\ UNCHANGED batch
    ELSE worker' = Idle /\ batch' = <<>>

WorkerWrite(c) ==
    /\ worker.mode # "collect"
    /\ NextAt(c, "writeTaken")
    /\ \A d \in Clients : pc[d] # "written"
    /\ WriteAt(req[c].val, worker.cur)
    /\ LET v == req[c].val
           w == IF worker.mode = "reuse"
                THEN [worker EXCEPT !.cur = @ + Size[v]] ELSE worker
       IN  IF Fits(v, worker.cur)
           THEN /\ Goto(c, "written")
                /\ req' = [req EXCEPT ![c].span = SpanOf(worker.cur, v)]
                /\ worker' = w /\ UNCHANGED batch
           ELSE /\ Return(c)
                /\ EndBatch(c, w)
    /\ UNCHANGED <<index, free, chan>>

\* SaveBlockCheck after the write, then the answer.
WorkerCheck(c) ==
    /\ pc[c] = "written"
    /\ free' \in SaveBlockCheck(free, req[c].span)
    /\ Goto(c, "store")
    /\ EndBatch(c, worker)
    /\ UNCHANGED <<disk, eof, index, chan, req>>

\* Reads come last. ReadAt past the end leaves zeros and io.EOF is no error,
\* so a read always answers with as many bytes as were asked for.
WorkerRead(c) ==
    /\ worker.mode # "collect"
    /\ \A d \in Clients : pc[d] \notin Writing
    /\ NextAt(c, "readTaken")
    /\ req' = [req EXCEPT ![c].got = CellsOf(req[c].span)]
    /\ Goto(c, "got")
    /\ EndBatch(c, worker)
    /\ UNCHANGED <<store, chan>>

Worker == WorkerReceive \/ WorkerStart
          \/ \E c \in Clients : WorkerWrite(c) \/ WorkerCheck(c) \/ WorkerRead(c)

-----------------------------------------------------------------------------
(* Save: AsyncSave and its copies. The notification of subscribers that     *)
(* follows is the module Subscriptions.                                     *)

SaveSend(c, k, v) ==
    /\ pc[c] = "idle" /\ Enqueue(c)
    /\ Goto(c, "writeQueued")
    /\ req' = [req EXCEPT ![c] = [NoRequest EXCEPT !.key = k, !.val = v]]
    /\ UNCHANGED <<store, batch, worker>>

\* SaveElementByKey: the table index answers with the entry it replaces.
SaveStore(c) ==
    LET k == req[c].key
        s == req[c].span
    IN  /\ pc[c] = "store"
        /\ index' = [index EXCEPT ![k] = s]
        /\ IF index[k] # NoSpan /\ index[k] # s
           THEN /\ Goto(c, "mark")
                /\ req' = [req EXCEPT ![c].old = index[k]]
           ELSE Return(c)
        /\ UNCHANGED <<disk, eof, free, queue>>

\* MarkAsFree, of the span a save replaced or of the one a free removed.
Mark(c) ==
    /\ pc[c] = "mark"
    /\ free' = MarkAsFree(free, req[c].key, req[c].old)
    /\ Return(c)
    /\ UNCHANGED <<disk, eof, index, queue>>

\* dataManager/v1 SaveDataToFile, outside the worker: GetBlock, or the offset
\* of the end of the file as Seek tells it.
DirectAllocate(c, k, v) ==
    LET r(s) == [NoRequest EXCEPT !.key = k, !.val = v, !.span = s]
    IN  /\ pc[c] = "idle"
        /\ \/ \E b \in BestFit(free, Size[v]) :
                 /\ free' = Unlist(free, b)
                 /\ \/ /\ Goto(c, "directReuse")
                       /\ req' = [req EXCEPT ![c] = r(SpanOf(free[b].start, v))]
                    \/ /\ Goto(c, "directAppend")
                       /\ req' = [req EXCEPT ![c] = r(SpanOf(eof, v))]
           \/ /\ Fitting(free, Size[v]) = {}
              /\ Goto(c, "directAppend")
              /\ req' = [req EXCEPT ![c] = r(SpanOf(eof, v))]
              /\ UNCHANGED free
        /\ UNCHANGED <<disk, eof, index, queue>>

\* The write. Into the free block it goes where the span says; appended, the
\* file is open with O_APPEND and it goes wherever the end of the file is now.
DirectWrite(c) ==
    LET v == req[c].val
        offset == IF pc[c] = "directReuse" THEN req[c].span.start ELSE eof
    IN  /\ pc[c] \in {"directReuse", "directAppend"}
        /\ WriteAt(v, offset)
        /\ IF ~Fits(v, offset) THEN Return(c)
           ELSE /\ Goto(c, IF pc[c] = "directReuse" THEN "directWritten"
                           ELSE "store")
                /\ UNCHANGED req
        /\ UNCHANGED <<index, free, queue>>

DirectCheck(c) ==
    /\ pc[c] = "directWritten"
    /\ free' \in SaveBlockCheck(free, req[c].span)
    /\ Goto(c, "store")
    /\ UNCHANGED <<disk, eof, index, queue, req>>

-----------------------------------------------------------------------------
(* Free: GetElementByKey, RemoveElementByKey, MarkAsFree. *)

FreeLookup(c, k) ==
    /\ pc[c] = "idle"
    /\ index[k] # NoSpan
    /\ Goto(c, "remove")
    /\ req' = [req EXCEPT ![c] = [NoRequest EXCEPT !.key = k, !.old = index[k]]]
    /\ UNCHANGED <<store, queue>>

\* The entry goes, whatever it holds by now; a missing one is no error.
FreeRemove(c) ==
    /\ pc[c] = "remove"
    /\ index' = [index EXCEPT ![req[c].key] = NoSpan]
    /\ Goto(c, "mark")
    /\ UNCHANGED <<disk, eof, free, queue, req>>

-----------------------------------------------------------------------------
(* Read: GetElementByKey, then the span it gave is read, by the worker or,  *)
(* for encrypted data, by dataManager/v1. A missing key is asked of the     *)
(* peers: module PeerNet.                                                   *)

ReadLookup(c, k) ==
    /\ pc[c] = "idle"
    /\ index[k] # NoSpan
    /\ Goto(c, "readAsk")
    /\ req' = [req EXCEPT ![c] = [NoRequest EXCEPT !.key = k, !.span = index[k]]]
    /\ UNCHANGED <<store, queue>>

ReadSend(c) ==
    /\ pc[c] = "readAsk" /\ Enqueue(c)
    /\ Goto(c, "readQueued")
    /\ UNCHANGED <<store, batch, worker, req>>

\* "worker is unresponsive (send timeout)"
ReadGivesUp(c) ==
    /\ pc[c] = "readAsk" /\ Len(chan) >= ChanCap
    /\ Return(c)
    /\ UNCHANGED <<store, queue>>

\* ReadDataFromFile of dataManager/v1 refuses a span beyond the end.
DirectRead(c) ==
    /\ pc[c] = "readAsk"
    /\ IF req[c].span.end > eof THEN Return(c)
       ELSE /\ Goto(c, "got")
            /\ req' = [req EXCEPT ![c].got = CellsOf(req[c].span)]
    /\ UNCHANGED <<store, queue>>

ReadReturn(c) ==
    /\ pc[c] = "got"
    /\ Return(c)
    /\ UNCHANGED <<store, queue>>

-----------------------------------------------------------------------------
Client(c) ==
    \/ \E w \in Workload : c \in Savers /\ SaveSend(c, w[1], w[2])
    \/ \E w \in Workload : c \in DirectSavers /\ DirectAllocate(c, w[1], w[2])
    \/ DirectWrite(c) \/ DirectCheck(c)
    \/ SaveStore(c) \/ Mark(c)
    \/ \E k \in Keys : c \in Freers /\ FreeLookup(c, k)
    \/ FreeRemove(c)
    \/ \E k \in Keys : c \in Readers /\ ReadLookup(c, k)
    \/ ReadSend(c) \/ ReadGivesUp(c) \/ DirectRead(c) \/ ReadReturn(c)

Next == Worker \/ \E c \in Clients : Client(c)

Spec == Init /\ [][Next]_vars

\* The worker's goroutine keeps running: nothing in its loop waits for a client,
\* since every answer goes into a channel that has room for it.
FairSpec == Spec /\ WF_vars(Worker)

-----------------------------------------------------------------------------
(* Properties. *)

Steps == {"idle", "writeQueued", "writeTaken", "written", "store", "mark",
          "directReuse", "directAppend", "directWritten", "remove",
          "readAsk", "readQueued", "readTaken", "got"}

\* Types of the state.
TypeOK ==
    /\ disk \in [Offsets -> Cell]
    /\ eof \in 0 .. MaxFile
    /\ index \in [Keys -> Span]
    /\ \A k \in DOMAIN free : free[k] \in Span
    /\ chan \in Seq(Clients) /\ batch \in Seq(Clients)
    /\ worker \in WorkerState
    /\ pc \in [Clients -> Steps]
    /\ req \in [Clients -> Request]

\* What a handler's step says of its variables: a save carries a pair of the
\* workload from the request to the index, a free a key.
Saving == {"writeQueued", "writeTaken", "written", "store",
           "directReuse", "directAppend", "directWritten"}
StepsOK ==
    \A c \in Clients :
        /\ pc[c] \in Saving =>
              c \in Writers /\ <<req[c].key, req[c].val>> \in Workload
        /\ pc[c] \in {"mark", "remove"} => c \in Writers /\ req[c].key \in Keys

\* A client is in the channel once, and only while it waits there.
QueueOK ==
    /\ \A i \in DOMAIN chan : pc[chan[i]] \in {"writeQueued", "readQueued"}
    /\ \A i, j \in DOMAIN chan : chan[i] = chan[j] => i = j

\* At most one client saves and frees; any number of them read.
SingleWriter == \A c, d \in Writers : c = d

TypeInv == TypeOK /\ StepsOK /\ QueueOK

\* Whatever the interleaving, no span that the index, the free list or a handler
\* holds reaches beyond the end of the file: executeBatch would answer a read of
\* it with zeros and no error (fileManager.go: err != io.EOF).
WithinFile ==
    /\ \A k \in Keys : index[k].end <= eof
    /\ \A k \in DOMAIN free : free[k].end <= eof
    /\ \A c \in Clients : pc[c] # "directAppend" => req[c].span.end <= eof
    /\ \A c \in Clients : req[c].old.end <= eof

\* Inductive form of WithinFile: an append of dataManager/v1 lands at or after the
\* offset it asked for.
WithinFileInv ==
    /\ WithinFile
    /\ \A c \in Clients : pc[c] = "directAppend" =>
          req[c].span.end <= eof + Size[req[c].val]

\* The span a writer holds that neither the index nor the free list may cover:
\* what it has been given or has written and not yet indexed, or what it has
\* taken out of the index and not yet freed.
Held(c) ==
    CASE pc[c] \in {"written", "store", "directReuse", "directWritten"} ->
           req[c].span
      [] pc[c] = "writeTaken" /\ worker.mode = "reuse" ->
           SpanOf(worker.cur, req[c].val)
      [] pc[c] = "mark" -> req[c].old
      [] OTHER -> NoSpan

\* No free block covers a byte of an indexed span: GetBlock would hand live data
\* to the next save.
LiveNotFree == \A j \in DOMAIN free, k \in Keys : Apart(free[j], index[k])

\* No byte of the file has two owners: the indexed spans, the free blocks and
\* the spans that handlers hold are pairwise apart.
SpaceApart ==
    /\ \A j, k \in Keys : j # k => Apart(index[j], index[k])
    /\ \A j, k \in DOMAIN free : j # k => Apart(free[j], free[k])
    /\ LiveNotFree
    /\ \A c \in Clients :
          /\ \A k \in Keys : Apart(Held(c), index[k])
          /\ \A k \in DOMAIN free : Apart(Held(c), free[k])

\* "for a given key, the information where exactly in which file the data are"
\* (data_docs.md): an index entry points at a value that was saved for its key.
IndexPointsAtData ==
    \A k \in Keys : index[k] # NoSpan =>
        \E v \in Values : <<k, v>> \in Workload /\ Holds(disk, index[k], v)

\* What else holds at each step when a single client writes. totalSize is the
\* size of the one write of the batch; appended, it goes to the end of the file;
\* a span that was written holds its value; a free removes the span it looked up.
WorkerOK ==
    /\ worker.mode = "collect" =>
          /\ \A c \in Clients : pc[c] = "writeTaken" =>
                worker.total = Size[req[c].val]
          /\ (\A c \in Clients : pc[c] # "writeTaken") => worker.total = 0
          /\ \A c \in Clients : pc[c] # "written"
    /\ worker.mode = "append" =>
          \A c \in Clients : pc[c] = "writeTaken" => worker.cur = eof

WriterOK ==
    \A c \in Clients :
        /\ pc[c] \in {"written", "store", "directWritten"} =>
              Holds(disk, req[c].span, req[c].val)
        /\ pc[c] = "directReuse" =>
              req[c].span = SpanOf(req[c].span.start, req[c].val)
        /\ pc[c] = "directAppend" => req[c].span = SpanOf(eof, req[c].val)
        /\ pc[c] = "remove" => req[c].old = index[req[c].key]

\* The inductive invariant of a table with one writer.
OneWriterInv == WorkerOK /\ WriterOK /\ SpaceApart /\ IndexPointsAtData

\* A read answers with one whole value that was saved under the key it names.
ReadsOfKey ==
    \A c \in Clients : pc[c] = "got" =>
        \E v \in Values : <<req[c].key, v>> \in Workload /\ req[c].got = Enc(v)

\* What the table maps a key to, decoded through index and file.
Decode(values) == IF values = {} THEN Garbage ELSE CHOOSE v \in values : TRUE
ValuesAt(d, s) == {v \in Values : Holds(d, s, v)}
ReadAs(d, s) == IF s = NoSpan THEN Absent ELSE Decode(ValuesAt(d, s))
Content == [k \in Keys |-> ReadAs(disk, index[k])]

\* The steps of a read that has its span and not yet its bytes.
Asking == {"readAsk", "readQueued", "readTaken"}

\* What a read under way is going to answer, as the file is now.
Answers ==
    [c \in Readers |->
        CASE pc[c] \in Asking -> ReadAs(disk, req[c].span)
          [] pc[c] = "got" -> Decode({v \in Values : Enc(v) = req[c].got})
          [] OTHER -> Absent]

\* The table is the abstract map: no write into reused space, no free and no
\* step of the worker changes what any key but the one being stored reads as.
Map == INSTANCE KvMap WITH map <- Content, answer <- Answers
ImplementsMap == Map!Spec

\* A read answers with the value that the table maps its key to, whichever way it
\* took to the file, if the key still has the span that was looked up (AsyncRead):
\* a save or a free in between is the only thing that can spoil it.
ReadsCurrent ==
    [][\A c \in Clients :
          /\ pc[c] \in Asking /\ pc'[c] = "got"
          /\ index[req[c].key] = req[c].span
          => \E v \in Values :
                /\ <<req[c].key, v>> \in Workload
                /\ Content[req[c].key] = v
                /\ req'[c].got = Enc(v)]_vars

\* A restriction of Spec, in which MarkAsFree waits for the reads that are on their
\* way. The code does not wait; a client without others beside it need not.
PatientNext ==
    /\ Next
    /\ (\E c \in Clients : Mark(c)) => \A d \in Clients : pc[d] \notin Asking
PatientSpec == Init /\ [][PatientNext]_vars

\* Then the reads, too, are those of the map: each answers what its key mapped to
\* when it was looked up.
ImplementsReads == Map!ReadSpec

\* The key of a read that is on its way still has the span that was looked up, or
\* the span has lost its key and is not free yet.
Unspoiled ==
    \A c \in Clients : pc[c] \in Asking =>
        \/ index[req[c].key] = req[c].span
        \/ /\ \E d \in Clients : pc[d] = "mark"
           /\ \E v \in Values :
                 <<req[c].key, v>> \in Workload /\ Holds(disk, req[c].span, v)

\* Every request that entered the worker's channel is answered.
Answered ==
    \A c \in Clients :
        /\ pc[c] = "writeQueued" ~> pc[c] \in {"store", "idle"}
        /\ pc[c] = "readQueued" ~> pc[c] = "got"
=============================================================================
