------------------------------ MODULE IncTable ------------------------------
(***************************************************************************)
(* One incremental table: its metadata entry, its file of fixed-size rows  *)
(* with the goroutine that owns it (dataManager/v2), its entry-key index   *)
(* (IncIndex) and the handlers SaveIncremental, ReadIncremental and        *)
(* DeleteIncremental, each of which updates them in separate steps.        *)
(*   save    idle -> (create) -> (check -> checked) -> send -> queued      *)
(*           -> (index -> apply) or answered -> idle                       *)
(*   read    idle -> (look -> looking) -> send -> queued -> got -> idle    *)
(*   delete  idle -> send -> queued -> forget -> unlink -> unmeta -> idle  *)
(* Rows are the bytes that RowCodec makes of the body of a request; which  *)
(* body that is follows from its entry_key (NoKey without one).            *)
(***************************************************************************)
EXTENDS IncIndex, RowCodec, FiniteSets

CONSTANTS
    Savers, Readers, Deleters,   \* clients that save rows, read, delete the table
    Saves,      \* requests of /save_inc
    Reads,      \* requests of /read_inc
    Body,       \* what is saved under a key
    Sizes,      \* values of max_entry_size
    MayCrash,   \* whether the process may die
    MaxRows,    \* capacity of the disk, in rows
    MaxLength   \* where Truncate refuses to make the file longer, in rows

Clients == Savers \cup Readers \cup Deleters

\* A request: id the row it means, counted from the end of the table that from
\* names, or the number of rows it asks for; key its entry_key.
SaveOps == {"append", "insert", "overwrite"}
ReadOps == {"by_key", "by_id", "first", "last"}
Request(ops) == [op : ops, id : Nat, from : {"top", "bottom"}, key : Slots]

ASSUME ClientsAssumption == IsFiniteSet(Clients)
ASSUME RequestsAssumption ==
    Saves \subseteq Request(SaveOps) /\ Reads \subseteq Request(ReadOps)
ASSUME DataAssumption == Body \in [Slots -> Seq(Byte)] /\ Sizes \subseteq Nat
ASSUME CapacityAssumption ==
    MaxRows \in Nat /\ MaxLength \in Nat /\ MaxRows <= MaxLength

VARIABLES
    meta,    \* entry size in the metadata the KV entry holds, or NoTable
    rows,    \* the table file
    file,    \* the .idx file: its keys
    objs,    \* the tableIndex objects that "indices" or a handler refers to
    cur,     \* the one in "indices": a member of DOMAIN objs, or 0
    chan,    \* the channel of the file's worker
    batch,   \* its "pending"
    running, \* whether it is in executeBatch
    pc, req

vars == <<meta, rows, file, objs, cur, chan, batch, running, pc, req>>

NoTable == -1
NoRequest == [op |-> "none", id |-> 0, from |-> "top", key |-> NoKey]
\* r the request, size the entry size it uses, pos the id answered by the worker
\* or looked up, obj the index object in hand, got the rows read
Idle == [r |-> NoRequest, size |-> 0, pos |-> 0, obj |-> 0, got |-> <<>>]

\* Names for the index objects: a client refers to one at most.
Objects == 1 .. Cardinality(Clients) + 1
NoObjects == [o \in {} |-> EmptyIndex]
Held(clients) == {req[c].obj : c \in clients} \ {0}
Collect(o, live) == [x \in DOMAIN o \cap live |-> o[x]]

Init ==
    /\ meta = NoTable /\ rows = <<>> /\ file = <<>>
    /\ objs = NoObjects /\ cur = 0
    /\ chan = <<>> /\ batch = <<>> /\ running = FALSE
    /\ pc = [c \in Clients |-> "idle"]
    /\ req = [c \in Clients |-> Idle]

Goto(c, step) == pc' = [pc EXCEPT ![c] = step]
Return(c) == Goto(c, "idle") /\ req' = [req EXCEPT ![c] = Idle]

worker == <<chan, batch, running>>
index  == <<file, objs, cur>>

-----------------------------------------------------------------------------
(* getIndex *)

\* Where a handler goes with the index object it got.
WithIndex(step) == CASE step = "check" -> "checked"
                     [] step = "look"  -> "looking"
                     [] step = "index" -> "apply"

Getting(c) == pc[c] \in {"check", "look", "index"}

\* The object in "indices", or a new one loaded from the file.
IndexGet(c) ==
    /\ Getting(c) /\ req[c].obj = 0
    /\ \/ /\ cur # 0
          /\ req' = [req EXCEPT ![c].obj = cur]
          /\ Goto(c, WithIndex(pc[c]))
          /\ UNCHANGED objs
       \/ /\ cur = 0
          /\ LET o == CHOOSE x \in Objects \ DOMAIN objs : TRUE
             IN  /\ objs' = [x \in DOMAIN objs \cup {o} |->
                                IF x = o THEN Load(file) ELSE objs[x]]
                 /\ req' = [req EXCEPT ![c].obj = o]
          /\ UNCHANGED pc
    /\ UNCHANGED <<meta, rows, file, cur, worker>>

\* indices.LoadOrStore: the loaded object is published, unless another was.
IndexPublish(c) ==
    /\ Getting(c) /\ req[c].obj # 0
    /\ \/ cur = 0 /\ cur' = req[c].obj /\ UNCHANGED <<objs, req>>
       \/ /\ cur # 0
          /\ req' = [req EXCEPT ![c].obj = cur]
          /\ objs' = Collect(objs, Held(Clients \ {c}) \cup {cur})
          /\ UNCHANGED cur
    /\ Goto(c, WithIndex(pc[c]))
    /\ UNCHANGED <<meta, rows, file, worker>>

-----------------------------------------------------------------------------
(* SaveIncremental *)

\* "Body size exceeds entry size"
Fits(r, size) == Len(Body[r.key]) <= size

\* Only a request that inserts a key looks it up first.
NeedIndexInsert(r) == r.key # NoKey /\ r.op # "overwrite"
Checked(r) == IF NeedIndexInsert(r) THEN "check" ELSE "send"

\* Where a save goes once it has the entry size: on, or out with an error, after
\* the look for a duplicate key if it needs one.
Proceed(c, r, size) ==
    IF NeedIndexInsert(r) \/ Fits(r, size)
    THEN Goto(c, Checked(r)) /\ req' = [req EXCEPT ![c] = [Idle EXCEPT !.r = r, !.size = size]]
    ELSE Return(c)

\* GetElementByKey: without metadata the handler creates some, with the size its
\* header asks for; with metadata that is the size, whatever the header says.
SaveOpen(c, r, size) ==
    /\ pc[c] = "idle"
    /\ IF meta = NoTable
       THEN /\ Goto(c, "create")
            /\ req' = [req EXCEPT ![c] = [Idle EXCEPT !.r = r, !.size = size]]
       ELSE Proceed(c, r, meta)
    /\ UNCHANGED <<meta, rows, index, worker>>

\* SaveElementByKey of the new metadata: whoever comes last wins. The body is looked
\* at after that: a first save that is refused leaves a table of its size.
SaveCreate(c) ==
    /\ pc[c] = "create"
    /\ meta' = req[c].size
    /\ Proceed(c, req[c].r, req[c].size)
    /\ UNCHANGED <<rows, index, worker>>

\* Done with the index object, for this lookup.
Drop(c) == objs' = Collect(objs, Held(Clients \ {c}) \cup {cur})

\* "entry_key already exists".
SaveCheck(c) ==
    /\ pc[c] = "checked"
    /\ Drop(c)
    /\ IF Has(objs[req[c].obj], req[c].r.key) \/ ~Fits(req[c].r, req[c].size)
       THEN Return(c)
       ELSE Goto(c, "send") /\ req' = [req EXCEPT ![c].obj = 0]
    /\ UNCHANGED <<meta, rows, file, cur, worker>>

\* sendToFileWorker
Send(c) ==
    /\ pc[c] = "send"
    /\ chan' = Append(chan, c)
    /\ Goto(c, "queued")
    /\ UNCHANGED <<meta, rows, index, batch, running, req>>

\* Without a key there is nothing to index: the id goes to the caller.
SaveReturn(c) ==
    /\ pc[c] = "answered"
    /\ Return(c)
    /\ UNCHANGED <<meta, rows, index, worker>>

\* incindex.Insert or Set with the id that the worker answered: the body under
\* idx.mu, of whichever index object it got, the save of the file included. A
\* duplicate key is answered with 409; Set has padded the list by then.
SaveApply(c) ==
    LET r == req[c].r
        t == objs[req[c].obj]
        p == req[c].pos
        live == Held(Clients \ {c}) \cup {cur}
        Becomes(u) == objs' = Collect([objs EXCEPT ![req[c].obj] = u], live)
    IN  /\ pc[c] = "apply"
        /\ \/ /\ r.op = "overwrite" /\ TakenElsewhere(t, p, r.key)
              /\ Becomes([t EXCEPT !.keys = Pad(@, p + 1)])
              /\ UNCHANGED file
           \/ /\ r.op = "overwrite" /\ ~TakenElsewhere(t, p, r.key)
              /\ Becomes(Set(t, p, r.key))
              /\ file' = Set(t, p, r.key).keys
           \/ /\ r.op # "overwrite" /\ Has(t, r.key)
              /\ Becomes(t)
              /\ UNCHANGED file
           \/ /\ r.op # "overwrite" /\ ~Has(t, r.key)
              /\ Becomes(Insert(t, p, r.key))
              /\ file' = Insert(t, p, r.key).keys
        /\ Return(c)
        /\ UNCHANGED <<meta, rows, cur, worker>>

-----------------------------------------------------------------------------
(* ReadIncremental *)

ReadOpen(c, r) ==
    /\ pc[c] = "idle"
    /\ meta # NoTable
    /\ req' = [req EXCEPT ![c] = [Idle EXCEPT !.r = r, !.pos = r.id, !.size = meta]]
    /\ Goto(c, IF r.op = "by_key" THEN "look" ELSE "send")
    /\ UNCHANGED <<meta, rows, index, worker>>

\* incindex.Lookup, 404 for an unknown key.
ReadLookup(c) ==
    LET t == objs[req[c].obj]
        k == req[c].r.key
    IN  /\ pc[c] = "looking"
        /\ Drop(c)
        /\ IF Has(t, k)
           THEN /\ req' = [req EXCEPT ![c].pos = t.positions[k], ![c].obj = 0]
                /\ Goto(c, "send")
           ELSE Return(c)
        /\ UNCHANGED <<meta, rows, file, cur, worker>>

ReadReturn(c) ==
    /\ pc[c] = "got"
    /\ Return(c)
    /\ UNCHANGED <<meta, rows, index, worker>>

-----------------------------------------------------------------------------
(* DeleteIncremental *)

DeleteOpen(c) ==
    /\ pc[c] = "idle"
    /\ meta # NoTable
    /\ req' = [req EXCEPT ![c].r.op = "delete"]
    /\ Goto(c, "send")
    /\ UNCHANGED <<meta, rows, index, worker>>

\* DropTable: indices.Delete, then os.Remove of the file.
DeleteForget(c) ==
    /\ pc[c] = "forget"
    /\ cur' = 0
    /\ objs' = Collect(objs, Held(Clients))
    /\ Goto(c, "unlink")
    /\ UNCHANGED <<meta, rows, file, worker, req>>

DeleteUnlink(c) ==
    /\ pc[c] = "unlink"
    /\ file' = <<>>
    /\ Goto(c, "unmeta")
    /\ UNCHANGED <<meta, rows, objs, cur, worker, req>>

\* RemoveElementByKey; the span of the metadata is freed as in KvStore.
DeleteMeta(c) ==
    /\ pc[c] = "unmeta"
    /\ meta' = NoTable
    /\ Return(c)
    /\ UNCHANGED <<rows, index, worker>>

-----------------------------------------------------------------------------
(* The file worker: fileWorkerLoop and the inc parts of executeBatch. *)

DeleteNext == chan # <<>> /\ req[Head(chan)].r.op = "delete"

WorkerReceive ==
    /\ ~running /\ chan # <<>> /\ ~DeleteNext
    /\ batch' = Append(batch, Head(chan))
    /\ chan' = Tail(chan)
    /\ UNCHANGED <<meta, rows, index, running, pc, req>>

\* The batch is executed when the channel is empty or a delete is received.
WorkerStart ==
    /\ ~running /\ batch # <<>>
    /\ chan = <<>> \/ DeleteNext
    /\ running' = TRUE
    /\ UNCHANGED <<meta, rows, index, chan, batch, pc, req>>

\* handleDeleteIncFile: the file is removed and opened again, empty.
WorkerDelete ==
    /\ ~running /\ batch = <<>> /\ DeleteNext
    /\ rows' = <<>>
    /\ chan' = Tail(chan)
    /\ Goto(Head(chan), "forget")
    /\ UNCHANGED <<meta, index, batch, running, req>>

\* executeBatch takes inserts and overwrites first, then appends, then reads, each
\* kind in the order of the batch.
Rank(c) == CASE req[c].r.op \in {"insert", "overwrite"} -> 1
             [] req[c].r.op = "append" -> 2
             [] OTHER -> 3

Turn(i) == \A j \in DOMAIN batch :
              j # i => \/ Rank(batch[i]) < Rank(batch[j])
                       \/ Rank(batch[i]) = Rank(batch[j]) /\ i < j

\* Variant: an insert counts from the bottom, whatever it asked for.
EffIDFromBottom(r) ==
    CASE r.op = "append" -> Len(rows)
      [] r.op = "overwrite" /\ r.from = "top" -> Len(rows) - 1 - r.id
      [] OTHER -> r.id

\* The row a request means: "top" counts from the newest row, or, when inserting,
\* from the end of the file.
EffID(r) ==
    CASE r.op = "append" -> Len(rows)
      [] r.op = "insert" /\ r.from = "top" -> Len(rows) - r.id
      [] r.op = "overwrite" /\ r.from = "top" -> Len(rows) - 1 - r.id
      [] OTHER -> r.id

\* Variant: a full disk goes unnoticed.
InRangeUnlimited(r) ==
    CASE r.op = "append" -> TRUE
      [] r.op = "insert" -> r.id <= Len(rows)
      [] OTHER -> r.id < Len(rows)

\* The id is one of the file's, and there is room on the disk.
InRange(r) ==
    CASE r.op = "append" -> Len(rows) < MaxRows
      [] r.op = "insert" -> Len(rows) < MaxRows /\ r.id <= Len(rows)
      [] OTHER -> r.id < Len(rows) /\ EffID(r) < MaxRows

Without(i) == [j \in 1 .. Len(batch) - 1 |-> IF j < i THEN batch[j] ELSE batch[j + 1]]

\* The rows read: one, or the first or last N; the last ones newest first.
RowsRead(r, pos) ==
    LET n == IF r.id < Len(rows) THEN r.id ELSE Len(rows)
    IN  CASE r.op = "first" -> SubSeq(rows, 1, n)
          [] r.op = "last" -> [i \in 1 .. n |-> rows[Len(rows) + 1 - i]]
          [] OTHER -> IF pos < Len(rows) THEN <<rows[pos + 1]>> ELSE <<>>

\* A row that Truncate added and nothing was written to.
ZeroRow(size) == [i \in 1 .. RowLength(size) |-> 0]

\* Variant: the tail is moved from its front, each row over the next unread one.
ShiftedForward(size, pos, src) ==
    [i \in 1 .. Len(rows) + 1 |->
        IF i > pos + 1 /\ i <= Len(rows) + pos - src + 1 THEN rows[pos + 1]
        ELSE IF i <= Len(rows) THEN rows[i] ELSE ZeroRow(size)]

\* An insert at pos: Truncate has made room, and the rows from the last down to
\* src have been copied to the next place.
Shifted(size, pos, src) ==
    [i \in 1 .. Len(rows) + 1 |->
        IF i > src + 1 THEN rows[i - 1]
        ELSE IF i <= Len(rows) THEN rows[i] ELSE ZeroRow(size)]

Inserted(c) ==
    LET pos == EffID(req[c].r)
    IN  [Shifted(req[c].size, pos, pos) EXCEPT
            ![pos + 1] = EncodeIncEntry(req[c].size, Body[req[c].r.key])]

Written(c) ==
    LET row == EncodeIncEntry(req[c].size, Body[req[c].r.key])
    IN  CASE req[c].r.op = "append" -> Append(rows, row)
          [] req[c].r.op = "insert" -> Inserted(c)
          [] OTHER -> [rows EXCEPT ![EffID(req[c].r) + 1] = row]

\* An insert that finds the disk full when it moves the first row has made the file
\* longer by then, and does not take that back.
Refused(c) ==
    IF req[c].r.op = "insert" /\ req[c].r.id <= Len(rows) /\ Len(rows) < MaxLength
    THEN Append(rows, ZeroRow(req[c].size)) ELSE rows

\* One request of the batch. Inserting moves the rows from effID on up by one. An
\* id out of range or a full disk ends the handler: there is no id to decode.
Write(c) ==
    LET r == req[c].r
    IN  /\ Rank(c) # 3
        /\ IF InRange(r)
           THEN /\ rows' = Written(c)
                /\ Goto(c, IF r.key = NoKey THEN "answered" ELSE "index")
                /\ req' = [req EXCEPT ![c].pos = EffID(r)]
           ELSE Return(c) /\ rows' = Refused(c)

\* The handler decodes what it is answered.
Read(c) ==
    /\ Rank(c) = 3
    /\ LET found == RowsRead(req[c].r, req[c].pos)
       IN  req' = [req EXCEPT ![c].got =
                      [i \in DOMAIN found |-> DecodeIncEntry(found[i])]]
    /\ Goto(c, "got")
    /\ UNCHANGED rows

WorkerServe ==
    /\ running
    /\ \E i \in DOMAIN batch :
          /\ Turn(i)
          /\ Write(batch[i]) \/ Read(batch[i])
          /\ batch' = Without(i)
    /\ running' = (Len(batch) > 1)
    /\ UNCHANGED <<meta, index, chan>>

-----------------------------------------------------------------------------
\* What the death of the process may leave of the file: an insert may be half done.
Inserting(c) ==
    /\ running
    /\ \E i \in DOMAIN batch : Turn(i) /\ batch[i] = c
    /\ req[c].r.op = "insert" /\ InRange(req[c].r)

Torn ==
    UNION {{Shifted(req[c].size, EffID(req[c].r), src) :
                src \in EffID(req[c].r) .. Len(rows)} : c \in {d \in Clients : Inserting(d)}}

\* The process dies: rows, .idx file and metadata are on disk.
Crash ==
    /\ MayCrash
    /\ rows' \in Torn \cup {rows}
    /\ objs' = NoObjects /\ cur' = 0
    /\ chan' = <<>> /\ batch' = <<>> /\ running' = FALSE
    /\ pc' = [c \in Clients |-> "idle"]
    /\ req' = [c \in Clients |-> Idle]
    /\ UNCHANGED <<meta, file>>

Worker == WorkerReceive \/ WorkerStart \/ WorkerDelete \/ WorkerServe

Client(c) ==
    \/ \E r \in Saves, size \in Sizes : c \in Savers /\ SaveOpen(c, r, size)
    \/ SaveCreate(c) \/ SaveCheck(c) \/ SaveReturn(c) \/ SaveApply(c)
    \/ \E r \in Reads : c \in Readers /\ ReadOpen(c, r)
    \/ ReadLookup(c) \/ ReadReturn(c)
    \/ c \in Deleters /\ DeleteOpen(c)
    \/ DeleteForget(c) \/ DeleteUnlink(c) \/ DeleteMeta(c)
    \/ IndexGet(c) \/ IndexPublish(c) \/ Send(c)

Next == Worker \/ Crash \/ \E c \in Clients : Client(c)

Spec == Init /\ [][Next]_vars

-----------------------------------------------------------------------------
(* Properties. *)

Steps == {"idle", "create", "check", "checked", "send", "queued", "answered", "index",
          "apply", "look", "looking", "got", "forget", "unlink", "unmeta"}

Handler == [r : Request(SaveOps \cup ReadOps \cup {"delete", "none"}),
            size : Sizes \cup {0}, pos : Nat, obj : Objects \cup {0},
            got : Seq(Seq(Byte))]

Types ==
    /\ meta \in Sizes \cup {NoTable}
    /\ rows \in Seq(Seq(Byte)) /\ Len(rows) <= MaxLength
    /\ file \in Seq(Slots)
    /\ objs = [o \in DOMAIN objs |-> objs[o]] /\ DOMAIN objs \subseteq Objects
    /\ \A o \in DOMAIN objs : Table(objs[o])
    /\ cur \in DOMAIN objs \cup {0}
    /\ chan \in Seq(Clients) /\ batch \in Seq(Clients) /\ running \in BOOLEAN
    /\ pc \in [Clients -> Steps] /\ req \in [Clients -> Handler]

Holding(step) == step \in {"checked", "looking", "apply"}

\* The index objects are those in "indices" and in the hands of handlers, which
\* hold one from getIndex until they are done with it.
ObjectsOK ==
    /\ Held(Clients) \subseteq DOMAIN objs
    /\ DOMAIN objs \subseteq Held(Clients) \cup {cur}
    /\ \A c \in Clients :
          /\ Holding(pc[c]) => req[c].obj # 0
          /\ req[c].obj # 0 => Holding(pc[c]) \/ Getting(c)

\* What a handler may be doing in each step. The body that a save sends to the
\* worker fits the rows.
StepOK(step, h) ==
    LET save == h.r.op \in SaveOps
    IN  /\ step = "create" => save /\ h.size \in Sizes
        /\ step \in {"check", "checked"} =>
              save /\ NeedIndexInsert(h.r) /\ h.size \in Sizes
        /\ step \in {"send", "queued"} /\ save => Fits(h.r, h.size) /\ h.size \in Sizes
        /\ step = "answered" => save /\ h.r.key = NoKey
        /\ step \in {"index", "apply"} => save /\ h.r.key # NoKey
        /\ step \in {"look", "looking"} => h.r.op = "by_key"
        /\ step = "got" => ~save
        /\ step \in {"forget", "unlink", "unmeta"} => h.r.op = "delete"

Once(s) == \A i, j \in DOMAIN s : s[i] = s[j] => i = j
In(s, c) == \E i \in DOMAIN s : s[i] = c

\* Who waits for the worker is in its channel or in its batch, once.
QueueOK ==
    /\ Once(chan) /\ Once(batch)
    /\ \A c \in Clients :
          /\ ~(In(chan, c) /\ In(batch, c))
          /\ pc[c] = "queued" <=> In(chan, c) \/ In(batch, c)
          /\ In(batch, c) => req[c].r.op # "delete"
    /\ running => batch # <<>>

\* Types of the state, who holds which index object, and who waits where.
TypeOK ==
    /\ Types /\ ObjectsOK
    /\ \A c \in Clients : StepOK(pc[c], req[c])
    /\ QueueOK

\* However saves, deletes and crashes interleave, every index object and the .idx
\* file name each slot by one key and each key by one slot (incIndex positions).
IndexSound ==
    /\ \A o \in DOMAIN objs : OneToOne(objs[o])
    /\ OneToOne(Load(file))

\* The index as the next request finds it.
Current == IF cur # 0 THEN objs[cur] ELSE Load(file)

\* No handler is between its change of the file and its change of the index.
Settled == \A c \in Clients : pc[c] \notin {"index", "apply", "forget", "unlink"}

\* "entry_key stays bound to a logical row even if you insert new entries at
\* arbitrary positions" (incremental.md): a key finds the row saved with it.
KeyFindsRow ==
    Settled => \A k \in DOMAIN Current.positions :
                  LET i == Current.positions[k] + 1
                  IN  i \in DOMAIN rows /\ DecodeIncEntry(rows[i]) = Body[k]

\* A restart would find every key where the running index has it.
IndexDurable == cur # 0 => Load(file).positions = objs[cur].positions

\* read_type=by_key answers with the row of its key, or with 404.
ReadsOwnRow ==
    \A c \in Clients : pc[c] = "got" /\ req[c].r.op = "by_key" =>
        req[c].got \in {<<>>, <<Body[req[c].r.key]>>}

\* The id answered to a save, with a key or without, is the position of its row when
\* it was written, and an insert or overwrite that counts from the top leaves as many
\* newer rows as it asked for (save_inc.go, effID in executeBatch).
AckPlacesRow ==
    [][\A c \in Clients : pc[c] = "queued" /\ pc'[c] \in {"answered", "index"} =>
          LET r == req[c].r
              i == req'[c].pos + 1
          IN  /\ i \in DOMAIN rows' /\ DecodeIncEntry(rows'[i]) = Body[r.key]
              /\ r.op = "append" => i = Len(rows')
              /\ r.op # "append" =>
                    r.id = IF r.from = "top" THEN Len(rows') - i ELSE i - 1]_vars

\* A step keeps every row, in the order they have, or writes one of them anew, or
\* removes the whole file: wherever the process dies in an insert, no row that was
\* there is overwritten before it was copied (executeBatch, "reverse-copy").
Embeds(a, b) ==
    \E f \in [DOMAIN a -> DOMAIN b] :
        \A i, j \in DOMAIN a : b[f[i]] = a[i] /\ (i < j => f[i] < f[j])
RowsKept ==
    [][\/ Embeds(rows, rows')
       \/ rows' = <<>>
       \/ /\ Len(rows') = Len(rows)
          /\ \E i \in DOMAIN rows : \A j \in DOMAIN rows \ {i} : rows'[j] = rows[j]]_vars

\* A save that is answered with an error has left the rows as they were. The code
\* does not keep it: see Refused.
RefusedKeepsRows ==
    [][\A c \in Clients :
          pc[c] = "queued" /\ pc'[c] = "idle" /\ req[c].r.key # NoKey
          => rows' = rows]_vars

\* "max_entry_size is fixed per table" (incremental.md): a save lays its row out
\* with the entry size that the table's metadata holds.
SizeAgreed ==
    \A c \in Clients :
        pc[c] \in {"send", "queued"} /\ req[c].r.op # "delete" /\ meta # NoTable =>
            req[c].size = meta
=============================================================================
