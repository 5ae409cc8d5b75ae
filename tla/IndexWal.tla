------------------------------ MODULE IndexWal ------------------------------
(***************************************************************************)
(* The index of one table with its log (data/fileSystem/v1/mapManager.go): *)
(*   - saveElement and removeElement change a shard of the map, then send  *)
(*     the change to walChan;                                              *)
(*   - runWalWriter takes it from there into walBuf, and flushes the       *)
(*     buffer after 100 lines or 50 ms;                                    *)
(*   - snapshotWorker writes the map to a temporary file, shard by shard,  *)
(*     renames it to index.snap, flushes the log, waits for its fsync      *)
(*     (module WalSync) and replaces the log by an empty one;              *)
(*   - a start loads the snapshot and applies the log to it; the first one *)
(*     imports the log that all tables shared in an older version.         *)
(* A write to the log may fail: bufio keeps the error, and every line is   *)
(* dropped until rotateWal makes a new buffer. rotateWal may fail too, and *)
(* leaves a closed file: it then fails for good, at closing it again.      *)
(***************************************************************************)
EXTENDS Integers, Sequences, FiniteSets

CONSTANTS
    Keys, Spans, Absent,
    Clients,
    Owner,      \* [Keys -> SUBSET Clients], the clients that change each key
    Shards,     \* the keys of each shard, in the order of the shards
    ChanCap,    \* capacity of walChan (100000)
    MaxLines,   \* bound on the lines of log, buffer and channel
    Field,      \* [Keys -> Keys], the key up to its first "|" or line break
    Legacy,     \* what importFromLegacy finds for the table
    Snapshots,  \* whether the process lives until the snapshot worker ticks
    MayCrash,   \* whether the process may die
    MayFail     \* whether writing to the log or making a snapshot may fail

\* Absent is no key and no span; every key is in a shard (getShard), and there
\* are finitely many; the import finds at most one span of a key.
ASSUME ConstantsAssumption ==
    /\ Absent \notin Keys /\ Absent \notin Spans
    /\ Shards \in Seq(SUBSET Keys) /\ Shards # <<>>
    /\ \A k \in Keys : \E i \in DOMAIN Shards : k \in Shards[i]
    /\ Legacy = [k \in Keys |-> Legacy[k]]

VARIABLES
    index,    \* the map, all shards together
    walChan,  \* changes on their way to the writer
    walBuf,   \* lines in its buffer
    wal,      \* lines of index.wal
    snap,     \* index.snap
    temp,     \* the snapshot being written
    shard,    \* the next shard to copy
    step,     \* the snapshot worker: "wait", "copy", "rename", "flush", "rotate"
    op,       \* per client: the change it has made and not yet sent
    broken,   \* the error that walBuf keeps
    closed,   \* whether rotateWal has failed, which leaves walFile closed
    missed    \* history, per key: "during" if it was changed while the snapshot
              \* in the making was, "old" if its line may be lost, else "no"

vars == <<index, walChan, walBuf, wal, snap, temp, shard, step, op, broken, closed, missed>>
snapshot == <<snap, temp, shard, step>>

\* A line: "S|key|file|start|end", or "D|key" with Absent as the span.
Line == [key : Keys, span : Spans \cup {Absent}]
NoOp == [key |-> Absent, span |-> Absent]
Stored == Spans \cup {Absent} \cup {Legacy[k] : k \in Keys}
Empty == [k \in Keys |-> Absent]

\* The line of a key that has a "|" or a line break has too many fields, and is
\* skipped; but "D|a|b" removes a.
Plain(k) == Field[k] = k
Reads(line, k) ==
    Field[line.key] = k /\ (Plain(line.key) \/ line.span = Absent)

\* applyWalFile: for each key the last line that names it counts.
LinesOf(lines, k) == {i \in DOMAIN lines : Reads(lines[i], k)}
Replay(map, lines) ==
    [k \in Keys |->
        IF LinesOf(lines, k) = {} THEN map[k]
        ELSE lines[CHOOSE i \in LinesOf(lines, k) :
                       \A j \in LinesOf(lines, k) : j <= i].span]

\* loadSnapshot reads lines of the same kind.
LoadSnapshot == [k \in Keys |-> IF Plain(k) THEN snap[k] ELSE Absent]

\* What a start finds: loadSnapshot, then applyWalFile.
Recovered == Replay(LoadSnapshot, wal)

\* The first start after the migration: importFromLegacy, since there is neither
\* snapshot nor log. setupWalWriter makes a log at once, so it is not done again,
\* and what was imported is in no file of the table until its first snapshot.
Init ==
    /\ index = Legacy
    /\ walChan = <<>> /\ walBuf = <<>> /\ wal = <<>>
    /\ snap = Empty /\ temp = Empty /\ shard = 1 /\ step = "wait"
    /\ op = [c \in Clients |-> NoOp]
    /\ broken = FALSE /\ closed = FALSE
    /\ missed = [k \in Keys |-> IF Legacy[k] = Absent THEN "no" ELSE "old"]

\* The lines of these keys are lost.
Lose(keys) ==
    missed' = [k \in Keys |->
                  IF k \in keys /\ missed[k] = "no" THEN "old" ELSE missed[k]]

-----------------------------------------------------------------------------
(* saveElement, removeElement *)

\* storeKey or deleteKey, under the lock of the shard.
Change(c, k, s) ==
    /\ op[c] = NoOp /\ c \in Owner[k]
    /\ Len(wal) + Len(walBuf) + Len(walChan) < MaxLines
    /\ index' = [index EXCEPT ![k] = s]
    /\ op' = [op EXCEPT ![c] = [key |-> k, span |-> s]]
    /\ missed' = [missed EXCEPT ![k] = IF step = "wait" THEN "no" ELSE "during"]
    /\ UNCHANGED <<walChan, walBuf, wal, snapshot, broken, closed>>

\* Variant: sends whether or not there was a change.
SendUnguarded(c) ==
    /\ Len(walChan) < ChanCap
    /\ walChan' = Append(walChan, op[c])
    /\ op' = [op EXCEPT ![c] = NoOp]
    /\ UNCHANGED <<index, walBuf, wal, snapshot, broken, missed, closed>>

\* enqueueWal, after the lock of the shard was released.
Send(c) ==
    /\ op[c] # NoOp /\ Len(walChan) < ChanCap
    /\ walChan' = Append(walChan, op[c])
    /\ op' = [op EXCEPT ![c] = NoOp]
    /\ UNCHANGED <<index, walBuf, wal, snapshot, broken, missed, closed>>

\* Variant: the new lines get in front of the old ones.
FlushedInFront == wal' = walBuf \o wal /\ walBuf' = <<>>

\* walBuf.Flush
Flushed == wal' = wal \o walBuf /\ walBuf' = <<>>

KeysOf(lines) == {lines[i].key : i \in DOMAIN lines}

\* flushWal ignores the error of Flush: the first n lines are in the file, the
\* others stay in a buffer that will not write again. (A line cut in two reads as
\* no line of its key, or as a span cut short: its key counts as lost.)
FlushFails ==
    /\ MayFail
    /\ \E n \in 0 .. Len(walBuf) - 1 :
          /\ wal' = wal \o SubSeq(walBuf, 1, n)
          /\ Lose(KeysOf(SubSeq(walBuf, n + 1, Len(walBuf))))
    /\ walBuf' = <<>>
    /\ broken' = TRUE

Flush == (Flushed /\ UNCHANGED <<broken, missed>>) \/ FlushFails

\* With the channel full enqueueWal flushes the buffer, then waits for room: the
\* select has a default, so its "WAL timeout" of 5 seconds never happens.
SendBlocked(c) ==
    /\ op[c] # NoOp /\ Len(walChan) >= ChanCap
    /\ Flush
    /\ UNCHANGED <<index, walChan, snapshot, op, closed>>

-----------------------------------------------------------------------------
(* runWalWriter *)

WriteLine ==
    /\ walChan # <<>>
    /\ walChan' = Tail(walChan)
    /\ IF broken
       THEN Lose({walChan[1].key}) /\ UNCHANGED walBuf
       ELSE walBuf' = Append(walBuf, walChan[1]) /\ UNCHANGED missed
    /\ UNCHANGED <<index, wal, snapshot, op, broken, closed>>

\* Variant: the ticker never flushes a buffer that is not full.
FlushWalWhenFull ==
    /\ Len(walBuf) > 1
    /\ Flush
    /\ UNCHANGED <<index, walChan, snapshot, op, closed>>

FlushWal ==
    /\ walBuf # <<>>
    /\ Flush
    /\ UNCHANGED <<index, walChan, snapshot, op, closed>>

-----------------------------------------------------------------------------
(* writeSnapshot, rotateWal *)

InFlight == KeysOf(walChan) \cup ({op[c].key : c \in Clients} \cap Keys)

SnapshotBegin ==
    /\ Snapshots /\ step = "wait"
    /\ temp' = Empty /\ shard' = 1 /\ step' = "copy"
    /\ missed' = [k \in Keys |-> IF k \in InFlight THEN "during" ELSE missed[k]]
    /\ UNCHANGED <<index, walChan, walBuf, wal, snap, op, broken, closed>>

\* Variant: every shard starts the file anew.
SnapshotCopyTruncates ==
    /\ step = "copy"
    /\ temp' = [k \in Keys |-> IF k \in Shards[shard] THEN index[k] ELSE Absent]
    /\ shard' = shard + 1
    /\ step' = IF shard = Len(Shards) THEN "rename" ELSE "copy"
    /\ UNCHANGED <<index, walChan, walBuf, wal, snap, op, broken, missed, closed>>

\* One shard, under its read lock.
SnapshotCopy ==
    /\ step = "copy"
    /\ temp' = [k \in Keys |-> IF k \in Shards[shard] THEN index[k] ELSE temp[k]]
    /\ shard' = shard + 1
    /\ step' = IF shard = Len(Shards) THEN "rename" ELSE "copy"
    /\ UNCHANGED <<index, walChan, walBuf, wal, snap, op, broken, missed, closed>>

SnapshotRename ==
    /\ step = "rename"
    /\ snap' = temp
    /\ step' = "flush"
    /\ UNCHANGED <<index, walChan, walBuf, wal, temp, shard, op, broken, missed, closed>>

\* The error of os.Rename is reported, and the log rotated all the same: no key
\* has its line any more.
SnapshotRenameFails ==
    /\ MayFail /\ step = "rename"
    /\ step' = "flush"
    /\ missed' = [k \in Keys |-> "during"]
    /\ UNCHANGED <<index, walChan, walBuf, wal, snap, temp, shard, op, broken, closed>>

\* Creating, writing or syncing the temporary file fails: no snapshot this time.
SnapshotAbandoned ==
    /\ MayFail /\ step = "copy"
    /\ step' = "wait" /\ temp' = Empty /\ shard' = 1
    /\ missed' = [k \in Keys |-> IF missed[k] = "during" THEN "old" ELSE missed[k]]
    /\ UNCHANGED <<index, walChan, walBuf, wal, snap, op, broken, closed>>

SnapshotFlush ==
    /\ step = "flush"
    /\ Flush
    /\ step' = "rotate"
    /\ UNCHANGED <<index, walChan, snap, temp, shard, op, closed>>

\* rotateWal removes the log and makes a new file and a new buffer: lines flushed
\* or buffered since the shards were copied go with the old ones. A key that was
\* at rest since the snapshot began is in it, whatever happened to its line.
Covered == [k \in Keys |-> IF missed[k] = "during" THEN "old" ELSE "no"]

SnapshotRotate ==
    /\ step = "rotate" /\ ~closed
    /\ wal' = <<>> /\ walBuf' = <<>> /\ broken' = FALSE
    /\ step' = "wait"
    /\ missed' = Covered
    /\ UNCHANGED <<index, walChan, snap, temp, shard, op, closed>>

\* A log that stays is read after the snapshot, so its lines still count: only a
\* key without any is given back by the snapshot alone.
CoveredBeside(lines) ==
    [k \in Keys |->
        IF \/ missed[k] = "during"
           \/ missed[k] = "old" /\ LinesOf(lines, k) # {}
           \/ k \in KeysOf(walBuf)
        THEN "old" ELSE "no"]

\* The log is closed, and then cannot be removed, or is removed and cannot be made
\* again: walBuf writes to a closed file from now on, so what is in it is lost.
RotateFails ==
    /\ MayFail /\ step = "rotate" /\ ~closed
    /\ \/ UNCHANGED wal /\ missed' = CoveredBeside(wal)
       \/ wal' = <<>> /\ missed' = Covered
    /\ walBuf' = <<>> /\ broken' = TRUE /\ closed' = TRUE
    /\ step' = "wait"
    /\ UNCHANGED <<index, walChan, snap, temp, shard, op>>

\* walFile.Close() of a closed file is an error, at which rotateWal returns.
RotateRefused ==
    /\ step = "rotate" /\ closed
    /\ missed' = CoveredBeside(wal)
    /\ step' = "wait"
    /\ UNCHANGED <<index, walChan, walBuf, wal, snap, temp, shard, op, broken, closed>>

-----------------------------------------------------------------------------
\* The process dies and starts again: loadIndex.
Restart ==
    /\ MayCrash
    /\ index' = Recovered
    /\ walChan' = <<>> /\ walBuf' = <<>> /\ broken' = FALSE /\ closed' = FALSE
    /\ temp' = Empty /\ shard' = 1 /\ step' = "wait"
    /\ op' = [c \in Clients |-> NoOp]
    /\ missed' = [k \in Keys |-> "no"]
    /\ UNCHANGED <<wal, snap>>

Writer == WriteLine \/ FlushWal
SnapshotWorker ==
    \/ SnapshotBegin \/ SnapshotCopy \/ SnapshotRename \/ SnapshotRenameFails
    \/ SnapshotAbandoned \/ SnapshotFlush \/ SnapshotRotate
    \/ RotateFails \/ RotateRefused

Next ==
    \/ \E c \in Clients :
          \/ \E k \in Keys, s \in Spans \cup {Absent} : Change(c, k, s)
          \/ Send(c) \/ SendBlocked(c)
    \/ Writer \/ SnapshotWorker \/ Restart

Spec == Init /\ [][Next]_vars

\* The writer's loop keeps running, its ticker ticks, and a client gets to send.
FairSpec ==
    /\ Spec
    /\ WF_vars(WriteLine) /\ WF_vars(FlushWal)
    /\ \A c \in Clients : WF_vars(Send(c))

-----------------------------------------------------------------------------
(* Properties. *)

\* Types of the state.
TypeOK ==
    /\ index \in [Keys -> Stored]
    /\ walChan \in Seq(Line) /\ walBuf \in Seq(Line) /\ wal \in Seq(Line)
    /\ snap \in [Keys -> Stored] /\ temp \in [Keys -> Stored]
    /\ shard \in 1 .. Len(Shards) + 1
    /\ step \in {"wait", "copy", "rename", "flush", "rotate"}
    /\ step = "copy" => shard <= Len(Shards)
    /\ op \in [Clients -> Line \cup {NoOp}]
    /\ broken \in BOOLEAN /\ closed \in BOOLEAN
    /\ missed \in [Keys -> {"no", "old", "during"}]

\* Snapshot, log, buffer, channel and the changes not yet sent give the index, for
\* every key but those that changed while the last snapshot was written, or whose
\* line was lost (all of them, when the rename failed): a restart brings back an
\* index that the table held. And a key that is at rest through a whole snapshot is
\* safe from then on (writeSnapshot, rotateWal), even if its line was lost before.
LogAgrees ==
    \A k \in Keys :
        missed[k] = "no" /\ (\A c \in Clients : op[c].key # k) =>
            index[k] = Replay(LoadSnapshot, wal \o walBuf \o walChan)[k]

\* The hypotheses of the proof: the key of every line is read as it was written,
\* and the changes of a key are made one after the other, by the one client that
\* sends them.
AllPlain == \A k \in Keys : Plain(k)
OneOwner == \A k \in Keys : \A c, d \in Owner[k] : c = d

\* A change that was not sent yet is the last one of its key.
UnsentIsLast ==
    \A c \in Clients :
        op[c] # NoOp => c \in Owner[op[c].key] /\ index[op[c].key] = op[c].span

\* What the snapshot in the making has of a key that is at rest: nothing of it is
\* in flight, and from the shard that holds it on, the copy is what the index has.
Copied(k) == step # "copy" \/ \E i \in 1 .. shard - 1 : k \in Shards[i]
RestIsCopied ==
    step # "wait" =>
        \A k \in Keys :
            missed[k] # "during" =>
                /\ k \notin InFlight
                /\ Copied(k) => temp[k] = index[k]
                /\ step \in {"flush", "rotate"} => snap[k] = index[k]

LogInv == TypeOK /\ UnsentIsLast /\ RestIsCopied /\ LogAgrees

\* The log is removed only when the snapshot that stands for it is in place
\* (writeSnapshot). The code does not keep it: a failed rename does not return.
RotatesSaved == step = "rotate" => snap = temp

\* A key that nobody changes keeps what was imported for it (importFromLegacy). The
\* code does not keep it when the process dies before the first snapshot.
ImportStays == \A k \in Keys : Owner[k] = {} => index[k] = Legacy[k]

\* The spans that the lines of a key give it, in the order of the lines.
Nth(S, n) == CHOOSE i \in S : Cardinality({j \in S : j <= i}) = n
SpansOf(lines, k) ==
    [n \in 1 .. Cardinality(LinesOf(lines, k)) |-> lines[Nth(LinesOf(lines, k), n)].span]

\* The change of a key that its owner has made and not yet sent.
Senders(k) == {c \in Clients : op[c].key = k}
Unsent(k) ==
    IF Senders(k) = {} THEN <<>> ELSE <<op[CHOOSE c \in Senders(k) : TRUE].span>>

\* Without rotation the log is a history of the index, key by key: what a restart
\* finds, the lines of a key in buffer and channel and its unsent change are values
\* that the index had, in that order (enqueueWal, runWalWriter). The lines of two keys
\* may be in another order than their changes, and a restart may find the two as they
\* never were at one time.
History ==
    [k \in Keys |-> <<Recovered[k]>> \o SpansOf(walBuf \o walChan, k) \o Unsent(k)]
Durable == INSTANCE DurableMap WITH map <- index, history <- History
ImplementsDurableMap == Durable!Spec

\* As long as the process lives every entry reaches the log, or is superseded.
EventuallyLogged ==
    \A k \in Keys, s \in Spans : index[k] = s ~> Recovered[k] = s \/ index[k] # s
=============================================================================
