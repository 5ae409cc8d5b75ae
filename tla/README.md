# TsunamiDB in TLA+

TLA+ models of TsunamiDB (`src/`), the TLC runs that check them on small instances, and
proofs, checked by TLAPS, of what matters most for any number of clients, keys and values:
the data file of a table with its index and free list, also across restarts; the goroutine
and the index object that requests find for it; the log of the index and its fsync loop; the
subscription server; the calls to peers; and the rows of incremental tables.

`PROJECT.json` is the index of this project: components, runs, mutants, the source lines
behind every definition, disagreements found between code and docs, hazards, theorems.

## 1. The system

| Component | State | Operations | Talks to |
| --- | --- | --- | --- |
| File worker (`data/dataManager/v2`) | one goroutine per file: a channel (10000), `pending`, the open file | `write`, `read`, `write_inc`, `write_inc_ow`, `read_inc`, `delete_inc`; batches of what is in the channel | handlers (request and answer channels), free list |
| Direct access (`data/dataManager/v1`) | none: opens the file for each call | `SaveDataToFile`, `ReadDataFromFile` | free list, and the file behind the worker's back |
| Free list (`data/defragmentationManager`) | `fl.blocks` per table, saved as JSON inside each operation | `GetBlock`, `MarkAsFree`, `SaveBlockCheck` | worker, v1, handlers |
| Key index (`data/fileSystem/v1/mapManager.go`) | 256 shards of a map key -> span, `walChan`, `walBuf`, `index.wal`, `index.snap` | `SaveElementByKey`, `RemoveElementByKey`, `GetElementByKey`; log writer, snapshot worker, fsync loop, recovery | handlers |
| Incremental tables (`routes/inc_*.go`) | row file (worker), metadata (a KV entry), entry-key index | `save_inc`, `read_inc`, `delete_inc` | worker, key index, entry-key index, subscriptions |
| Entry-key index (`data/incIndex`) | `indices`: table -> object with `keys`, `positions`; `.idx` file | `Insert`, `Set`, `Lookup`, `DropTable` | handlers |
| Subscriptions (`servers/subscriptions`) | `activeSubs`, `connToKeys`, `pendingAuthKeys`, `connLocks` under `mu` | enable, disable, `HandleWS`, the `Notify*` functions, `cleanupConn` | handlers, WebSocket clients |
| Peer network (`servers/network-manager`) | `peers`, `responseChannels`, one lock | `SendTaskReq`, `HandleResponse`, `listenForMessages`, `handleMsg`, `heartbeatChecker`, `listPeers` | read handler, other nodes |
| Codecs, encryption (`encoding/v1`) | none | `Encode`, `Decode`, rows of incremental tables, AES | handlers |
| Table registry (`fileManager.go`, `mapManager.go`) | `fileWorkers`, `indexRegistry`, `lastIndexCache` | `sendToFileWorker`, `getTableIndex`, `newTableIndex` | handlers, file workers, key index |
| Library (`lib`), SQL stub, config, metrics, debug, start-up | counters, flags | wrappers, parsing, reporting | - |

A save goes: handler -> `Encode` -> worker (or v1) -> `GetBlock` or the end of the file ->
`WriteAt` -> `SaveBlockCheck` -> answer -> `SaveElementByKey` -> `MarkAsFree` of the span
that was replaced -> subscribers. Each arrow is a point where other goroutines run; no lock
spans two of them. The same holds for free, read and the three handlers of incremental
tables.

What is hard here, and where the properties come from:

* three structures (file, index, free list) that must agree on who owns which byte, updated
  one after the other by handlers and by a worker that batches;
* spans and row numbers that are looked up, and used later;
* an index that is durable after a delay next to a free list that is durable at once;
  snapshot, rotation and crash;
* a condition variable whose counters change outside its lock;
* a write lock per connection, kept in a map that cleanup deletes from;
* answers from peers that are matched by task only, timeouts that race with them, a heartbeat
  that writes under the lock everybody needs;
* goroutines and index objects that are made by whichever request comes first;
* errors nobody looks at: of a buffer that then drops every line, of a rename, of a rotation.

The full list, each at its line, is `hazards` in `PROJECT.json`.

## 2. The modules

| Module | Models | Runs | Proofs |
| --- | --- | --- | --- |
| `FreeList` | the operations of the free list, as operators on the map of blocks | through `KvStore` | through `KvStore` |
| `KvStore` | one table: disk, worker, index, free list, clients | `KvOneWriter`, `KvBatchOverlap` | `KvStore_proofs` |
| `KvMap` | abstract: a map from keys to values, and its reads | `ImplementsMap` | theorems `Implements`, `PatientImplementsReads` |
| `KvRecovery` | `KvStore` with a process that dies, also while it saves the free list, and restarts | `KvRestart` | `KvRecovery_proofs` |
| `TableAccess` | how a request gets at the goroutine of its file and the index of its table | `TableAccess` | `TableAccess_proofs` |
| `RowCodec` | the bytes of a row of an incremental table | through `IncTable` | `IncTable_proofs` |
| `IncIndex` | the operations of the entry-key index | through `IncTable` | `IncTable_proofs` |
| `IncTable` | one incremental table with its handlers | `Inc*` | `IncTable_proofs` |
| `Subscriptions` | the subscription server | `Sub*` | `Subscriptions_proofs` |
| `IndexWal` | index, log, snapshot, recovery, failed writes and rotations | `Wal*` | `IndexWal_proofs` |
| `DurableMap` | abstract: a map that restarts, each key with a value it had | `ImplementsDurableMap` | theorem `LogIsHistory` |
| `WalSync` | `flushWal`, `walSyncLoop`, `waitForWalSync` | `WalFsync` | `WalSync_proofs` |
| `PeerNet` | asking the peers for a key, answering them, the heartbeat | `Peer*` | `PeerNet_proofs` |

`MC*` modules hold the constants of the instances, one `.cfg` per run the values.

### How state and actions correspond to the code

**KvStore.** `disk` and `eof` are the file, an array of cells; `index` the table index,
`free` the free list, `chan`, `batch` and `worker` the goroutine of `fileWorkerLoop` with
its channel, `pending` and the local variables of `executeBatch`. `pc[c]` and `req[c]` are a
handler: where it is, and its variables. Value `v` is encoded as the cells `<<v, 1>>` ..
`<<v, Size[v]>>`: what `Encode` gives two values differs in some byte, and a span that holds
a piece of one value and a piece of another is told from either. A write that exceeds
`MaxFile` keeps what fits and fails, as on a full disk. `GetBlock` may fail to save its
list: it has unlisted the block by then, and the caller appends. Direct clients
(`SaveDataToFile`: the encrypted routes, `lib/export`, the tasks of peers) take their span
and write in two steps, and when they append the data goes to wherever the end of the file
is by then (`O_APPEND`). `GetBlock` and the `Seek` that follows when it finds nothing are one
step of the worker (`WorkerStart`) and of a direct save (`DirectAllocate`): what that leaves
out is an append beside a block that was freed in between and would have fitted, a block
that stays free as any other.

**KvRecovery** adds `logged`, for each key every entry it has had (`Remember`). A restart finds
of each key one of them, whichever (`Recoverable`): lines wait in handlers, a channel and a
buffer, arrive in another order or not at all, and `IndexWal` is about which of them come back.
Here the log is only trusted not to make entries up (which leaves out a line that a full disk
cuts in two). `torn` is a file of the
free list that does not decode: `fl.save` truncates it before it encodes, so the process may
die in between (`RestartTorn`, possible where `SavingList` says that a list is being saved).
From then on no operation finds a block, and `MarkAsFree` answers an error that no handler
looks at.

**TableAccess.** `fileWorkers`, `registry` (`indexRegistry`) and `cached` (`lastIndexCache`)
are what requests share; a channel or an index is named by its table and the request that
made it, so two of them for one table can be told apart. Each look at a shared variable is a
step: `Load` and `Publish` are the two halves of `sendToFileWorker`, `CheckCache`, `Lookup`,
`Create` and `Keep` the parts of `getTableIndex`. A file that cannot be opened ends its
goroutine, closes the channel and leaves it published: a save that sends is dropped by
net/http, a read takes the process with it (its goroutine has no recover), and what was in
the channel waits for ever. `Dir` says which directory a table name sanitises to. What a
worker does to its file is `KvStore`'s, what a log loses is `IndexWal`'s.

**IncTable.** `rows` is the row file; a row is the bytes `RowCodec` makes of the body, with
the entry size the handler got from the metadata, and what a read returns is decoded. Which
body that is follows from the `entry_key` (`NoKey` without one); `MCBody` has bodies that
begin with the marker's byte, with zero, and an empty one. A body that does not fit
(`Fits`) is refused where the code refuses it, which for the first save of a table is after its
metadata was made. An insert is one step of the worker (nobody else writes to the file),
except that the process may die after any of its copies (`Torn`), and that a full disk may stop
it after it made the file longer (`Refused`). `objs`
are the index objects handlers may hold, `cur` the one in `indices`: `IndexGet` and
`IndexPublish` are the two halves of `getIndex`, between which another goroutine may publish
its own. A batch of the worker serves inserts and overwrites, then appends, then reads, as
`executeBatch` does. A save that the worker has answered has its id in `req.pos`, and goes on
to the index if it has a key (`SaveApply`), to its client if it has none (`SaveReturn`).
Handlers end where the code ends: 409 for a key that exists, at either of the two places that
look.

**Subscriptions.** A write to a connection is three steps: fetch the lock from the map, take
it, write. `Forget` is `cleanupConn`. Tokens are drawn once; a connection that closed does
not come back.

**IndexWal.** A change of the map and its line in the log are separate steps of a client;
`walChan`, `walBuf` and `wal` are the three places a line can be. The snapshot copies shard
by shard; `SnapshotRotate` drops the log *and* the buffer, as `rotateWal` does. `broken` is
the error that a `bufio.Writer` keeps after a failed flush, `closed` a rotation that failed
between closing the file and making a new one; after either, lines are dropped, and after the
second rotation never succeeds again. `missed` is a history variable with which `LogAgrees`
says which keys are exempt. `Field` gives the key that recovery reads in the line of a key
(itself, unless it has a `|` or a line break), `Legacy` what the first start imports.

**WalSync.** Every access to the two atomics, the lock and the condition variable is a step
of its own; the queue of `sync.Cond` is a sequence, `Signal` takes its head.

**PeerNet.** A mail is a request of a call to a peer, and then its answer. `serving` is what
`handleMsg` does for a peer, one request of a peer at a time; `round` the peers the heartbeat
has still to visit, and while there are any it holds the lock, so that whatever takes the lock
is guarded by `Unlocked`. A visit to an open connection is a write without a deadline, that a
peer may leave unread for ever; one to a closed connection fails. `Asking` are the peers that
send requests of their own. The ways the process can end here (two writers on a connection, a
peer removed under `listenForMessages`, `listPeers` going over a map that changes) end the
behaviour.

## 3. What the runs check

Passing runs (each property has a mutant: a definition is broken the way a bug would break it
and TLC must then see the property fail):

| Run | States | Shows |
| --- | --- | --- |
| `KvOneWriter` | 560 k | one writer that saves either way and frees, a reader beside it, a disk and a channel that fill up: the inductive invariants of the proofs, no byte with two owners (`SpaceApart`), entries that point at their values, refinement of `KvMap`, reads that answer the value of their key unless its entry changed (`ReadsCurrent`), and an answer for every request in the channel |
| `KvRestart` | 370 k | a direct writer beside one that saves through the worker and frees, with a process that dies at any step, and may leave a torn free list: no span beyond the end of the file, in index, free list or handler, nor any that the log could bring back |
| `TableAccess` | 1.1 M | two requests, two tables, files that may not open, restarts: one goroutine for a file, one index for a table, which is its log, entries of the table's own file, an answer from every worker that lives |
| `IncSerial` | 13 k | one client, all operations, two entry sizes: keys find their rows, reads by key answer the body saved, the `.idx` file agrees with memory |
| `IncConcurrent` | 1.4 M | two savers, delete, crash also within an insert, inserts with a key and without, counted from either end, appends and overwrites: each index object stays one-to-one, the id answered to a save, keyed or not, is the place of its row, no row is lost but by delete and overwrite |
| `SubServer` | 120 k | the two subscriber maps are inverse, listed connections have one writer, tokens are single-use, a connection whose handler returned is forgotten (`LeftForgotten`), closed connections leave the maps for good |
| `WalRotation` | 1.4 M | keys that rest while a snapshot is written survive rotation, crash, failed writes, failed renames and failed rotations |
| `WalHistory` | 19 k | between snapshots index and log implement `DurableMap`: key by key, a restart brings back a value that the index had, never an older one than an earlier restart would have; and every entry saved gets to the log, or is superseded |
| `WalFsync` | 12 k | no lost wake-up, nobody sleeps for a finished request, `waitForWalSync` returns |
| `PeerCalls` | 190 k | a miss never ends a call, only data of a peer does; nothing but a heartbeat that hangs in a write keeps a call from returning or a broken peer in the map |

Runs that find the code at odds with what its docs or comments say (`findings` in
`PROJECT.json` quotes them):

| Run | Property | What happens |
| --- | --- | --- |
| `KvBatchOverlap` | `IndexPointsAtData` | two appends of a batch get the same offset |
| `IncKeylessInsert` | `KeyFindsRow` | rows move, keys do not, though `incremental.md:134` promises it |

Further configurations, outside of the runs listed in `PROJECT.json`, end in a
counterexample; each is a property that one would want and that the code does not keep:

| Configuration (module) | Property | What happens |
| --- | --- | --- |
| `KvRestartStale` (`MCKvRecovery`) | `IndexPointsAtData` | the index of before the restart meets the free list of after (`mapManager.go:403`, `defragmentationManager.go:167`) |
| `KvFreeRace` (`MCKvStore`) | `LiveNotFree` | a span is marked as free that is in use again (`free.go:39`) |
| `KvStaleRead` (`MCKvStore`) | `ReadsOfKey` | a span is read after it was freed and reused (`read.go:73`) |
| `IncAppendRace` (`MCIncTable`) | `KeyFindsRow` | rows in one order, index entries in the other (`inc_save.go:289`) |
| `IncRefusedOverwrite` (`MCIncTable`) | `KeyFindsRow` | 409, after the row was overwritten (`inc_save.go:318`) |
| `IncDeleteRace` (`MCIncTable`) | `KeyFindsRow` | a save between the two halves of a delete (`inc_delete.go:61`) |
| `IncSizeRace` (`MCIncTable`) | `SizeAgreed` | two creators, two sizes (`inc_save.go:175`; `incremental.md:204`) |
| `IncStaleRead` (`MCIncTable`) | `ReadsOwnRow` | a position is read after its row moved (`inc_read.go:148`) |
| `WalReorder` (`MCIndexWal`) | `EventuallyLogged` | two clients change a key, the log gets the changes in the other order (`mapManager.go:345`) |
| `SubWrites` (`MCSubscriptions`) | `Serialized` | one writer with the lock, one that finds none (`subServer.go:89`, against the comment at line 65) |
| `IncFailedInsert` (`MCIncTable`) | `RefusedKeepsRows` | an insert refused by a full disk leaves a row of zeros (`fileManager.go:302`) |
| `WalRename` (`MCIndexWal`) | `RotatesSaved` | a failed rename of the snapshot, and the log is removed all the same (`mapManager.go:580`) |
| `WalImport` (`MCIndexWal`) | `ImportStays` | a crash before the first snapshot loses what was imported (`mapManager.go:200`) |
| `WalBarredKey` (`MCIndexWal`) | `LogAgrees` | a key with a `\|`: its line is skipped, or removes another key (`mapManager.go:453`) |
| `TableCrash` (`MCTableAccess`) | `Answered` | requests in the channel of a crashed worker wait for ever (`fileManager.go:116`, though line 83 has an error for them) |
| `TableDirs` (`MCTableAccess`) | `OwnEntries` | two names share a directory: after a restart one has the other's entries (`mapManager.go:114`) |
| `PeerMixup` (`MCPeerNet`) | `AnswerMatches` | two reads share one response channel, one gets the other's data (`send_message.go:42`) |

So the safety of a table is split in two: what holds however clients interleave
(`WithinFile`, proved), and what needs a single writer (`SpaceApart`, `IndexPointsAtData`,
`ImplementsMap`, proved under `SingleWriter`). The counterexamples show that the second group
does not survive two writers, and that `ReadsOfKey` does not survive a reader beside one
writer that frees. `KvRestartStale` shows that with a single writer, too, the second group does
not survive a restart; two theorems of section 4 say what it takes: a file that is behind, and
space that was freed since.

### Bounds, and why they are enough

* Two keys and two values of sizes 1 and 2, a file of 3 to 5 cells: room for an entry, a
  larger entry over it, a freed block that is reused whole or in part, and for running full.
  `KvRestart` asks of each span only that it ends within the file, so one key under which both
  clients save both values shows as much as two; `RestartBounds` is proved for any number.
* Two clients: every property relates at most two handlers and the worker. `ChanCap` 1 makes
  the full channel happen. In `KvOneWriter` a batch holds a write and a read; batches of two
  writes are in `KvBatchOverlap`, and `FileBounds` is proved for any batch.
* Three or four rows: an insert in front, between and behind, counted from either end
  (`IncSerial`). `IncConcurrent` has three rows, two keys, two handlers and two index objects,
  and a request of each kind, of which the keyed insert and the overwrite count from the top, the
  insert without a key from the bottom: with two rows no insert moves a row in between.
* Two connections and two tokens: both connections subscribed to a key, or one twice.
* `MaxLines` 3: lines in the log, in the buffer and in the channel at the same time, or one
  that was dropped beside two that were not. `LogIsIndex` is proved for any number of lines.
* Two requests, two tables, one key: two that make the same channel or index, and one whose
  table is pushed out of `lastIndexCache` by the other's. Two requests suffice for every race
  of a check with an act; `SoleWorker` and `OneIndex` are proved for any number.
* Three flushers, two of which wait, so that `Signal` has a wrong one to wake; three requests.
* One call and two peers, one that has the data and asks something itself (one thing at a
  time), one that misses it: a call held up by the heartbeat, by a break and by its own timer,
  and a heartbeat that hangs at one peer while the other's connection breaks. `PeerMixup.cfg`
  has two calls; `OnlyData` and `AnswersMatch` are proved for any number of both.

Bounds that are not in the code: `MaxFile`, `MaxRows` and `MaxLength` (a disk is finite), `MaxLines`,
`MaxRequests`, and the finite sets of tokens, connections and calls that are used once. With
these last ones a system comes to rest when they are used up (and `PeerNet` when the process
has panicked), so the runs of `Subscriptions`, `IndexWal`, `WalSync` and `PeerNet` do not
check for deadlock. In `TableAccess` a request really may wait for ever, on a worker that has
crashed; `Restart` is always possible there, so that TLC's own check would show nothing.
The runs of `KvStore`, `KvRecovery` and `IncTable` check for deadlock.

### Fairness

* `KvStore`: weak fairness of the worker. Its loop waits for nothing but its channel; every
  answer goes into a channel of capacity 1 made for it.
* `Subscriptions`, `WalSync`: a goroutine that can run does (weak), and one that waits for a
  `sync.Mutex` gets it (strong): the mutex hands itself to whoever has waited for more than a
  millisecond. Clients and the network owe nothing: no fairness for connecting, sending or
  disconnecting.
* `IndexWal`: the writer's loop and its 50 ms ticker run; a client blocked on `walChan` gets
  its turn, since Go serves the senders of a channel in order.
* `PeerNet`: the goroutine of a call and the listener of a connection get the lock (strong, as
  above: the heartbeat takes it again and again), the timer of a call fires, and a write of the
  heartbeat to a connection that is closed ends, with an error (weak). A write to one that is
  open need not end: it has no deadline, and a peer that acknowledges without reading blocks it
  for good, with the lock held. So `Returns` and `BrokenLeave` have it as an outcome,
  `HeartbeatHangs` (from some moment on the heartbeat always has a peer with an open connection
  before it), and say that it is the only one. Peers owe nothing.
* `TableAccess`: the goroutine of a file runs when it can (weak). Nothing is owed by the
  requests, nor by the operating system: a file may fail to open every time, and the process
  may restart.

### Mutants

A definition preceded by `\* Variant:` is a broken form of the one that follows it (a
dropped guard, an off-by-one, a missing reset). Nothing uses them in a specification; they
are swapped in, one at a time, to see that the property named in `PROJECT.json` notices.

## 4. What is proved

Each theorem holds for every value of the constants that meets the assumptions named in its
module (capacities are naturals, sentinels are no values, sizes are positive; sets of clients,
keys, connections or calls may be of any size). Where a theorem assumes more, it says so
here. TLC checked every inductive invariant before it was proved.

### The table: `KvStore_proofs`, `KvRecovery_proofs`

* **Typing**: `Spec => []TypeInv`. `TypeOK` alone is not inductive: that a save that finishes
  stores a span under a key of the table needs `StepsOK` (what a step says of the handler's
  variables), and that the worker finds a request at the head of its channel needs `QueueOK`.
* **FileInvariant**, **FileBounds**: `Spec => []WithinFileInv`, and with it `[]WithinFile`,
  for any number of clients of each kind. A direct append holds a span that may reach beyond
  the end until it has been written, by at most the size of its value, because it lands at or
  after the offset it asked for; that is what `WithinFileInv` adds.
* **OneWriterInvariant**: `SingleWriter` implies `Spec => []OneWriterInv`, and with it
  **OneWriter** (`SpaceApart`) and **PointsAtData** (`IndexPointsAtData`). `SpaceApart` counts
  among the owners of a byte the span that a handler *holds* between two of its steps
  (`Held`); `WorkerOK` says that the batch has at most one write, whose size is `totalSize`,
  and that an append goes to the end of the file; `WriterOK` what the writer knows at each
  step. With two writers the theorem is false: `KvBatchOverlap` and `KvFreeRace.cfg` show it.
* **Implements**: `SingleWriter => (Spec => ImplementsMap)`: the table refines `KvMap`.
  `SaveStore` is the abstract save, `FreeRemove` the abstract free, every other step a
  stutter, which is where the invariant is needed: a write into reused space or at the end of
  the file leaves every indexed span as it was.
* **ReadsAnswered**: `SingleWriter => (Spec => ReadsCurrent)`, an action property. A read that is
  served while the index still has the span it looked up answers the bytes of the value saved
  for its key, through the worker or around it. It needs `IndexPointsAtData`, and `ReadersOK`:
  a read on its way has a key of the table, and a span that was found for it.
* **PatientReadsRight** (`SingleWriter => (PatientSpec => []ReadsOfKey)`) says what
  `ReadsCurrent` leaves open, which step in between spoils a read. `PatientSpec` is `Spec` with
  a `MarkAsFree` that waits for the reads on their way; the code has no such wait, and
  `KvStaleRead.cfg` is the read that comes of it. Saves over the entry and removals of it are
  allowed, and harmless: `Unspoiled` says that the key still has the span that was looked up,
  or that a client is about to free something, and while it is (`MarkPending`) nobody writes.
* **PatientImplementsReads** (`SingleWriter => (PatientSpec => ImplementsReads)`): then the reads
  are those of the abstract map, too. In `KvMap!ReadSpec` a read notes what its key maps to when
  it begins, and answers that later; `Answers` maps a read under way to what its span holds now,
  so that the theorem says that this never changes from the look-up to the answer.
  **OneClientReadsRight** is the corollary of both for `Spec` itself with one client.
* `KvRecovery_proofs`, **RestartBounds**: `RSpec => [](TypeInv /\ WithinFile /\
  LoggedWithinFile)`, for any clients and deaths at any step. It rests on two facts: no step
  makes the file shorter (`FileGrows`), so that a span that a key ever had is within the file
  for good; and a start leaves nothing but such spans and the free list, or none. A process
  that dies between two writes of the free list is `RestartTorn`, a step of its own.

`KvRestartStale` makes `IndexPointsAtData` false under `RSpec`. The next four theorems say which
deaths do no such damage. Each is about a restriction of `RSpec` that only removes steps, and
assumes `SingleWriter`.

* **FlushedRestartKeepsData** (`FlushedSpec => [](IndexPointsAtData /\ SpaceApart)`) and
  **FlushedRestartImplements** (`FlushedSpec => ImplementsMap`): the process dies at a moment
  when its files have every change of the index, but at any point of a write, of a save of the
  free list, or between two steps of a handler. The invariant is `OneWriterInv` of `KvStore`: a
  handler that is gone leaves its span to nobody (`RebornDivided`), a block that was not saved
  is lost to the list (`LostLeavesDivided`), and space that has no owner does no harm. To
  `KvMap` a restart is a stutter.
* **KeepingRestartKeepsData** (`KeepingSpec => [](IndexPointsAtData /\ LoggedPointsAtData /\
  SpaceApart)`): the process dies anywhere and the log is as far behind as it likes, but no
  space is freed. `IndexPointsAtData` is not inductive here, since a restart replaces the index
  by older entries: all that a key ever had must point at its values (`LoggedPointsAtData`).
  That stays so because writes only go to the end of the file (`OnlyAppends`), where no entry
  of any key reaches (`LoggedWithinFile`); `NewApart` carries this from the write to the change
  of the index, and `LoggedApart` makes any choice of old entries a division of the file.
* **KeepingReadsRight** (`KeepingSpec => []ReadsOfKey`): with nothing freed, a read is answered
  with one value of its key, whatever is saved between its look-up and its turn (`ReadersHold`).
  Beside a client that frees this is false (`KvStaleRead.cfg`), which is why `ReadsCurrent`, the
  property of the run, says less.

TLC passed `Unspoiled`, `ReadsOfKey` and `ImplementsReads` under `PatientSpec`, `KeepingInv`, `ReadersHold` and
`ReadsOfKey` under `KeepingSpec`, and `OneWriterInv` and `ImplementsMap` under `FlushedSpec`,
with the constants of `KvOneWriter.cfg`; to repeat it, give these specifications and properties
in a copy of that file, with `MCKvStore` for the first and `MCKvRecovery` for the others.

### Finding goroutine and index: `TableAccess_proofs`

* **Typing** and **SoleWorker** (`Spec => []OneWorker`). The inductive form of `OneWorker` is
  `WorkerPublished`: a goroutine reads a channel only if it is the published one, which no
  request ever replaces.
* **IndexInvariant** with **OneIndex** (`IndexIsLog`) and **OwnIndex** (`OwnEntries`), for
  tables with `DistinctDirs`. `IndexInv` adds that what the directory of a table holds is of
  that table (`OwnLog`), and that the index used last, and the one a request holds, are the
  registered ones (`HeldRegistered`): without the second a request could change an object that
  the log does not follow. Without `DistinctDirs` the theorem is false: `TableDirs.cfg`.

### The log of the index: `IndexWal_proofs`

What a start recovers is `Replay`: for each key the last of its lines, or what the snapshot
has. The first part of the module is about `Replay` and sequences of lines (`LastExists`,
`ReplayLast`, `ReplayAppend`, `ReplayDrop`), with the last line picked as the maximum of a
finite set of positions, since an induction over the log is out of the prover's reach.

* **Typing**: `Spec => []TypeOK`; the snapshot copies shards that exist.
* **LogIsIndex**: `Spec => []LogAgrees` if every key is plain (`AllPlain`; a barred key breaks
  it, `WalBarredKey.cfg`) and has one client that changes it (`OneOwner`; two reorder their
  lines, `WalReorder.cfg`). The inductive invariant `LogInv` adds `UnsentIsLast` (a change of
  the map whose line was not sent is the latest of its key) and `RestIsCopied`: a key at rest
  during a snapshot has no line in flight, and from the shard that holds it on the copy, and
  then the snapshot, has what the index has. Without it the rotation, which drops the log and
  the buffer, could not be seen to lose nothing.
* **LogIsHistory**: with plain keys of one client each, nothing imported, no snapshot and no
  failed write, `Spec => ImplementsDurableMap`. `map` of `DurableMap` is the index itself;
  `history` of a key is what a restart would give it, then the spans of its lines in buffer and
  channel, then the change whose line is still in a handler (`Unsent`). Its last value is always
  that of the index (`UnsentIsLast`). A change of the map appends a value (`ChangeUpdates`);
  sending a line and writing it to the buffer only move it along its history (`SendStutters`,
  `WriteStutters`); a flush makes the last of the lines written the first value and drops those
  before it (`FlushPersists`, from `Superseded`); a start sets index and history to the first
  value (`RestartRestores`). Each key is on its own: `saveElement` sends its line after the shard
  is unlocked (`mapManager.go:349`), so that lines of two keys may be sent in the other order
  than the map changed, and a restart may then join values of different moments, in a state that
  the index as a whole never had. With two clients for one key the theorem is false: `WalReorder.cfg`.

### The fsync loop: `WalSync_proofs`

* **Typing**: `Spec => []TypeOK`; completed and synced are never more than requested.
* **WakeupKept** (`NoLostWakeup`) and **SleepersWaitRightly** (`NoSleepBehind`), by
  `SyncInv`: the queue holds who sleeps, once each (`QueueOK`); when the loop goes to sleep
  all requests are completed, nobody else can be in the queue in front of it, and as soon as
  there is a new request some flusher is about to signal (`LoopOK`). `Signal` wakes the head of
  the queue, so that the theorem hangs on the loop being that head.

### Subscriptions: `Subscriptions_proofs`

* **Typing**, and **Reverse** (`MapsAgree`), whose inductive form adds that a token always
  stands for some key: a subscription to none would leave an empty entry in `connToKeys`.
* **OneWriteAtATime** (`SerializedWhileListed`), by `LocksInv`: whoever writes under a lock
  holds it, and who fetched none does so for a connection that is unlisted for good; the last
  needs `Fresh`, that a connection yet to come is in no map, snapshot or write. `Serialized`,
  without the condition, is false: `SubWrites.cfg`.
* **TokensSpent**: the action property `SingleUse`.
* **Forgotten**: `Spec => []LeftForgotten`, the safety half of `LeavesMaps`: once `HandleWS` has
  returned for a connection, neither map nor the locks have it again. A token that it sent is
  only accepted by its own handler, a clean-up only removes, and a notifier that still writes to
  it writes no map.

### Peers: `PeerNet_proofs`

* **Typing**, and **OnlyData** (`OnlyDataIsHanded`), by `HandedInv`: an answer on its way that
  was found is one that its peer has.
* **AnswersMatch** (`SerialSpec => []AnswerMatches`): what a call returns is what it asked for,
  over any number of calls for any keys, if a call only begins when none for another key is under
  way (`SerialStart`). Under way is a call until it returns, and after it as long as one of its
  requests is with a peer or an answer on its way (`Flying`; `Lost` are those on a connection
  that is gone). A call that timed out leaves such answers behind, and the channel registered
  under the task when they come is then another call's: without this part the theorem is false,
  and without any condition `PeerMixup.cfg` is the counterexample. `SerialInv` says that whatever
  is in flight or in a channel, and whoever is registered, is of the key that the calls under way
  ask for. TLC passed `SerialInv` and `AnswerMatches` under `SerialSpec`; to repeat it, give
  this specification in a copy of `PeerMixup.cfg`.

### Incremental tables: `IncTable_proofs`

The first two parts are about operators. **RowRoundTrip**: for every entry size and every body
of bytes that fits, `DecodeIncEntry(EncodeIncEntry(size, body)) = body`; the scan for the first
marker ends at the one that was put there, since only zeros are in front of it. Then what
`Pad`, `Load`, `Insert` and `Set` do to an index that names each slot by one key (`PadGood`,
`LoadGood`, `InsertGood`, `SetGood`): `reindexFrom` looks at the slots from `pos` on only, so
that `InsertGood` hangs on the new key not being among those before it.

* **Invariant**: `Spec => []Inv`, with **Typing** (`TypeOK`) and **Sound** (`IndexSound`), for
  any clients, requests and bodies, with crashes. Besides types, `Inv` says which index objects
  there are (`ObjectsOK`: those published or in a handler's hands, so that a fresh one always
  exists), what a handler may hold in each step (`StepsOK`: a body that is sent fits the row),
  that who waits for the worker is in its channel or in its batch, once (`QueueOK`), and that
  `.idx` has no key twice (`IndexOK`): a save always writes the list of some sound object.
* **Acknowledged** (`AckPlacesRow`) and **Kept** (`RowsKept`), action properties, from what
  `Written`, `Shifted` and `Refused` do to the rows (`WrittenFacts`, `ShiftedFacts`,
  `RefusedFacts`). `Kept` covers a process that dies anywhere within an insert. `Acknowledged` is
  about saves with a key and without, and needs `MaxRows <= MaxLength` and `StepsOK`: a body that did not fit would not decode.
* **SerialInvariant** with **KeysFindRows** (`KeyFindsRow`) and **Durable** (`IndexDurable`),
  under `OneSaver`: one client saves, appending rows and inserting rows under keys, and any
  number of clients read beside it. It may delete the table if nobody else uses it, and the
  process may die at any step if rows are only appended. **OwnRow** (`ReadsOwnRow`) assumes
  besides that no row moves between look-up and read (`Steady`): rows are only appended, or the
  saver is the only reader. `SerialInv` says that the index object in `indices` has the keys of
  the file, and so has each that was loaded while there is none (`Shared`: several goroutines
  may load one, and any of them may be the one that is published); that a key on its way to the
  worker is not among them (`KeyOK`); that the position a reader looked up stays that of its key
  (`LookOK`, kept because an append puts its key behind all others, `Behind`); and that every
  slot's key decodes from its row, or, between the worker's write and the handler's, will once
  the key is in its slot (`RowsOK`). A row that was appended has moved no other, so that a death
  between the two leaves a row without a key; after an insert it would leave keys without their
  rows. Without the hypotheses these are false, each in a way of its own: two savers
  (`IncAppendRace`), a save beside a delete (`IncDeleteRace`), a reader beside an insert
  (`IncStaleRead`), an insert without a key (`IncKeylessInsert`), an overwrite
  (`IncRefusedOverwrite`). `IncSerial` is an instance; so are `IncSerial.cfg` with two readers and
  no delete, without `ReadsOwnRow`, and with two readers, `Appending`, no delete and crashes,
  which TLC passes too.

### Only model-checked

Every liveness property (the prover has no support for fairness): `Answered`,
`AnsweredByTheLiving`, `EventuallyLogged`, `WaitReturns`, `Returns`, `BrokenLeave` and
`LeavesMaps`, whose safety half is the theorem `Forgotten`.

## 5. What is not modelled

The format of `Encode` beyond what placement needs, and AES (`encode_inc_entry.go` is
`RowCodec`, without `SetSkipIncEntry`, which nobody calls); `ListTables`; `KeysByRegex`,
statistics, config, start-up; the pointer resolver and `async_block_manager.go` (used by
nobody); the SQL stub; how a node learns its own address, and the requests `save` and `free`
to peers, that no handler sends (what answering one does to a table is a direct save or a free
of `KvStore`); the ping goroutine of the subscriptions; integer widths (no counter gets near
its width in a run of the program that a disk can hold).

In modules that model the rest of their file: padding of a row file whose length is no multiple
of the row size (sizes agree, but for `IncSizeRace`); a free list that cannot be saved for
another reason than death or, in `GetBlock`, an error; a line of the log of more than 64 KB,
at which the scanner gives up and the table cannot be opened; the row file of an incremental
table, which is named by its key alone (`inc_save.go:181`), so that tables of the same key in
two files share it: each such file is one `IncTable`, with the metadata of one of them.

Smaller than the code, where no property tells the difference or the case is out of reach:

* `KvStore!WorkerStart` takes the end of the file once for all appends of a batch, where
  `executeBatch` seeks for each (`fileManager.go:442`), so that no direct append comes between two
  of them; a `Seek` that fails, which answers an error and goes on to `WriteAt`, is left out.
* `FreeList!SplitKey` names the rest of a cut block by the pair of key and offset; the code's
  `key_offset` is a string that a client could use as a key.
* `IncTable`: a save of `.idx` that fails (`index.go:83`; the handler answers 500 at
  `inc_save.go:293`) would leave memory ahead of the file, and `IndexDurable` would not hold from
  then on; a delete whose file cannot be removed (`fileManager.go:88`, `inc_delete.go:61`).
* `IndexWal!Restart`: after a rename of the first snapshot that failed, and a rotation that
  removed the log and made no new one, a start would import the old log once more
  (`mapManager.go:196`); here it starts empty.
* `Subscriptions`: `cleanupConn` closes the socket after it has unlocked `mu`
  (`subServer.go:151`), one step here, and a message that was buffered when the connection closed
  may still be read (`subServer.go:351`); what such a message can do is what one that came just
  before does.
* `PeerNet`: a peer asks one thing at a time, where `listenForMessages` starts a goroutine for each
  message (`network_manager.go:231`); two answers to a peer could collide as an answer and a
  request do, which is an outcome of the model.

Met on the way, and no property of a run: `docs_api/incremental.md:20` says that `count_from`
is `bottom` by default, and `routes/inc_save.go:162` makes it `top`; a request always has one
of the two in `IncTable`. And the free lists of two tables whose names share a directory are
one file, with the last one to save it winning.

## 6. Plan

Done, in this order: `FreeList`, `KvStore`, `KvMap`, proofs of the core, `KvRecovery`,
`IncIndex`, `IncTable`, `Subscriptions`, `IndexWal`, `DurableMap`, `WalSync`, `PeerNet`,
`TableAccess` with its proofs, `RowCodec` with its proof, torn free lists in `KvRecovery`,
failed writes, rotations, imports and barred keys in `IndexWal`, encoded rows and half-done
inserts in `IncTable`, the lock of the heartbeat in `PeerNet`, then the proofs of `KvRecovery`,
`PeerNet`, `WalSync`, `Subscriptions`, `IndexWal` and `IncTable`, and what a restart leaves
intact in `KvRecovery`.

To extend the model:

1. `KvRecovery` composed with `IndexWal`, which knows which of the entries in `logged` come back.
2. `KeysByRegex` beside writers, shard by shard, in `IndexWal`.
3. `PointerResolver`, if something comes to use it; the peers' own addresses in `PeerNet`.

To prove more:

1. `WalSync` and `IndexWal` together: which lines a snapshot that waits for the fsync may count on.
