----------------------------- MODULE TableAccess -----------------------------
(***************************************************************************)
(* How a request finds what the process keeps of its table.                *)
(*   - sendToFileWorker (data/dataManager/v2/fileManager.go) looks up the  *)
(*     channel of the data file, or makes one, publishes it and starts the *)
(*     goroutine that reads it; then it sends and waits for the answer.    *)
(*   - getTableIndex (data/fileSystem/v1/mapManager.go) looks at the index *)
(*     used last, then in the registry, then under the lock of the         *)
(*     registry once more, and loads the index from the table's directory. *)
(* KvStore, IndexWal and IncTable take one goroutine per file and one      *)
(* index per table for granted: this module is where they come from.       *)
(*                                                                         *)
(* Channels and index objects are named by their table and the request     *)
(* that made them. Of an entry only its file is kept, and a change reaches *)
(* the log at once: what the log loses on the way is IndexWal's.           *)
(* A request is                                                            *)
(*   save  load [-> publish] -> send -> await -> the index -> idle         *)
(*   read  the index [-> load -> ... -> await] -> idle                     *)
(*   free  the index, to look up -> the index, to remove -> idle           *)
(* where the index is  cache [-> lookup [-> create]] -> keep -> use.       *)
(***************************************************************************)
EXTENDS Integers, Sequences

CONSTANTS
    Clients, Tables, Keys,
    Dirs,      \* directories under db/maps
    Dir,       \* [Tables -> Dirs], tableDir: the sanitised name of each table
    Absent,    \* the entry of a key that is not there
    Nobody,    \* what was not made yet
    ChanCap,   \* capacity of a worker's channel (10000)
    MayFail    \* whether the operating system may refuse to open a file

ASSUME DirAssumption == Dir \in [Tables -> Dirs]
ASSUME SentinelAssumption ==
    Absent \notin Tables /\ Nobody \notin Clients /\ ChanCap \in Nat \ {0}

VARIABLES
    fileWorkers,  \* per table: the request whose channel is published
    chan,         \* per table and maker: the requests in the channel
    worker,       \* per table and maker: "none", "starting", "serving", "crashed"
    registry,     \* indexRegistry: the request whose index is registered
    object,       \* per table and maker: the index, key -> file of the entry
    cached,       \* lastIndexCache: a table and its index
    log,          \* per directory: what snapshot and log give back
    pc,           \* per request: its step
    req           \* per request: op, table, key and the maker of what it holds

vars == <<fileWorkers, chan, worker, registry, object, cached, log, pc, req>>
files == <<fileWorkers, chan, worker>>
indexes == <<registry, object, cached, log>>

Maker == Clients \cup {Nobody}
Entry == Tables \cup {Absent}
NoEntries == [k \in Keys |-> Absent]

\* The name of a channel or an index object: its table and its maker.
Name == [table : Tables, by : Clients]
Nothing == [table |-> Absent, by |-> Nobody]
NoRequest == [op |-> "none", table |-> Absent, key |-> Absent, held |-> Nothing]

Ops == {"save", "read", "free", "remove"}
Request == [op : Ops, table : Tables, key : Keys, held : Name \cup {Nothing}]
Steps == {"idle", "load", "publish", "send", "await",
          "cache", "lookup", "create", "keep", "use"}

NotMade == [t \in Tables |-> Nobody]
PerMaker(x) == [t \in Tables |-> [c \in Clients |-> x]]

Init ==
    /\ fileWorkers = NotMade /\ registry = NotMade
    /\ chan = PerMaker(<<>>) /\ worker = PerMaker("none")
    /\ object = PerMaker(NoEntries) /\ cached = Nothing
    /\ log = [d \in Dirs |-> NoEntries]
    /\ pc = [c \in Clients |-> "idle"]
    /\ req = [c \in Clients |-> NoRequest]

Goto(c, step) == pc' = [pc EXCEPT ![c] = step]
Hold(c, name) == req' = [req EXCEPT ![c].held = name]
Made(t, by) == [table |-> t, by |-> by]
Return(c) == Goto(c, "idle") /\ req' = [req EXCEPT ![c] = NoRequest]

Begin(c, op, t, k) ==
    /\ pc[c] = "idle"
    /\ Goto(c, IF op = "save" THEN "load" ELSE "cache")
    /\ req' = [req EXCEPT ![c] = [op |-> op, table |-> t, key |-> k,
                              held |-> Nothing]]
    /\ UNCHANGED <<files, indexes>>

-----------------------------------------------------------------------------
(* sendToFileWorker *)

\* fileWorkers.Load
Load(c) ==
    LET t == req[c].table
    IN  /\ pc[c] = "load"
        /\ IF fileWorkers[t] = Nobody
           THEN Goto(c, "publish") /\ UNCHANGED req
           ELSE Goto(c, "send") /\ Hold(c, Made(t, fileWorkers[t]))
        /\ UNCHANGED <<files, indexes>>

\* Variant: the channel is stored whether or not there is one by now.
StoreChannel(c, t) == c

\* Variant: what Load found is used, which was nothing.
LoadOnly(c, t) == fileWorkers[t]

\* LoadOrStore: the channel that is published from now on.
LoadOrStore(c, t) == IF fileWorkers[t] = Nobody THEN c ELSE fileWorkers[t]

\* Variant: the request that found a channel starts the goroutine.
StartsWhenLoaded(c, actual) == actual # c

\* if actual == ch { go fileWorkerLoop(...) }
Starts(c, actual) == actual = c

Publish(c) ==
    LET t == req[c].table
        actual == LoadOrStore(c, t)
    IN  /\ pc[c] = "publish"
        /\ fileWorkers' = [fileWorkers EXCEPT ![t] = actual]
        /\ worker' = IF Starts(c, actual)
                     THEN [worker EXCEPT ![t][actual] = "starting"] ELSE worker
        /\ Goto(c, "send") /\ Hold(c, Made(t, actual))
        /\ UNCHANGED <<chan, indexes>>

Crashed(c) == worker[req[c].table][req[c].held.by] = "crashed"
Channel(c) == chan[req[c].table][req[c].held.by]

Send(c) ==
    /\ pc[c] = "send" /\ ~Crashed(c) /\ Len(Channel(c)) < ChanCap
    /\ chan' = [chan EXCEPT ![req[c].table][req[c].held.by] = Append(@, c)]
    /\ Goto(c, "await")
    /\ UNCHANGED <<fileWorkers, worker, req, indexes>>

\* No room for a second: "worker is unresponsive", and the handler returns.
SendTimesOut(c) ==
    /\ pc[c] = "send" /\ ~Crashed(c) /\ Len(Channel(c)) >= ChanCap
    /\ Return(c)
    /\ UNCHANGED <<files, indexes>>

\* A send on the channel that the worker closed panics. net/http recovers the
\* panic of a save and drops the connection.
SaveDropped(c) ==
    /\ pc[c] = "send" /\ Crashed(c) /\ req[c].op = "save"
    /\ Return(c)
    /\ UNCHANGED <<files, indexes>>

-----------------------------------------------------------------------------
(* fileWorkerLoop *)

WorkerOpens(t, c) ==
    /\ worker[t][c] = "starting"
    /\ worker' = [worker EXCEPT ![t][c] = "serving"]
    /\ UNCHANGED <<fileWorkers, chan, indexes, pc, req>>

\* os.OpenFile fails: panic, recover, close(ch). The channel stays published, and
\* what is in it is not answered: nobody closes the resp of a request.
WorkerCrashes(t, c) ==
    /\ MayFail /\ worker[t][c] = "starting"
    /\ worker' = [worker EXCEPT ![t][c] = "crashed"]
    /\ UNCHANGED <<fileWorkers, chan, indexes, pc, req>>

\* One request: what the worker does to the file is in KvStore.
WorkerServes(t, c) ==
    /\ worker[t][c] = "serving" /\ chan[t][c] # <<>>
    /\ LET r == Head(chan[t][c])
       IN  IF req[r].op = "save"
           THEN Goto(r, "cache") /\ Hold(r, Nothing)
           ELSE Return(r)
    /\ chan' = [chan EXCEPT ![t][c] = Tail(@)]
    /\ UNCHANGED <<fileWorkers, worker, indexes>>

-----------------------------------------------------------------------------
(* getTableIndex *)

\* Variant: the index used last is taken without a look at its table.
CachedAny(t) == cached # Nothing

\* loadCachedIndex
Cached(t) == cached.table = t

CheckCache(c) ==
    /\ pc[c] = "cache"
    /\ IF Cached(req[c].table)
       THEN Goto(c, "use") /\ Hold(c, cached)
       ELSE Goto(c, "lookup") /\ UNCHANGED req
    /\ UNCHANGED <<files, indexes>>

\* Under registryMu.RLock.
Lookup(c) ==
    LET t == req[c].table
    IN  /\ pc[c] = "lookup"
        /\ IF registry[t] = Nobody
           THEN Goto(c, "create") /\ UNCHANGED req
           ELSE Goto(c, "keep") /\ Hold(c, Made(t, registry[t]))
        /\ UNCHANGED <<files, indexes>>

\* Variant: the registry is not looked at again under the lock.
UnregisteredByLookup(t) == TRUE

\* indexRegistry[normalized] == nil, with registryMu.Lock held.
Unregistered(t) == registry[t] = Nobody

\* newTableIndex: loads snapshot and log of the directory.
Create(c) ==
    LET t == req[c].table
    IN  /\ pc[c] = "create" /\ Unregistered(t)
        /\ object' = [object EXCEPT ![t][c] = log[Dir[t]]]
        /\ registry' = [registry EXCEPT ![t] = c]
        /\ Goto(c, "keep") /\ Hold(c, Made(t, c))
        /\ UNCHANGED <<cached, log, files>>

\* newTableIndex cannot make the directory or open a file: the handler answers
\* an error. A save has written its data by then.
CreateFails(c) ==
    /\ MayFail
    /\ pc[c] = "create" /\ Unregistered(req[c].table)
    /\ Return(c)
    /\ UNCHANGED <<files, indexes>>

CreatedMeanwhile(c) ==
    LET t == req[c].table
    IN  /\ pc[c] = "create" /\ ~Unregistered(t)
        /\ Goto(c, "keep") /\ Hold(c, Made(t, registry[t]))
        /\ UNCHANGED <<files, indexes>>

\* storeCachedIndex
Keep(c) ==
    /\ pc[c] = "keep"
    /\ cached' = req[c].held
    /\ Goto(c, "use")
    /\ UNCHANGED <<req, registry, object, log, files>>

-----------------------------------------------------------------------------
(* The index that getTableIndex returned. *)

Held(c) == object[req[c].held.table][req[c].held.by]

\* storeKey, deleteKey, and their line of the log.
Change(c, entry) ==
    LET i == req[c].held  k == req[c].key
    IN  /\ object' = [object EXCEPT ![i.table][i.by][k] = entry]
        /\ log' = [log EXCEPT ![Dir[i.table]][k] = entry]
        /\ UNCHANGED <<registry, cached, files>>

\* saveElement: the file of the entry is the table asked for.
Save(c) ==
    /\ pc[c] = "use" /\ req[c].op = "save"
    /\ Change(c, req[c].table)
    /\ Return(c)

\* getElement; a read goes on to the file, a free to the removal.
Get(c) ==
    /\ pc[c] = "use" /\ req[c].op \in {"read", "free"}
    /\ IF Held(c)[req[c].key] = Absent THEN Return(c)
       ELSE IF req[c].op = "read" THEN Goto(c, "load") /\ Hold(c, Nothing)
       ELSE /\ Goto(c, "cache")
            /\ req' = [req EXCEPT ![c].op = "remove", ![c].held = Nothing]
    /\ UNCHANGED <<files, indexes>>

\* removeElement
Remove(c) ==
    /\ pc[c] = "use" /\ req[c].op = "remove"
    /\ Change(c, Absent)
    /\ Return(c)

-----------------------------------------------------------------------------
\* The process starts again with what is on the disk.
Restart ==
    /\ fileWorkers' = NotMade /\ registry' = NotMade
    /\ chan' = PerMaker(<<>>) /\ worker' = PerMaker("none")
    /\ object' = PerMaker(NoEntries) /\ cached' = Nothing
    /\ pc' = [c \in Clients |-> "idle"]
    /\ req' = [c \in Clients |-> NoRequest]
    /\ UNCHANGED log

\* AsyncRead sends in a goroutine of its own, where nothing recovers the panic.
ReadPanics(c) ==
    /\ pc[c] = "send" /\ Crashed(c) /\ req[c].op = "read"
    /\ Restart

Handler(c) ==
    \/ Load(c) \/ Publish(c) \/ Send(c) \/ SendTimesOut(c) \/ SaveDropped(c)
    \/ CheckCache(c) \/ Lookup(c) \/ Create(c) \/ CreateFails(c)
    \/ CreatedMeanwhile(c) \/ Keep(c) \/ Save(c) \/ Get(c) \/ Remove(c)
    \/ ReadPanics(c)

FileWorker(t, c) == WorkerOpens(t, c) \/ WorkerCrashes(t, c) \/ WorkerServes(t, c)

Next ==
    \/ \E c \in Clients, op \in {"save", "read", "free"}, t \in Tables, k \in Keys :
          Begin(c, op, t, k)
    \/ \E c \in Clients : Handler(c)
    \/ \E t \in Tables, c \in Clients : FileWorker(t, c)
    \/ Restart

Spec == Init /\ [][Next]_vars

\* The goroutine of a file is scheduled when it can go on. Nothing is asked of the
\* requests: a client may leave one where it is.
FairSpec ==
    /\ Spec
    /\ \A t \in Tables : WF_vars(\E c \in Clients : FileWorker(t, c))

-----------------------------------------------------------------------------
(* Properties. *)

\* Types of the state.
TypeOK ==
    /\ fileWorkers \in [Tables -> Maker]
    /\ chan \in [Tables -> [Clients -> Seq(Clients)]]
    /\ worker \in [Tables -> [Clients -> {"none", "starting", "serving", "crashed"}]]
    /\ registry \in [Tables -> Maker]
    /\ object \in [Tables -> [Clients -> [Keys -> Entry]]]
    /\ cached \in Name \cup {Nothing}
    /\ log \in [Dirs -> [Keys -> Entry]]
    /\ pc \in [Clients -> Steps]
    /\ req \in [Clients -> Request \cup {NoRequest}]
    /\ \A c \in Clients : pc[c] # "idle" => req[c] \in Request

\* A file never has two goroutines, however many requests find it without one at
\* the same time (sendToFileWorker): its batches, and with them its appends, are
\* written one after the other.
OneWorker ==
    \A t \in Tables : \A b, c \in Clients :
        worker[t][b] # "none" /\ worker[t][c] # "none" => b = c

\* Inductive form of OneWorker: only a published channel is read.
WorkerPublished ==
    \A t \in Tables, c \in Clients : worker[t][c] # "none" => fileWorkers[t] = c

\* The index that requests find in the registry is the one whose changes were
\* logged: no save goes to an index object that nobody else will look at, and a
\* restart changes no answer (getTableIndex).
IndexIsLog ==
    \A t \in Tables :
        registry[t] # Nobody => object[t][registry[t]] = log[Dir[t]]

\* The index of a table has entries of its own file only: no handler is sent to an
\* offset of another table's file (loadCachedIndex, and loadIndex of a directory).
OwnEntries ==
    \A t \in Tables, c \in Clients, k \in Keys :
        object[t][c][k] \in {t, Absent}

\* Inductive form of IndexIsLog and OwnEntries, for tables with directories of their
\* own: the index used last and the one a request holds are those of the registry.
OwnLog == \A t \in Tables, k \in Keys : log[Dir[t]][k] \in {t, Absent}
DistinctDirs == \A s, t \in Tables : Dir[s] = Dir[t] => s = t
Registered(name) == name \in Name /\ registry[name.table] = name.by
HeldRegistered ==
    /\ cached # Nothing => Registered(cached)
    /\ \A c \in Clients : pc[c] \in {"keep", "use"} =>
          Registered(req[c].held) /\ req[c].held.table = req[c].table
IndexInv == IndexIsLog /\ OwnEntries /\ OwnLog /\ HeldRegistered

\* A request whose worker lives comes back: what is sent is read by a goroutine
\* that somebody has started.
AnsweredByTheLiving ==
    \A c \in Clients : pc[c] = "await" ~> pc[c] # "await" \/ Crashed(c)

\* sendToFileWorker answers every request, "worker crashed" if need be. The code
\* does not keep it: nobody closes the resp of a request in a closed channel.
Answered == \A c \in Clients : pc[c] = "await" ~> pc[c] # "await"
=============================================================================
