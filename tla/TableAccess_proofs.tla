------------------------- MODULE TableAccess_proofs -------------------------
(***************************************************************************)
(* For any clients, tables and keys: a data file never has two goroutines, *)
(* and the index of a table is the one whose changes are logged.           *)
(***************************************************************************)
EXTENDS TableAccess, TLAPS

\* A function with one value replaced, or none.
LEMMA Update ==
    ASSUME NEW A, NEW B, NEW f \in [A -> B], NEW x, NEW y, x \in A => y \in B
    PROVE  [f EXCEPT ![x] = y] \in [A -> B]
OBVIOUS

\* The start of the process (and every restart) is well typed.
LEMMA InitTyped == Init => TypeOK
BY SentinelAssumption DEF Init, TypeOK, NotMade, PerMaker, NoEntries, Maker, Entry, Steps

\* A handler that goes on keeps its request; one that returns drops it.
LEMMA Going ==
    ASSUME TypeOK, NEW c \in Clients, pc[c] # "idle",
           NEW step \in Steps, Goto(c, step), UNCHANGED req
    PROVE  /\ pc' \in [Clients -> Steps]
           /\ req' \in [Clients -> Request \cup {NoRequest}]
           /\ \A d \in Clients : pc'[d] # "idle" => req'[d] \in Request
BY DEF TypeOK, Goto

\* One that fetches a table holds its name.
LEMMA Holding ==
    ASSUME TypeOK, NEW c \in Clients, pc[c] # "idle",
           NEW step \in Steps, NEW name \in Name \cup {Nothing},
           Goto(c, step), Hold(c, name)
    PROVE  /\ pc' \in [Clients -> Steps]
           /\ req' \in [Clients -> Request \cup {NoRequest}]
           /\ \A d \in Clients : pc'[d] # "idle" => req'[d] \in Request
<1>1. req[c] \in Request
  BY DEF TypeOK
<1>2. [req[c] EXCEPT !.held = name] \in Request
  BY <1>1 DEF Request
<1> QED BY <1>1, <1>2 DEF TypeOK, Goto, Hold

\* One that returns holds none.
LEMMA Returning ==
    ASSUME TypeOK, NEW c \in Clients, Return(c)
    PROVE  /\ pc' \in [Clients -> Steps]
           /\ req' \in [Clients -> Request \cup {NoRequest}]
           /\ \A d \in Clients : pc'[d] # "idle" => req'[d] \in Request
BY DEF TypeOK, Goto, Return, Steps

\* A handler at work has a request.
LEMMA Asks ==
    ASSUME TypeOK, NEW c \in Clients, pc[c] # "idle"
    PROVE  req[c] \in Request /\ req[c].table \in Tables /\ req[c].key \in Keys
           /\ req[c].held \in Name \cup {Nothing} /\ req[c].op \in Ops
BY DEF TypeOK, Request

\* Every step keeps the types.
LEMMA TypeStep == TypeOK /\ [Next]_vars => TypeOK'
<1> SUFFICES ASSUME TypeOK, [Next]_vars PROVE TypeOK'
  OBVIOUS
<1> USE DEF Maker
<1>1. ASSUME NEW c \in Clients, NEW op \in {"save", "read", "free"}, NEW t \in Tables,
             NEW k \in Keys, Begin(c, op, t, k)
      PROVE  TypeOK'
  <2>1. [op |-> op, table |-> t, key |-> k, held |-> Nothing] \in Request
    BY DEF Request, Ops
  <2> QED BY <1>1, <2>1 DEF TypeOK, Begin, Goto, Steps, files, indexes
<1>2. ASSUME NEW c \in Clients, Load(c) PROVE TypeOK'
  <2>1. req[c].table \in Tables
    BY <1>2, Asks DEF Load
  <2>2. CASE fileWorkers[req[c].table] = Nobody
    BY <1>2, <2>2, Going DEF Load, TypeOK, Steps, files, indexes
  <2>3. CASE fileWorkers[req[c].table] # Nobody
    <3>1. Made(req[c].table, fileWorkers[req[c].table]) \in Name
      BY <2>1, <2>3 DEF Made, Name, TypeOK
    <3> QED BY <1>2, <2>3, <3>1, Holding DEF Load, TypeOK, Steps, files, indexes
  <2> QED BY <2>2, <2>3
<1>3. ASSUME NEW c \in Clients, Publish(c) PROVE TypeOK'
  <2> DEFINE t == req[c].table
             actual == LoadOrStore(c, t)
  <2>1. t \in Tables
    BY <1>3, Asks DEF Publish
  <2>2. actual \in Clients
    BY <2>1 DEF LoadOrStore, TypeOK
  <2>3. Made(t, actual) \in Name
    BY <2>1, <2>2 DEF Made, Name
  <2>4. fileWorkers' \in [Tables -> Maker] /\ UNCHANGED <<chan, indexes>>
    BY <1>3, <2>1, <2>2 DEF Publish, TypeOK
  <2>5. worker' \in [Tables -> [Clients -> {"none", "starting", "serving", "crashed"}]]
    BY <1>3, <2>1, <2>2 DEF Publish, TypeOK
  <2> QED BY <1>3, <2>3, <2>4, <2>5, Holding DEF Publish, TypeOK, Steps, indexes
<1>4. ASSUME NEW c \in Clients, Send(c) PROVE TypeOK'
  <2> DEFINE t == req[c].table
             b == req[c].held.by
             sent == Append(chan[t][b], c)
  <2>1. t \in Tables
    BY <1>4, Asks DEF Send
  <2>2. b \in Clients => sent \in Seq(Clients)
    BY <2>1 DEF TypeOK
  <2>3. [chan[t] EXCEPT ![b] = sent] \in [Clients -> Seq(Clients)]
    <3>1. chan[t] \in [Clients -> Seq(Clients)]
      BY <2>1 DEF TypeOK
    <3> HIDE DEF sent
    <3> QED BY <2>2, <3>1, Update
  <2>4. chan' = [chan EXCEPT ![t] = [chan[t] EXCEPT ![b] = sent]]
    BY <1>4 DEF Send
  <2>5. chan' \in [Tables -> [Clients -> Seq(Clients)]]
    BY <2>1, <2>3, <2>4 DEF TypeOK
  <2> QED BY <1>4, <2>5, Going DEF Send, TypeOK, Steps, indexes
<1>5. ASSUME NEW c \in Clients, SendTimesOut(c) \/ SaveDropped(c) \/ CreateFails(c)
      PROVE  TypeOK'
  BY <1>5, Returning DEF SendTimesOut, SaveDropped, CreateFails, TypeOK, files, indexes
<1>6. ASSUME NEW c \in Clients, CheckCache(c) PROVE TypeOK'
  <2>1. CASE Cached(req[c].table)
    BY <1>6, <2>1, Holding DEF CheckCache, TypeOK, Steps, files, indexes
  <2>2. CASE ~Cached(req[c].table)
    BY <1>6, <2>2, Going DEF CheckCache, TypeOK, Steps, files, indexes
  <2> QED BY <2>1, <2>2
<1>7. ASSUME NEW c \in Clients, Lookup(c) \/ CreatedMeanwhile(c) PROVE TypeOK'
  <2>1. req[c].table \in Tables
    BY <1>7, Asks DEF Lookup, CreatedMeanwhile
  <2>2. CASE registry[req[c].table] = Nobody
    BY <1>7, <2>2, Going
       DEF Lookup, CreatedMeanwhile, Unregistered, TypeOK, Steps, files, indexes
  <2>3. CASE registry[req[c].table] # Nobody
    <3>1. Made(req[c].table, registry[req[c].table]) \in Name
      BY <2>1, <2>3 DEF Made, Name, TypeOK
    <3> QED BY <1>7, <2>3, <3>1, Holding
            DEF Lookup, CreatedMeanwhile, TypeOK, Steps, files, indexes
  <2> QED BY <2>2, <2>3
<1>8. ASSUME NEW c \in Clients, Create(c) PROVE TypeOK'
  <2> DEFINE t == req[c].table
  <2>1. t \in Tables
    BY <1>8, Asks DEF Create
  <2>2. Made(t, c) \in Name
    BY <2>1 DEF Made, Name
  <2>3. log[Dir[t]] \in [Keys -> Entry]
    BY <2>1, DirAssumption DEF TypeOK
  <2>4. object' \in [Tables -> [Clients -> [Keys -> Entry]]]
    BY <1>8, <2>1, <2>3 DEF Create, TypeOK
  <2>5. registry' \in [Tables -> Maker]
    BY <1>8, <2>1 DEF Create, TypeOK
  <2> QED BY <1>8, <2>2, <2>4, <2>5, Holding DEF Create, TypeOK, Steps, files
<1>9. ASSUME NEW c \in Clients, Keep(c) PROVE TypeOK'
  <2>1. req[c].held \in Name \cup {Nothing}
    BY <1>9, Asks DEF Keep
  <2> QED BY <1>9, <2>1, Going DEF Keep, TypeOK, Steps, files
<1>10. ASSUME NEW c \in Clients, Save(c) \/ Remove(c) PROVE TypeOK'
  <2>1. PICK entry \in Entry : Change(c, entry) /\ Return(c)
    BY <1>10, Asks DEF Save, Remove, Entry
  <2> DEFINE i == req[c].held
             k == req[c].key
             changed == [object[i.table][i.by] EXCEPT ![k] = entry]
  <2>2. object' \in [Tables -> [Clients -> [Keys -> Entry]]]
    <3>1. object' = [object EXCEPT ![i.table] = [object[i.table] EXCEPT ![i.by] = changed]]
      BY <2>1 DEF Change
    <3>2. i.table \in Tables /\ i.by \in Clients => changed \in [Keys -> Entry]
      <4> SUFFICES ASSUME i.table \in Tables, i.by \in Clients
                   PROVE  changed \in [Keys -> Entry]
        OBVIOUS
      <4>1. object[i.table][i.by] \in [Keys -> Entry]
        BY DEF TypeOK
      <4> QED BY <4>1, Update
    <3>3. i.table \in Tables =>
             [object[i.table] EXCEPT ![i.by] = changed] \in [Clients -> [Keys -> Entry]]
      <4> SUFFICES ASSUME i.table \in Tables
                   PROVE  [object[i.table] EXCEPT ![i.by] = changed] \in [Clients -> [Keys -> Entry]]
        OBVIOUS
      <4>1. object[i.table] \in [Clients -> [Keys -> Entry]]
        BY DEF TypeOK
      <4> HIDE DEF i, changed
      <4> QED BY <3>2, <4>1, Update
    <3> QED BY <3>1, <3>3 DEF TypeOK
  <2>3. log' \in [Dirs -> [Keys -> Entry]]
    BY <2>1 DEF Change, TypeOK
  <2> QED BY <2>1, <2>2, <2>3, Returning DEF Change, TypeOK, files
<1>11. ASSUME NEW c \in Clients, Get(c) PROVE TypeOK'
  <2>1. CASE Held(c)[req[c].key] = Absent
    BY <1>11, <2>1, Returning DEF Get, TypeOK, files, indexes
  <2>2. CASE Held(c)[req[c].key] # Absent /\ req[c].op = "read"
    BY <1>11, <2>2, Holding DEF Get, TypeOK, Steps, files, indexes
  <2>3. CASE Held(c)[req[c].key] # Absent /\ req[c].op # "read"
    <3>1. [req[c] EXCEPT !.op = "remove", !.held = Nothing] \in Request
      BY <1>11, Asks DEF Get, Request, Ops
    <3> QED BY <1>11, <2>3, <3>1 DEF Get, Goto, TypeOK, Steps, files, indexes
  <2> QED BY <2>1, <2>2, <2>3
<1>12. ASSUME NEW t \in Tables, NEW c \in Clients, WorkerOpens(t, c) \/ WorkerCrashes(t, c)
       PROVE  TypeOK'
  <2>1. PICK w \in {"serving", "crashed"} : worker' = [worker EXCEPT ![t][c] = w]
    BY <1>12 DEF WorkerOpens, WorkerCrashes
  <2>2. worker' \in [Tables -> [Clients -> {"none", "starting", "serving", "crashed"}]]
    BY <2>1 DEF TypeOK
  <2> QED BY <1>12, <2>2 DEF WorkerOpens, WorkerCrashes, TypeOK, indexes
<1>13. ASSUME NEW t \in Tables, NEW c \in Clients, WorkerServes(t, c) PROVE TypeOK'
  <2> DEFINE r == Head(chan[t][c])
  <2>1. r \in Clients /\ Tail(chan[t][c]) \in Seq(Clients)
    BY <1>13 DEF WorkerServes, TypeOK
  <2>2. chan' \in [Tables -> [Clients -> Seq(Clients)]]
    BY <1>13, <2>1 DEF WorkerServes, TypeOK
  <2>3. CASE req[r].op = "save"
    <3>1. req[r] \in Request
      BY <2>1, <2>3 DEF TypeOK, NoRequest
    <3>2. [req[r] EXCEPT !.held = Nothing] \in Request
      BY <3>1 DEF Request
    <3> QED BY <1>13, <2>1, <2>2, <2>3, <3>2
            DEF WorkerServes, Goto, Hold, TypeOK, Steps, indexes
  <2>4. CASE req[r].op # "save"
    BY <1>13, <2>1, <2>2, <2>4, Returning DEF WorkerServes, TypeOK, indexes
  <2> QED BY <2>3, <2>4
<1>14. ASSUME Restart PROVE TypeOK'
  BY <1>14, SentinelAssumption
     DEF Restart, TypeOK, NotMade, PerMaker, NoEntries, Entry, Steps
<1>15. CASE UNCHANGED vars
  BY <1>15 DEF vars, TypeOK
<1> QED BY <1>1, <1>2, <1>3, <1>4, <1>5, <1>6, <1>7, <1>8, <1>9, <1>10, <1>11, <1>12,
           <1>13, <1>14, <1>15 DEF Next, Handler, FileWorker, ReadPanics

\* Every reachable state is well typed.
THEOREM Typing == Spec => []TypeOK
BY InitTyped, TypeStep, PTL DEF Spec

-----------------------------------------------------------------------------
(* One goroutine for a file. *)

\* At the start no worker runs.
LEMMA InitPublished == Init => WorkerPublished
BY DEF Init, WorkerPublished, PerMaker

\* Only the goroutine of the published channel changes its state, and only a request
\* whose own channel is the published one starts one (sendToFileWorker).
LEMMA PublishedStep == TypeOK /\ WorkerPublished /\ [Next]_vars => WorkerPublished'
<1> SUFFICES ASSUME TypeOK, WorkerPublished, [Next]_vars PROVE WorkerPublished'
  OBVIOUS
<1>1. ASSUME NEW c \in Clients, Publish(c) PROVE WorkerPublished'
  <2> DEFINE t == req[c].table
             actual == LoadOrStore(c, t)
  <2>1. t \in Tables
    BY <1>1, Asks DEF Publish
  <2>2. fileWorkers' = [fileWorkers EXCEPT ![t] = actual]
    BY <1>1 DEF Publish
  <2>3. /\ fileWorkers[t] # Nobody => actual = fileWorkers[t]
        /\ fileWorkers[t] = Nobody => actual = c
    BY DEF LoadOrStore
  <2>4. ASSUME NEW s \in Tables, NEW d \in Clients, worker[s][d] # "none"
        PROVE  fileWorkers'[s] = d
    <3>1. fileWorkers[s] = d
      BY <2>4 DEF WorkerPublished
    <3>2. s = t => actual = d
      BY <2>3, <3>1, SentinelAssumption
    <3> QED BY <2>1, <2>2, <3>1, <3>2 DEF TypeOK
  <2>5. CASE actual = c
    <3>1. worker' = [worker EXCEPT ![t][c] = "starting"]
      BY <1>1, <2>5 DEF Publish, Starts
    <3>2. fileWorkers'[t] = c
      BY <2>1, <2>2, <2>5 DEF TypeOK
    <3>3. ASSUME NEW s \in Tables, NEW d \in Clients, worker'[s][d] # "none"
          PROVE  (s = t /\ d = c) \/ worker[s][d] # "none"
      BY <2>1, <3>1, <3>3 DEF TypeOK
    <3> QED BY <2>4, <3>2, <3>3 DEF WorkerPublished
  <2>6. CASE actual # c
    BY <1>1, <2>4, <2>6 DEF Publish, Starts, WorkerPublished
  <2> QED BY <2>5, <2>6
<1>2. ASSUME NEW t \in Tables, NEW c \in Clients, WorkerOpens(t, c) \/ WorkerCrashes(t, c)
      PROVE  WorkerPublished'
  <2>1. PICK w : worker[t][c] = "starting" /\ worker' = [worker EXCEPT ![t][c] = w]
    BY <1>2 DEF WorkerOpens, WorkerCrashes
  <2>2. ASSUME NEW s \in Tables, NEW d \in Clients, worker'[s][d] # "none"
        PROVE  worker[s][d] # "none"
    BY <2>1, <2>2 DEF TypeOK
  <2>3. UNCHANGED fileWorkers
    BY <1>2 DEF WorkerOpens, WorkerCrashes
  <2> QED BY <2>2, <2>3 DEF WorkerPublished
<1>3. ASSUME Restart PROVE WorkerPublished'
  BY <1>3 DEF Restart, WorkerPublished, PerMaker
<1>4. ASSUME UNCHANGED <<fileWorkers, worker>> PROVE WorkerPublished'
  BY <1>4 DEF WorkerPublished
<1>5. \A t \in Tables, c \in Clients : WorkerServes(t, c) => UNCHANGED <<fileWorkers, worker>>
  BY DEF WorkerServes
<1>6. \A c \in Clients : Handler(c) =>
          Publish(c) \/ Restart \/ UNCHANGED <<fileWorkers, worker>>
  BY DEF Handler, Load, Send, SendTimesOut, SaveDropped, CheckCache, Lookup, Create,
         CreateFails, CreatedMeanwhile, Keep, Save, Get, Remove, Change, ReadPanics, files
<1> QED BY <1>1, <1>2, <1>3, <1>4, <1>5, <1>6 DEF Next, FileWorker, Begin, files, vars

\* However many requests find a file without a goroutine at the same time, it gets one
\* (sendToFileWorker).
THEOREM SoleWorker == Spec => []OneWorker
<1>1. WorkerPublished => OneWorker
  BY DEF WorkerPublished, OneWorker
<1> QED BY <1>1, InitTyped, TypeStep, InitPublished, PublishedStep, PTL DEF Spec

-----------------------------------------------------------------------------
(* One index for a table. *)

\* A process that starts has no index yet, and the logs hold what they held.
LEMMA Started ==
    ASSUME NotMade = registry', object' = PerMaker(NoEntries), cached' = Nothing,
           pc' = [c \in Clients |-> "idle"], OwnLog'
    PROVE  IndexInv'
BY SentinelAssumption
   DEF IndexInv, IndexIsLog, OwnEntries, HeldRegistered, NotMade, PerMaker, NoEntries

\* A step that leaves the indexes alone and gives no request one.
LEMMA Calm ==
    ASSUME IndexInv, UNCHANGED indexes,
           \A d \in Clients : pc'[d] \in {"keep", "use"} =>
               pc[d] \in {"keep", "use"} /\ req'[d] = req[d]
    PROVE  IndexInv'
<1>1. IndexIsLog' /\ OwnEntries' /\ OwnLog'
  BY DEF IndexInv, IndexIsLog, OwnEntries, OwnLog, indexes
<1>2. HeldRegistered'
  BY DEF IndexInv, HeldRegistered, Registered, indexes
<1> QED BY <1>1, <1>2 DEF IndexInv

\* A request that gets hold of a registered index.
LEMMA Gets ==
    ASSUME TypeOK, IndexInv, UNCHANGED indexes, NEW c \in Clients, NEW name \in Name,
           NEW step \in Steps, Goto(c, step), pc[c] # "idle",
           Registered(name), name.table = req[c].table,
           Hold(c, name)
    PROVE  IndexInv'
<1>1. IndexIsLog' /\ OwnEntries' /\ OwnLog'
  BY DEF IndexInv, IndexIsLog, OwnEntries, OwnLog, indexes
<1>2. \A d \in Clients \ {c} : pc'[d] = pc[d] /\ req'[d] = req[d]
  BY DEF Goto, Hold, TypeOK
<1>3. req'[c].held = name /\ req'[c].table = req[c].table
  BY Asks DEF Hold, TypeOK, Request
<1>4. HeldRegistered'
  BY <1>2, <1>3 DEF IndexInv, HeldRegistered, Registered, indexes
<1> QED BY <1>1, <1>4 DEF IndexInv

\* Every step keeps index and log together, and tables apart.
LEMMA IndexStep ==
    ASSUME DistinctDirs
    PROVE  TypeOK /\ IndexInv /\ [Next]_vars => IndexInv'
<1> SUFFICES ASSUME TypeOK, IndexInv, [Next]_vars PROVE IndexInv'
  OBVIOUS
<1>1. ASSUME NEW c \in Clients, CheckCache(c) PROVE IndexInv'
  <2>1. req[c].table \in Tables /\ pc[c] # "idle"
    BY <1>1, Asks DEF CheckCache
  <2>2. CASE Cached(req[c].table)
    <3>1. cached # Nothing
      BY <2>1, <2>2, SentinelAssumption DEF Cached, Nothing
    <3>2. Registered(cached) /\ cached \in Name /\ cached.table = req[c].table
      BY <2>2, <3>1 DEF IndexInv, HeldRegistered, Registered, Cached
    <3> QED BY <1>1, <2>1, <2>2, <3>2, Gets DEF CheckCache, Steps
  <2>3. CASE ~Cached(req[c].table)
    BY <1>1, <2>3, Calm DEF CheckCache, Goto, TypeOK
  <2> QED BY <2>2, <2>3
<1>2. ASSUME NEW c \in Clients, Lookup(c) \/ CreatedMeanwhile(c) PROVE IndexInv'
  <2> DEFINE t == req[c].table
             name == Made(t, registry[t])
  <2>1. t \in Tables /\ pc[c] # "idle"
    BY <1>2, Asks DEF Lookup, CreatedMeanwhile
  <2>2. CASE registry[t] = Nobody
    BY <1>2, <2>2, Calm DEF Lookup, CreatedMeanwhile, Unregistered, Goto, TypeOK
  <2>3. CASE registry[t] # Nobody
    <3>1. name \in Name /\ Registered(name) /\ name.table = t
      BY <2>1, <2>3 DEF Made, Name, Registered, TypeOK, Maker
    <3>2. Goto(c, "keep") /\ Hold(c, name) /\ UNCHANGED indexes
      BY <1>2, <2>3 DEF Lookup, CreatedMeanwhile
    <3> HIDE DEF name
    <3> QED BY <2>1, <3>1, <3>2, Gets DEF Steps
  <2> QED BY <2>2, <2>3
<1>3. ASSUME NEW c \in Clients, Create(c) PROVE IndexInv'
  <2> DEFINE t == req[c].table
  <2>1. t \in Tables /\ pc[c] # "idle" /\ registry[t] = Nobody
    BY <1>3, Asks DEF Create, Unregistered
  <2>2. /\ object' = [object EXCEPT ![t][c] = log[Dir[t]]]
        /\ registry' = [registry EXCEPT ![t] = c]
        /\ UNCHANGED <<cached, log>>
        /\ Goto(c, "keep") /\ Hold(c, Made(t, c))
    BY <1>3 DEF Create
  <2>3. registry'[t] = c /\ \A s \in Tables \ {t} : registry'[s] = registry[s]
    BY <2>1, <2>2 DEF TypeOK
  <2>4. /\ object'[t][c] = log[Dir[t]]
        /\ \A s \in Tables, d \in Clients : s # t \/ d # c => object'[s][d] = object[s][d]
    BY <2>1, <2>2 DEF TypeOK
  <2>5. IndexIsLog'
    <3> SUFFICES ASSUME NEW s \in Tables, registry'[s] # Nobody
                 PROVE  object'[s][registry'[s]] = log[Dir[s]]
      BY <2>2 DEF IndexIsLog
    <3>1. CASE s = t
      BY <2>3, <2>4, <3>1
    <3>2. CASE s # t
      <4>1. registry[s] \in Clients /\ registry'[s] = registry[s]
        BY <2>3, <3>2 DEF TypeOK, Maker
      <4> QED BY <2>4, <3>2, <4>1 DEF IndexInv, IndexIsLog
    <3> QED BY <3>1, <3>2
  <2>6. OwnLog' /\ OwnEntries'
    BY <2>1, <2>2, <2>4 DEF IndexInv, OwnLog, OwnEntries
  <2>7. \A name : Registered(name) => Registered(name)'
    <3> SUFFICES ASSUME NEW name, Registered(name) PROVE name.table # t
      BY <2>3 DEF Registered, Name
    <3> QED BY <2>1, SentinelAssumption DEF Registered, Name
  <2>8. HeldRegistered'
    <3>1. cached' # Nothing => Registered(cached)'
      BY <2>2, <2>7 DEF IndexInv, HeldRegistered
    <3>2. Registered(req[c].held)' /\ req'[c].held.table = req'[c].table
      <4>1. req[c] \in Request
        BY <2>1, Asks
      <4>2. req'[c].held = Made(t, c) /\ req'[c].table = t
        BY <2>2, <4>1 DEF Hold, Request, TypeOK
      <4> QED BY <2>1, <2>3, <4>2 DEF Registered, Made, Name
    <3>3. \A d \in Clients \ {c} : pc'[d] = pc[d] /\ req'[d] = req[d]
      BY <2>2 DEF Goto, Hold, TypeOK
    <3> QED BY <2>7, <3>1, <3>2, <3>3 DEF IndexInv, HeldRegistered
  <2> QED BY <2>5, <2>6, <2>8 DEF IndexInv
<1>4. ASSUME NEW c \in Clients, Keep(c) PROVE IndexInv'
  <2>1. Registered(req[c].held)
    BY <1>4 DEF Keep, IndexInv, HeldRegistered
  <2>2. IndexIsLog' /\ OwnEntries' /\ OwnLog'
    BY <1>4 DEF Keep, IndexInv, IndexIsLog, OwnEntries, OwnLog
  <2>3. \A d \in Clients : pc'[d] \in {"keep", "use"} =>
            pc[d] \in {"keep", "use"} /\ req'[d] = req[d]
    BY <1>4 DEF Keep, Goto, TypeOK
  <2>4. HeldRegistered'
    BY <1>4, <2>1, <2>3 DEF Keep, IndexInv, HeldRegistered, Registered
  <2> QED BY <2>2, <2>4 DEF IndexInv
<1>5. ASSUME NEW c \in Clients, Save(c) \/ Remove(c) PROVE IndexInv'
  <2> DEFINE t == req[c].table
             b == req[c].held.by
             k == req[c].key
  <2>1. PICK entry \in {t, Absent} : Change(c, entry) /\ Return(c)
    BY <1>5 DEF Save, Remove
  <2>2. /\ t \in Tables /\ k \in Keys /\ b \in Clients
        /\ req[c].held.table = t /\ registry[t] = b
    BY <1>5, Asks DEF Save, Remove, IndexInv, HeldRegistered, Registered, Name
  <2>3. Dir[t] \in Dirs /\ \A s \in Tables \ {t} : Dir[s] \in Dirs /\ Dir[s] # Dir[t]
    BY <2>2, DirAssumption, DistinctDirs DEF DistinctDirs
  <2>4. /\ object' = [object EXCEPT ![t][b][k] = entry]
        /\ log' = [log EXCEPT ![Dir[t]][k] = entry]
        /\ UNCHANGED <<registry, cached>>
    BY <2>1, <2>2 DEF Change
  <2> HIDE DEF b, k, t
  <2>5. /\ object'[t][b] = [object[t][b] EXCEPT ![k] = entry]
        /\ \A s \in Tables, d \in Clients : s # t \/ d # b => object'[s][d] = object[s][d]
    BY <2>2, <2>4 DEF TypeOK
  <2>6. /\ log'[Dir[t]] = [log[Dir[t]] EXCEPT ![k] = entry]
        /\ \A s \in Tables \ {t} : log'[Dir[s]] = log[Dir[s]]
    BY <2>3, <2>4 DEF TypeOK
  <2>7. IndexIsLog'
    <3> SUFFICES ASSUME NEW s \in Tables, registry[s] # Nobody
                 PROVE  object'[s][registry[s]] = log'[Dir[s]]
      BY <2>4 DEF IndexIsLog
    <3>1. object[s][registry[s]] = log[Dir[s]] /\ registry[s] \in Clients
      BY DEF IndexInv, IndexIsLog, TypeOK, Maker
    <3>2. CASE s = t
      BY <2>2, <2>5, <2>6, <3>1, <3>2
    <3>3. CASE s # t
      BY <2>5, <2>6, <3>1, <3>3
    <3> QED BY <3>2, <3>3
  <2>8. OwnEntries'
    <3> SUFFICES ASSUME NEW s \in Tables, NEW d \in Clients, NEW j \in Keys
                 PROVE  object'[s][d][j] \in {s, Absent}
      BY DEF OwnEntries
    <3>1. object[s][d] \in [Keys -> Entry] /\ object[s][d][j] \in {s, Absent}
      BY DEF IndexInv, OwnEntries, TypeOK
    <3>2. CASE s = t /\ d = b
      BY <2>1, <2>5, <3>1, <3>2 DEF t
    <3>3. CASE s # t \/ d # b
      BY <2>5, <3>1, <3>3
    <3> QED BY <3>2, <3>3
  <2>9. OwnLog'
    <3> SUFFICES ASSUME NEW s \in Tables, NEW j \in Keys
                 PROVE  log'[Dir[s]][j] \in {s, Absent}
      BY DEF OwnLog
    <3>1. log[Dir[s]] \in [Keys -> Entry] /\ log[Dir[s]][j] \in {s, Absent}
      BY <2>2, <2>3 DEF IndexInv, OwnLog, TypeOK
    <3>2. CASE s = t
      BY <2>1, <2>6, <3>1, <3>2 DEF t
    <3>3. CASE s # t
      BY <2>6, <3>1, <3>3
    <3> QED BY <3>2, <3>3
  <2>10. \A d \in Clients : pc'[d] \in {"keep", "use"} =>
            pc[d] \in {"keep", "use"} /\ req'[d] = req[d]
    BY <2>1 DEF Return, Goto, TypeOK
  <2>11. HeldRegistered'
    BY <2>4, <2>10 DEF IndexInv, HeldRegistered, Registered
  <2> QED BY <2>7, <2>8, <2>9, <2>11 DEF IndexInv
<1>6. ASSUME Restart PROVE IndexInv'
  <2>1. OwnLog'
    BY <1>6 DEF Restart, IndexInv, OwnLog
  <2> QED BY <1>6, <2>1, Started DEF Restart
<1>7. ASSUME NEW c \in Clients, Load(c) \/ Publish(c) \/ Send(c) \/ Get(c) PROVE IndexInv'
  BY <1>7, Calm DEF Load, Publish, Send, Get, Goto, Hold, Return, TypeOK
<1>8. ASSUME NEW c \in Clients, SendTimesOut(c) \/ SaveDropped(c) \/ CreateFails(c)
      PROVE  IndexInv'
  BY <1>8, Calm DEF SendTimesOut, SaveDropped, CreateFails, Goto, Return, TypeOK
<1>9. ASSUME NEW c \in Clients, NEW op, NEW t \in Tables, NEW k \in Keys, Begin(c, op, t, k)
      PROVE  IndexInv'
  BY <1>9, Calm DEF Begin, Goto, TypeOK
<1>10. ASSUME NEW t \in Tables, NEW c \in Clients, FileWorker(t, c) PROVE IndexInv'
  <2>1. CASE WorkerServes(t, c)
    <3> DEFINE r == Head(chan[t][c])
    <3>1. r \in Clients
      BY <2>1 DEF WorkerServes, TypeOK
    <3> QED BY <2>1, <3>1, Calm DEF WorkerServes, Goto, Hold, Return, TypeOK
  <2>2. CASE ~WorkerServes(t, c)
    BY <1>10, <2>2, Calm DEF FileWorker, WorkerOpens, WorkerCrashes
  <2> QED BY <2>1, <2>2
<1>11. CASE UNCHANGED vars
  BY <1>11, Calm DEF vars, indexes
<1> QED BY <1>1, <1>2, <1>3, <1>4, <1>5, <1>6, <1>7, <1>8, <1>9, <1>10, <1>11
        DEF Next, Handler, ReadPanics

\* The registered index, the one used last and those that requests hold agree with
\* each other and with the logs, if names keep their directories apart.
THEOREM IndexInvariant ==
    ASSUME DistinctDirs
    PROVE  Spec => []IndexInv
<1>1. Init => IndexInv
  BY DirAssumption, SentinelAssumption
     DEF Init, IndexInv, IndexIsLog, OwnEntries, OwnLog, HeldRegistered, NotMade, PerMaker,
         NoEntries
<1>2. TypeOK /\ IndexInv /\ [Next]_vars => IndexInv'
  BY IndexStep
<1> QED BY <1>1, <1>2, InitTyped, TypeStep, PTL DEF Spec

\* Tables whose names keep their directories apart have one index each, the one that
\* is logged, through the double-checked creation and restarts (getTableIndex).
THEOREM OneIndex ==
    ASSUME DistinctDirs
    PROVE  Spec => []IndexIsLog
<1>1. IndexInv => IndexIsLog
  BY DEF IndexInv
<1> QED BY <1>1, IndexInvariant, PTL

\* And that index holds entries of its own file only: no request that finds the index
\* of another table in lastIndexCache ever writes its entry there.
THEOREM OwnIndex ==
    ASSUME DistinctDirs
    PROVE  Spec => []OwnEntries
<1>1. IndexInv => OwnEntries
  BY DEF IndexInv
<1> QED BY <1>1, IndexInvariant, PTL
=============================================================================
