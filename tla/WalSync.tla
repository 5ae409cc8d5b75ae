------------------------------- MODULE WalSync -------------------------------
(***************************************************************************)
(* How the log of a table index reaches the disk (mapManager.go): flushWal *)
(* counts a request and signals walSyncCond, walSyncLoop syncs the file    *)
(* and broadcasts, waitForWalSync waits until its request is counted as    *)
(* completed. walSyncRequested and walSyncCompleted are atomics that are   *)
(* changed without walSyncMu, the lock of the condition variable.          *)
(*   flusher  idle -> count -> signal (-> check -> lock -> test ...) -> idle *)
(*   loop     lock -> test -> sync -> load -> store -> wake -> lock        *)
(* sync.Cond keeps its waiters in a queue: Signal wakes the first of them, *)
(* Broadcast all; one that is woken takes the lock again ("lock").         *)
(***************************************************************************)
EXTENDS Integers, Sequences

CONSTANTS
    Flushers,      \* goroutines that flush the log
    Waiters,       \* those of them that then wait for the fsync (writeSnapshot)
    Loop,          \* the goroutine of walSyncLoop
    MaxRequests    \* bound on walSyncRequested

ASSUME LoopAssumption == Loop \notin Flushers /\ Waiters \subseteq Flushers
ASSUME RequestsAssumption == MaxRequests \in Nat

VARIABLES
    requested,   \* walSyncRequested
    completed,   \* walSyncCompleted
    lastSynced,  \* of walSyncLoop
    mutex,       \* the goroutine that holds walSyncMu, or none
    waiting,     \* the queue of walSyncCond
    pc,          \* per goroutine
    seq          \* per flusher: the number its flush was given

vars == <<requested, completed, lastSynced, mutex, waiting, pc, seq>>
counters == <<requested, completed, lastSynced>>

Goroutines == Flushers \cup {Loop}

Init ==
    /\ requested = 0 /\ completed = 0 /\ lastSynced = 0
    /\ mutex = {} /\ waiting = <<>>
    /\ pc = [g \in Goroutines |-> IF g = Loop THEN "lock" ELSE "idle"]
    /\ seq = [f \in Flushers |-> 0]

Goto(g, step) == pc' = [pc EXCEPT ![g] = step]

\* walSyncMu.Lock()
Lock(g) ==
    /\ pc[g] = "lock" /\ mutex = {}
    /\ mutex' = {g}
    /\ Goto(g, "test")
    /\ UNCHANGED <<counters, waiting, seq>>

\* walSyncCond.Wait(): into the queue and out of the lock, in that order, which
\* is one step for whoever needs the lock to signal.
Sleep(g) ==
    /\ waiting' = Append(waiting, g)
    /\ mutex' = {}
    /\ Goto(g, "sleep")

\* walSyncCond.Signal(), walSyncCond.Broadcast(): who waits goes for the lock.
Woken(gs, g, step) ==
    pc' = [x \in Goroutines |-> IF x = g THEN step
                                ELSE IF x \in gs THEN "lock" ELSE pc[x]]

-----------------------------------------------------------------------------
(* flushWal: the buffer is flushed, then the request is counted. *)

Flush(f) ==
    /\ pc[f] = "idle" /\ requested < MaxRequests
    /\ requested' = requested + 1
    /\ seq' = [seq EXCEPT ![f] = requested']
    /\ Goto(f, "signal")
    /\ UNCHANGED <<completed, lastSynced, mutex, waiting>>

\* Lock, Signal, Unlock: one step, since nothing else is done under the lock.
Signal(f) ==
    /\ pc[f] = "signal" /\ mutex = {}
    /\ IF waiting = <<>>
       THEN Woken({}, f, IF f \in Waiters THEN "check" ELSE "idle") /\ UNCHANGED waiting
       ELSE /\ Woken({Head(waiting)}, f, IF f \in Waiters THEN "check" ELSE "idle")
            /\ waiting' = Tail(waiting)
    /\ UNCHANGED <<counters, mutex, seq>>

-----------------------------------------------------------------------------
(* waitForWalSync *)

\* The check before the lock.
Check(f) ==
    /\ pc[f] = "check"
    /\ Goto(f, IF completed >= seq[f] THEN "idle" ELSE "lock")
    /\ UNCHANGED <<counters, mutex, waiting, seq>>

\* The check under the lock; done, the outer loop checks once more.
Test(f) ==
    /\ pc[f] = "test"
    /\ IF completed < seq[f] THEN Sleep(f)
       ELSE /\ mutex' = {}
            /\ Goto(f, "check")
            /\ UNCHANGED waiting
    /\ UNCHANGED <<counters, seq>>

-----------------------------------------------------------------------------
(* walSyncLoop *)

LoopTest ==
    /\ pc[Loop] = "test"
    /\ IF lastSynced = requested THEN Sleep(Loop)
       ELSE /\ mutex' = {}
            /\ Goto(Loop, "sync")
            /\ UNCHANGED waiting
    /\ UNCHANGED <<counters, seq>>

\* walFile.Sync(), under walMu.
LoopSync ==
    /\ pc[Loop] = "sync"
    /\ Goto(Loop, "load")
    /\ UNCHANGED <<counters, mutex, waiting, seq>>

\* Variant: one request too many is taken as synced.
LoopLoadNext ==
    /\ pc[Loop] = "load"
    /\ lastSynced' = requested + 1
    /\ Goto(Loop, "store")
    /\ UNCHANGED <<requested, completed, mutex, waiting, seq>>

\* The requests counted by now are taken as synced, those that were counted after
\* the Sync began among them.
LoopLoad ==
    /\ pc[Loop] = "load"
    /\ lastSynced' = requested
    /\ Goto(Loop, "store")
    /\ UNCHANGED <<requested, completed, mutex, waiting, seq>>

LoopStore ==
    /\ pc[Loop] = "store"
    /\ completed' = lastSynced
    /\ Goto(Loop, "wake")
    /\ UNCHANGED <<requested, lastSynced, mutex, waiting, seq>>

\* Variant: nobody is told.
LoopWakeNobody ==
    /\ pc[Loop] = "wake" /\ mutex = {}
    /\ Goto(Loop, "lock")
    /\ UNCHANGED <<counters, mutex, waiting, seq>>

LoopWake ==
    /\ pc[Loop] = "wake" /\ mutex = {}
    /\ Woken({waiting[i] : i \in DOMAIN waiting}, Loop, "lock")
    /\ waiting' = <<>>
    /\ UNCHANGED <<counters, mutex, seq>>

-----------------------------------------------------------------------------
SyncLoop == Lock(Loop) \/ LoopTest \/ LoopSync \/ LoopLoad \/ LoopStore \/ LoopWake
Flusher(f) == Signal(f) \/ Check(f) \/ Lock(f) \/ Test(f)

Next == SyncLoop \/ \E f \in Flushers : Flush(f) \/ Flusher(f)

Spec == Init /\ [][Next]_vars

\* A goroutine that can run does; sync.Mutex hands itself to whoever has waited
\* for a millisecond, so nobody waits for it for ever.
FairSpec ==
    /\ Spec
    /\ SF_vars(Lock(Loop)) /\ WF_vars(SyncLoop)
    /\ \A f \in Flushers : SF_vars(Lock(f)) /\ SF_vars(Signal(f)) /\ WF_vars(Flusher(f))

-----------------------------------------------------------------------------
(* Properties. *)

\* Types of the state.
TypeOK ==
    /\ requested \in 0 .. MaxRequests
    /\ completed \in 0 .. requested /\ lastSynced \in 0 .. requested
    /\ mutex \in SUBSET Goroutines
    /\ waiting \in Seq(Goroutines)
    /\ pc \in [Goroutines -> {"idle", "signal", "check", "lock", "test", "sleep",
                              "sync", "load", "store", "wake"}]
    /\ seq \in [Flushers -> 0 .. MaxRequests]

\* The condition variable loses no wake-up although its counters change without its
\* lock, and no Signal is spent on a waiter that cannot use it while the loop sleeps:
\* when a request is not synced and the loop sleeps, a flusher is still to signal,
\* and the loop is the one it will wake.
NoLostWakeup ==
    pc[Loop] = "sleep" /\ requested # lastSynced =>
        /\ \E f \in Flushers : pc[f] = "signal"
        /\ Head(waiting) = Loop

\* Nobody sleeps for a request that is completed, unless the loop is about to
\* broadcast.
NoSleepBehind ==
    \A f \in Flushers : pc[f] = "sleep" /\ seq[f] <= completed => pc[Loop] = "wake"

\* The queue holds who sleeps, each of them once.
QueueOK ==
    /\ \A i \in DOMAIN waiting : pc[waiting[i]] = "sleep"
    /\ \A i, j \in DOMAIN waiting : i # j => waiting[i] # waiting[j]
    /\ \A g \in Goroutines : pc[g] = "sleep" => \E i \in DOMAIN waiting : waiting[i] = g

\* What walSyncLoop knows: outside of its store nothing it has synced is missing in
\* walSyncCompleted, so when it goes to sleep every request is completed, nobody
\* else sleeps, and it is the first in the queue for as long as it sleeps.
LoopOK ==
    /\ pc[Loop] \in {"lock", "test", "sleep", "sync", "load", "store", "wake"}
    /\ completed <= lastSynced /\ (pc[Loop] # "store" => completed = lastSynced)
    /\ \A f \in Flushers : seq[f] <= requested
    /\ pc[Loop] = "sleep" =>
          /\ waiting # <<>> /\ Head(waiting) = Loop
          /\ requested # lastSynced => \E f \in Flushers : pc[f] = "signal"

\* Inductive form of NoLostWakeup and NoSleepBehind.
SyncInv == QueueOK /\ LoopOK /\ NoSleepBehind

\* waitForWalSync returns: writeSnapshot goes on to rotate the log.
WaitReturns == \A f \in Waiters : pc[f] = "check" ~> pc[f] = "idle"
=============================================================================
