--------------------------- MODULE WalSync_proofs ---------------------------
(***************************************************************************)
(* The condition variable of the fsync loop, for any flushers and any      *)
(* number of requests.                                                     *)
(***************************************************************************)
EXTENDS WalSync, TLAPS

\* The start is well typed.
LEMMA InitTyped == Init => TypeOK
BY RequestsAssumption DEF Init, TypeOK, Goroutines

\* Waking those who wait keeps their types.
LEMMA WokenTyped ==
    ASSUME TypeOK, NEW gs, NEW g \in Goroutines,
           NEW step \in {"idle", "check", "lock"}, Woken(gs, g, step)
    PROVE  pc' \in [Goroutines -> {"idle", "signal", "check", "lock", "test", "sleep",
                                   "sync", "load", "store", "wake"}]
BY DEF TypeOK, Woken

\* Every step keeps the types.
LEMMA TypeStep == TypeOK /\ [Next]_vars => TypeOK'
<1> SUFFICES ASSUME TypeOK, [Next]_vars PROVE TypeOK'
  OBVIOUS
<1> USE RequestsAssumption
<1>g. Loop \in Goroutines /\ Flushers \subseteq Goroutines
  BY DEF Goroutines
<1>1. ASSUME NEW g \in Goroutines, Lock(g) PROVE TypeOK'
  BY <1>1 DEF Lock, Goto, TypeOK, counters
<1>2. ASSUME NEW g \in Goroutines, Sleep(g), UNCHANGED <<counters, seq>> PROVE TypeOK'
  BY <1>2 DEF Sleep, Goto, TypeOK, counters
<1>3. ASSUME NEW f \in Flushers, Flush(f) PROVE TypeOK'
  BY <1>g, <1>3 DEF Flush, Goto, TypeOK
<1>4. ASSUME NEW f \in Flushers, Signal(f) PROVE TypeOK'
  <2>1. waiting' \in Seq(Goroutines)
    BY <1>4 DEF Signal, TypeOK
  <2>2. \/ \E step \in {"idle", "check"} : Woken({}, f, step)
        \/ \E step \in {"idle", "check"} : Woken({Head(waiting)}, f, step)
    BY <1>4 DEF Signal
  <2>3. pc' \in [Goroutines -> {"idle", "signal", "check", "lock", "test", "sleep",
                                "sync", "load", "store", "wake"}]
    BY <1>g, <2>2, WokenTyped
  <2> QED BY <1>4, <2>1, <2>3 DEF Signal, TypeOK, counters
<1>5. ASSUME NEW f \in Flushers, Check(f) \/ Test(f) PROVE TypeOK'
  BY <1>g, <1>2, <1>5 DEF Check, Test, Goto, TypeOK, counters
<1>6. ASSUME LoopTest PROVE TypeOK'
  BY <1>g, <1>2, <1>6 DEF LoopTest, Goto, TypeOK, counters
<1>7. ASSUME LoopSync \/ LoopLoad \/ LoopStore PROVE TypeOK'
  BY <1>g, <1>7 DEF LoopSync, LoopLoad, LoopStore, Goto, TypeOK, counters
<1>8. ASSUME LoopWake PROVE TypeOK'
  BY <1>g, <1>8, WokenTyped DEF LoopWake, TypeOK, counters
<1>9. ASSUME UNCHANGED vars PROVE TypeOK'
  BY <1>9 DEF vars, TypeOK
<1> QED BY <1>g, <1>1, <1>3, <1>4, <1>5, <1>6, <1>7, <1>8, <1>9
    DEF Next, SyncLoop, Flusher

\* For any flushers every reachable state is well typed; what is counted as completed
\* or as synced was requested.
THEOREM Typing == Spec => []TypeOK
BY InitTyped, TypeStep, PTL DEF Spec

-----------------------------------------------------------------------------
(* Nobody sleeps who should be awake. *)

\* At the start nobody waits.
LEMMA InitSync == Init => SyncInv
<1> SUFFICES ASSUME Init PROVE SyncInv
  OBVIOUS
<1>1. /\ \A g \in Goroutines : pc[g] # "sleep"
      /\ pc[Loop] = "lock" /\ waiting = <<>>
  BY DEF Init, Goroutines
<1>2. QueueOK
  BY <1>1 DEF QueueOK
<1>3. LoopOK
  BY <1>1 DEF Init, LoopOK
<1>4. NoSleepBehind
  BY <1>1 DEF NoSleepBehind, Goroutines
<1> QED BY <1>2, <1>3, <1>4 DEF SyncInv

\* The steps of g that neither begin nor end a sleep.
LEMMA AwakeQueue ==
    ASSUME TypeOK, QueueOK, NEW g \in Goroutines, NEW step,
           pc[g] # "sleep", step # "sleep", Goto(g, step), UNCHANGED waiting
    PROVE  QueueOK'
<1>1. \A h \in Goroutines : pc'[h] = IF h = g THEN step ELSE pc[h]
  BY DEF Goto, TypeOK
<1>2. \A i \in DOMAIN waiting : waiting[i] \in Goroutines
  BY DEF TypeOK
<1> QED BY <1>1, <1>2 DEF QueueOK

\* Into the queue: g comes last, the others keep their places.
LEMMA SleepQueue ==
    ASSUME TypeOK, QueueOK, NEW g \in Goroutines, pc[g] # "sleep", Sleep(g)
    PROVE  /\ QueueOK'
           /\ waiting' # <<>>
           /\ Head(waiting') = IF waiting = <<>> THEN g ELSE Head(waiting)
<1>1. \A h \in Goroutines : pc'[h] = IF h = g THEN "sleep" ELSE pc[h]
  BY DEF Sleep, Goto, TypeOK
<1>2. waiting \in Seq(Goroutines) /\ waiting' = Append(waiting, g)
  BY DEF TypeOK, Sleep
<1>3. /\ \A i \in DOMAIN waiting : waiting'[i] = waiting[i] /\ waiting[i] \in Goroutines
                                   /\ waiting[i] # g /\ i \in DOMAIN waiting'
      /\ \A i \in DOMAIN waiting' : i \in DOMAIN waiting \/ i = Len(waiting) + 1
      /\ waiting'[Len(waiting) + 1] = g /\ Len(waiting) + 1 \in DOMAIN waiting'
  BY <1>2 DEF QueueOK
<1>4. QueueOK'
  <2>1. \A i \in DOMAIN waiting' : pc'[waiting'[i]] = "sleep"
    BY <1>1, <1>3 DEF QueueOK
  <2>2. \A i, j \in DOMAIN waiting' : i # j => waiting'[i] # waiting'[j]
    BY <1>3 DEF QueueOK
  <2>3. \A h \in Goroutines : pc'[h] = "sleep" => \E i \in DOMAIN waiting' : waiting'[i] = h
    BY <1>1, <1>3 DEF QueueOK
  <2> QED BY <2>1, <2>2, <2>3 DEF QueueOK
<1> QED BY <1>2, <1>4

\* Signal takes the first out of the queue.
LEMMA SignalQueue ==
    ASSUME TypeOK, QueueOK, NEW f \in Flushers, Signal(f)
    PROVE  QueueOK'
<1>1. PICK step \in {"idle", "check"} :
         IF waiting = <<>> THEN Woken({}, f, step) /\ UNCHANGED waiting
         ELSE Woken({Head(waiting)}, f, step) /\ waiting' = Tail(waiting)
  BY DEF Signal
<1>2. pc[f] = "signal" /\ f \in Goroutines /\ waiting \in Seq(Goroutines)
  BY DEF Signal, Goroutines, TypeOK
<1>3. CASE waiting = <<>>
  <2>1. \A h \in Goroutines : pc'[h] = IF h = f THEN step ELSE pc[h]
    BY <1>1, <1>3 DEF Woken
  <2> QED BY <1>1, <1>2, <1>3, <2>1 DEF QueueOK
<1>4. CASE waiting # <<>>
  <2>1. /\ \A i \in DOMAIN waiting' : /\ i + 1 \in DOMAIN waiting
                                      /\ waiting'[i] = waiting[i + 1]
        /\ \A i \in DOMAIN waiting : i # 1 => i - 1 \in DOMAIN waiting'
        /\ Head(waiting) = waiting[1] /\ 1 \in DOMAIN waiting
    BY <1>1, <1>2, <1>4
  <2>2. \A h \in Goroutines : pc'[h] = IF h = f THEN step
                                       ELSE IF h = waiting[1] THEN "lock" ELSE pc[h]
    BY <1>1, <1>4, <2>1 DEF Woken
  <2>3. \A i \in DOMAIN waiting' : waiting'[i] \in Goroutines /\ waiting'[i] # f
                                   /\ waiting'[i] # waiting[1]
    <3> SUFFICES ASSUME NEW i \in DOMAIN waiting'
                 PROVE  waiting'[i] \in Goroutines /\ waiting'[i] # f
                        /\ waiting'[i] # waiting[1]
      OBVIOUS
    <3>1. i + 1 \in DOMAIN waiting /\ waiting'[i] = waiting[i + 1] /\ i + 1 # 1
      BY <1>1, <1>2, <1>4, <2>1
    <3>2. pc[waiting[i + 1]] = "sleep" /\ waiting[i + 1] # waiting[1]
      BY <2>1, <3>1 DEF QueueOK
    <3>3. waiting[i + 1] \in Goroutines
      BY <1>2, <3>1
    <3> QED BY <1>2, <3>1, <3>2, <3>3
  <2>4. \A i \in DOMAIN waiting' : pc'[waiting'[i]] = "sleep"
    BY <2>1, <2>2, <2>3 DEF QueueOK
  <2>5. \A i, j \in DOMAIN waiting' : i # j => waiting'[i] # waiting'[j]
    <3> SUFFICES ASSUME NEW i \in DOMAIN waiting', NEW j \in DOMAIN waiting', i # j
                 PROVE  waiting'[i] # waiting'[j]
      OBVIOUS
    <3>1. i + 1 # j + 1
      BY <1>1, <1>2, <1>4
    <3> QED BY <2>1, <3>1 DEF QueueOK
  <2>6. ASSUME NEW h \in Goroutines, pc'[h] = "sleep"
        PROVE  \E i \in DOMAIN waiting' : waiting'[i] = h
    <3>1. pc[h] = "sleep" /\ h # waiting[1]
      BY <2>2, <2>6
    <3>2. PICK j \in DOMAIN waiting : waiting[j] = h
      BY <3>1 DEF QueueOK
    <3>3. j - 1 \in DOMAIN waiting' /\ waiting'[j - 1] = waiting[j]
      BY <1>2, <2>1, <3>1, <3>2
    <3> QED BY <3>2, <3>3
  <2> QED BY <2>4, <2>5, <2>6 DEF QueueOK
<1> QED BY <1>3, <1>4

\* Broadcast empties the queue and leaves nobody asleep.
LEMMA WakeQueue ==
    ASSUME TypeOK, QueueOK, LoopWake
    PROVE  QueueOK' /\ \A g \in Goroutines : pc'[g] # "sleep"
<1>1. \A g \in Goroutines :
         pc'[g] = IF g = Loop THEN "lock"
                  ELSE IF g \in {waiting[i] : i \in DOMAIN waiting} THEN "lock" ELSE pc[g]
  BY DEF LoopWake, Woken
<1>2. \A g \in Goroutines : pc[g] = "sleep" => g \in {waiting[i] : i \in DOMAIN waiting}
  BY DEF QueueOK
<1>3. \A g \in Goroutines : pc'[g] # "sleep"
  BY <1>1, <1>2
<1> QED BY <1>3 DEF LoopWake, QueueOK

\* Every step keeps the counts in step with those who wait.
LEMMA SyncStep == TypeOK /\ TypeOK' /\ SyncInv /\ [Next]_vars => SyncInv'
<1> SUFFICES ASSUME TypeOK, TypeOK', SyncInv, [Next]_vars PROVE SyncInv'
  OBVIOUS
<1> USE DEF SyncInv
<1>g. /\ Loop \in Goroutines /\ Flushers \subseteq Goroutines
      /\ \A f \in Flushers : f # Loop
  BY LoopAssumption DEF Goroutines
<1>n. /\ requested \in Nat /\ completed \in Nat /\ lastSynced \in Nat
      /\ \A f \in Flushers : seq[f] \in Nat
  BY RequestsAssumption DEF TypeOK
<1>1. ASSUME NEW g \in Goroutines, Lock(g) PROVE SyncInv'
  <2>1. \A h \in Goroutines : pc'[h] = IF h = g THEN "test" ELSE pc[h]
    BY <1>1 DEF Lock, Goto, TypeOK
  <2>2. QueueOK'
    BY <1>1, AwakeQueue DEF Lock
  <2> QED BY <1>g, <1>1, <2>1, <2>2 DEF Lock, LoopOK, NoSleepBehind, counters
<1>2. ASSUME NEW f \in Flushers, Flush(f) PROVE SyncInv'
  <2>1. \A h \in Goroutines : pc'[h] = IF h = f THEN "signal" ELSE pc[h]
    BY <1>g, <1>2 DEF Flush, Goto, TypeOK
  <2>2. QueueOK'
    BY <1>g, <1>2, AwakeQueue DEF Flush
  <2>3. \A e \in Flushers : seq'[e] = IF e = f THEN requested' ELSE seq[e]
    BY <1>2 DEF Flush, TypeOK
  <2>4. LoopOK'
    BY <1>g, <1>n, <1>2, <2>1, <2>3 DEF Flush, LoopOK
  <2>5. NoSleepBehind'
    BY <1>g, <1>2, <2>1, <2>3 DEF Flush, NoSleepBehind
  <2> QED BY <2>2, <2>4, <2>5
<1>3. ASSUME NEW f \in Flushers, Signal(f) PROVE SyncInv'
  <2>1. QueueOK' /\ UNCHANGED <<counters, seq>>
    BY <1>3, SignalQueue DEF Signal
  <2>2. /\ pc'[Loop] # "sleep"
        /\ pc'[Loop] \in {"lock", pc[Loop]} /\ (pc[Loop] # "sleep" => pc'[Loop] = pc[Loop])
    <3>1. pc[Loop] = "sleep" => waiting # <<>> /\ Head(waiting) = Loop
      BY DEF LoopOK
    <3>2. waiting # <<>> => pc[Head(waiting)] = "sleep"
      BY DEF QueueOK, TypeOK
    <3> QED BY <1>g, <1>3, <3>1, <3>2 DEF Signal, Woken
  <2>3. \A e \in Flushers : pc'[e] = "sleep" => pc[e] = "sleep"
    BY <1>g, <1>3 DEF Signal, Woken
  <2>4. LoopOK'
    BY <2>1, <2>2 DEF LoopOK, counters
  <2>5. NoSleepBehind'
    BY <2>1, <2>2, <2>3 DEF NoSleepBehind, counters
  <2> QED BY <2>1, <2>4, <2>5
<1>4. ASSUME NEW f \in Flushers, Check(f) PROVE SyncInv'
  <2>1. PICK step \in {"idle", "lock"} : Goto(f, step)
    BY <1>4 DEF Check
  <2>2. \A h \in Goroutines : pc'[h] = IF h = f THEN step ELSE pc[h]
    BY <1>g, <2>1 DEF Goto, TypeOK
  <2>3. QueueOK'
    BY <1>g, <1>4, <2>1, AwakeQueue DEF Check
  <2> QED BY <1>g, <1>4, <2>2, <2>3 DEF Check, LoopOK, NoSleepBehind, counters
<1>5. ASSUME NEW f \in Flushers, Test(f) PROVE SyncInv'
  <2>1. CASE completed < seq[f]
    <3>1. pc[f] = "test" /\ Sleep(f) /\ UNCHANGED <<counters, seq>>
      BY <1>5, <2>1 DEF Test
    <3>2. /\ QueueOK' /\ waiting' # <<>>
          /\ Head(waiting') = IF waiting = <<>> THEN f ELSE Head(waiting)
      BY <1>g, <3>1, SleepQueue
    <3>3. \A h \in Goroutines : pc'[h] = IF h = f THEN "sleep" ELSE pc[h]
      BY <1>g, <3>1 DEF Sleep, Goto, TypeOK
    <3>4. LoopOK'
      BY <1>g, <3>1, <3>2, <3>3 DEF LoopOK, counters
    <3>5. NoSleepBehind'
      BY <1>g, <1>n, <2>1, <3>1, <3>3 DEF NoSleepBehind, counters
    <3> QED BY <3>2, <3>4, <3>5
  <2>2. CASE ~(completed < seq[f])
    <3>1. pc[f] = "test" /\ Goto(f, "check") /\ UNCHANGED <<waiting, counters, seq>>
      BY <1>5, <2>2 DEF Test
    <3>2. \A h \in Goroutines : pc'[h] = IF h = f THEN "check" ELSE pc[h]
      BY <1>g, <3>1 DEF Goto, TypeOK
    <3>3. QueueOK'
      BY <1>g, <3>1, AwakeQueue
    <3> QED BY <1>g, <3>1, <3>2, <3>3 DEF LoopOK, NoSleepBehind, counters
  <2> QED BY <2>1, <2>2
<1>6. ASSUME LoopTest PROVE SyncInv'
  <2>1. CASE lastSynced = requested
    <3>1. pc[Loop] = "test" /\ Sleep(Loop) /\ UNCHANGED <<counters, seq>>
      BY <1>6, <2>1 DEF LoopTest
    <3>2. \A f \in Flushers : pc[f] # "sleep"
      BY <1>n, <2>1, <3>1 DEF LoopOK, NoSleepBehind
    <3>3. waiting = <<>>
      <4>1. \A g \in Goroutines : pc[g] # "sleep"
        BY <3>1, <3>2 DEF Goroutines
      <4> QED BY <4>1 DEF QueueOK, TypeOK
    <3>4. QueueOK' /\ waiting' # <<>> /\ Head(waiting') = Loop
      BY <1>g, <3>1, <3>3, SleepQueue
    <3>5. \A h \in Goroutines : pc'[h] = IF h = Loop THEN "sleep" ELSE pc[h]
      BY <1>g, <3>1 DEF Sleep, Goto, TypeOK
    <3>6. LoopOK'
      BY <1>g, <2>1, <3>1, <3>4, <3>5 DEF LoopOK, counters
    <3>7. NoSleepBehind'
      BY <1>g, <3>2, <3>5 DEF NoSleepBehind
    <3> QED BY <3>4, <3>6, <3>7
  <2>2. CASE lastSynced # requested
    <3>1. pc[Loop] = "test" /\ Goto(Loop, "sync") /\ UNCHANGED <<waiting, counters, seq>>
      BY <1>6, <2>2 DEF LoopTest
    <3>2. \A h \in Goroutines : pc'[h] = IF h = Loop THEN "sync" ELSE pc[h]
      BY <1>g, <3>1 DEF Goto, TypeOK
    <3>3. QueueOK'
      BY <1>g, <3>1, AwakeQueue
    <3> QED BY <1>g, <3>1, <3>2, <3>3 DEF LoopOK, NoSleepBehind, counters
  <2> QED BY <2>1, <2>2
<1>7. ASSUME LoopSync \/ LoopLoad \/ LoopStore PROVE SyncInv'
  <2>1. /\ pc[Loop] \in {"sync", "load", "store"} /\ UNCHANGED <<waiting, requested, seq>>
        /\ \E step \in {"load", "store", "wake"} : Goto(Loop, step)
    BY <1>7 DEF LoopSync, LoopLoad, LoopStore, counters
  <2>2. \A f \in Flushers : pc'[f] = pc[f]
    BY <1>g, <2>1 DEF Goto, TypeOK
  <2>3. QueueOK'
    BY <1>g, <2>1, AwakeQueue
  <2>4. \A f \in Flushers : pc[f] = "sleep" => seq[f] > completed
    BY <1>n, <2>1 DEF NoSleepBehind
  <2>5. CASE LoopStore
    <3>1. pc'[Loop] = "wake" /\ completed' = lastSynced /\ UNCHANGED lastSynced
      BY <1>g, <2>5 DEF LoopStore, Goto, TypeOK
    <3> QED BY <1>n, <2>1, <2>2, <2>3, <3>1 DEF LoopOK, NoSleepBehind
  <2>6. CASE LoopSync
    <3>1. pc[Loop] = "sync" /\ pc'[Loop] = "load" /\ UNCHANGED counters
      BY <1>g, <2>6 DEF LoopSync, Goto, TypeOK
    <3> QED BY <1>n, <2>1, <2>2, <2>3, <2>4, <3>1 DEF LoopOK, NoSleepBehind, counters
  <2>7. CASE LoopLoad
    <3>1. pc'[Loop] = "store" /\ lastSynced' = requested /\ UNCHANGED completed
      BY <1>g, <2>7 DEF LoopLoad, Goto, TypeOK
    <3>2. completed <= requested
      BY RequestsAssumption DEF TypeOK
    <3> QED BY <1>n, <2>1, <2>2, <2>3, <2>4, <3>1, <3>2 DEF LoopOK, NoSleepBehind
  <2> QED BY <1>7, <2>5, <2>6, <2>7
<1>8. ASSUME LoopWake PROVE SyncInv'
  <2>1. QueueOK' /\ \A g \in Goroutines : pc'[g] # "sleep"
    BY <1>8, WakeQueue
  <2>2. pc[Loop] = "wake" /\ pc'[Loop] = "lock" /\ UNCHANGED <<counters, seq>>
    BY <1>g, <1>8 DEF LoopWake, Woken
  <2> QED BY <1>g, <2>1, <2>2 DEF LoopOK, NoSleepBehind, counters
<1>9. ASSUME UNCHANGED vars PROVE SyncInv'
  BY <1>9 DEF vars, QueueOK, LoopOK, NoSleepBehind
<1> QED BY <1>g, <1>1, <1>2, <1>3, <1>4, <1>5, <1>6, <1>7, <1>8, <1>9
    DEF Next, SyncLoop, Flusher

\* walSyncLoop never sleeps past a request: while it does, a flusher is still to
\* signal, and its Signal wakes the loop and not one of those who wait, although the
\* counters are changed without the lock of the condition variable.
THEOREM WakeupKept == Spec => []NoLostWakeup
<1>1. SyncInv => NoLostWakeup
  BY DEF SyncInv, LoopOK, NoLostWakeup
<1> QED BY <1>1, InitTyped, TypeStep, InitSync, SyncStep, PTL DEF Spec

\* waitForWalSync never sleeps for a request that is completed, unless the loop is
\* about to broadcast.
THEOREM SleepersWaitRightly == Spec => []NoSleepBehind
<1>1. SyncInv => NoSleepBehind
  BY DEF SyncInv
<1> QED BY <1>1, InitTyped, TypeStep, InitSync, SyncStep, PTL DEF Spec
=============================================================================
