------------------------ MODULE Subscriptions_proofs ------------------------
(***************************************************************************)
(* The maps and the locks of the subscription server, for any connections, *)
(* keys, tokens and notifiers.                                             *)
(***************************************************************************)
EXTENDS Subscriptions, TLAPS

\* NonEmpty drops the entries with an empty set and keeps the others.
LEMMA NonEmptyKeeps ==
    ASSUME NEW f
    PROVE  /\ DOMAIN NonEmpty(f) = {x \in DOMAIN f : f[x] # {}}
           /\ \A x \in DOMAIN NonEmpty(f) : NonEmpty(f)[x] = f[x] /\ f[x] # {}
BY DEF NonEmpty

\* The three operators on the two maps, seen through SubsOf and KeysOf.
LEMMA ForgetMaps ==
    ASSUME TypeOK, MapsAgree, NEW c \in Conns \cup {NoConn}, Forget(c)
    PROVE  /\ \A k \in Keys : SubsOf(k)' = SubsOf(k) \ {c}
           /\ \A d \in Conns : KeysOf(d)' = IF d = c THEN {} ELSE KeysOf(d)
           /\ DOMAIN activeSubs' \subseteq DOMAIN activeSubs
           /\ DOMAIN connToKeys' \subseteq DOMAIN connToKeys
           /\ \A k \in DOMAIN activeSubs' : activeSubs'[k] # {}
           /\ \A d \in DOMAIN connToKeys' : connToKeys'[d] # {}
<1> DEFINE f == [k \in DOMAIN activeSubs |->
                    IF k \in KeysOf(c) THEN activeSubs[k] \ {c} ELSE activeSubs[k]]
<1>1. activeSubs' = NonEmpty(f)
  BY DEF Forget
<1>2. connToKeys' = [d \in DOMAIN connToKeys \ {c} |-> connToKeys[d]]
  BY DEF Forget
<1>3. \A k \in DOMAIN f : f[k] = activeSubs[k] \ {c}
  <2> SUFFICES ASSUME NEW k \in DOMAIN f PROVE f[k] = activeSubs[k] \ {c}
    OBVIOUS
  <2>1. k \in Keys /\ SubsOf(k) = activeSubs[k] /\ activeSubs[k] \subseteq Conns
    BY DEF TypeOK, SubsOf
  <2>2. c \in activeSubs[k] => k \in KeysOf(c)
    BY <2>1 DEF MapsAgree
  <2> QED BY <2>2
<1>4. \A k \in Keys : SubsOf(k)' = SubsOf(k) \ {c}
  <2> SUFFICES ASSUME NEW k \in Keys PROVE SubsOf(k)' = SubsOf(k) \ {c}
    OBVIOUS
  <2>1. SubsOf(k)' = IF k \in DOMAIN f /\ f[k] # {} THEN f[k] ELSE {}
    BY <1>1, NonEmptyKeeps DEF SubsOf
  <2> HIDE DEF f
  <2>2. DOMAIN f = DOMAIN activeSubs
    BY DEF f
  <2> QED BY <1>3, <2>1, <2>2 DEF SubsOf
<1>5. \A d \in Conns : KeysOf(d)' = IF d = c THEN {} ELSE KeysOf(d)
  BY <1>2 DEF KeysOf
<1>6. DOMAIN f = DOMAIN activeSubs
  OBVIOUS
<1> HIDE DEF f
<1>7. /\ DOMAIN activeSubs' \subseteq DOMAIN activeSubs
      /\ \A k \in DOMAIN activeSubs' : activeSubs'[k] # {}
  BY <1>1, <1>6, NonEmptyKeeps
<1>8. /\ DOMAIN connToKeys' \subseteq DOMAIN connToKeys
      /\ \A d \in DOMAIN connToKeys' : connToKeys'[d] # {}
  BY <1>2 DEF MapsAgree
<1> QED BY <1>4, <1>5, <1>7, <1>8

\* Unsubscribe takes a key out of both maps.
LEMMA UnsubscribeMaps ==
    ASSUME TypeOK, MapsAgree, NEW k \in Keys, Unsubscribe(k)
    PROVE  /\ \A j \in Keys : SubsOf(j)' = IF j = k THEN {} ELSE SubsOf(j)
           /\ \A c \in Conns : KeysOf(c)' = KeysOf(c) \ {k}
           /\ DOMAIN activeSubs' \subseteq DOMAIN activeSubs
           /\ DOMAIN connToKeys' \subseteq DOMAIN connToKeys
           /\ \A j \in DOMAIN activeSubs' : activeSubs'[j] # {}
           /\ \A c \in DOMAIN connToKeys' : connToKeys'[c] # {}
<1> DEFINE f == [c \in DOMAIN connToKeys |->
                    IF c \in SubsOf(k) THEN connToKeys[c] \ {k} ELSE connToKeys[c]]
<1>1. activeSubs' = [j \in DOMAIN activeSubs \ {k} |-> activeSubs[j]]
  BY DEF Unsubscribe
<1>2. connToKeys' = NonEmpty(f)
  BY DEF Unsubscribe
<1>3. \A c \in DOMAIN f : f[c] = connToKeys[c] \ {k}
  <2> SUFFICES ASSUME NEW c \in DOMAIN f PROVE f[c] = connToKeys[c] \ {k}
    OBVIOUS
  <2>1. c \in Conns /\ KeysOf(c) = connToKeys[c]
    BY DEF TypeOK, KeysOf
  <2>2. k \in connToKeys[c] => c \in SubsOf(k)
    BY <2>1 DEF MapsAgree
  <2> QED BY <2>2
<1>4. \A c \in Conns : KeysOf(c)' = KeysOf(c) \ {k}
  <2> SUFFICES ASSUME NEW c \in Conns PROVE KeysOf(c)' = KeysOf(c) \ {k}
    OBVIOUS
  <2>1. KeysOf(c)' = IF c \in DOMAIN f /\ f[c] # {} THEN f[c] ELSE {}
    BY <1>2, NonEmptyKeeps DEF KeysOf
  <2> HIDE DEF f
  <2>2. DOMAIN f = DOMAIN connToKeys
    BY DEF f
  <2> QED BY <1>3, <2>1, <2>2 DEF KeysOf
<1>5. \A j \in Keys : SubsOf(j)' = IF j = k THEN {} ELSE SubsOf(j)
  BY <1>1 DEF SubsOf
<1>6. DOMAIN f = DOMAIN connToKeys
  OBVIOUS
<1> HIDE DEF f
<1>7. /\ DOMAIN connToKeys' \subseteq DOMAIN connToKeys
      /\ \A c \in DOMAIN connToKeys' : connToKeys'[c] # {}
  BY <1>2, <1>6, NonEmptyKeeps
<1>8. /\ DOMAIN activeSubs' \subseteq DOMAIN activeSubs
      /\ \A j \in DOMAIN activeSubs' : activeSubs'[j] # {}
  BY <1>1 DEF MapsAgree
<1> QED BY <1>4, <1>5, <1>7, <1>8

\* Subscribing puts them into both.
LEMMA SubscribeMaps ==
    ASSUME TypeOK, MapsAgree, NEW c \in Conns, NEW keys \in SUBSET Keys, keys # {},
           Subscribe(c, keys)
    PROVE  /\ \A k \in Keys : SubsOf(k)' = IF k \in keys THEN SubsOf(k) \cup {c} ELSE SubsOf(k)
           /\ \A d \in Conns : KeysOf(d)' = IF d = c THEN KeysOf(c) \cup keys ELSE KeysOf(d)
           /\ DOMAIN activeSubs' = DOMAIN activeSubs \cup keys
           /\ DOMAIN connToKeys' = DOMAIN connToKeys \cup {c}
           /\ \A k \in DOMAIN activeSubs' : activeSubs'[k] # {}
           /\ \A d \in DOMAIN connToKeys' : connToKeys'[d] # {}
<1> DEFINE added == keys \ KeysOf(c)
<1>1. activeSubs' = [k \in DOMAIN activeSubs \cup keys |->
                        IF k \in added THEN SubsOf(k) \cup {c} ELSE SubsOf(k)]
  BY DEF Subscribe
<1>2. connToKeys' = [d \in DOMAIN connToKeys \cup {c} |->
                        IF d = c THEN KeysOf(c) \cup added ELSE connToKeys[d]]
  BY DEF Subscribe
<1>3. \A k \in keys \ added : c \in SubsOf(k)
  BY DEF MapsAgree
<1>4. \A k \in Keys : SubsOf(k)' = IF k \in keys THEN SubsOf(k) \cup {c} ELSE SubsOf(k)
  BY <1>1, <1>3 DEF SubsOf
<1>5. \A d \in Conns : KeysOf(d)' = IF d = c THEN KeysOf(c) \cup keys ELSE KeysOf(d)
  BY <1>2 DEF KeysOf
<1>6. \A k \in DOMAIN activeSubs' : activeSubs'[k] # {}
  <2> SUFFICES ASSUME NEW k \in DOMAIN activeSubs \cup keys PROVE activeSubs'[k] # {}
    BY <1>1
  <2>1. CASE k \in keys
    BY <1>1, <1>3, <2>1
  <2>2. CASE k \notin keys
    BY <1>1, <2>2 DEF SubsOf, MapsAgree
  <2> QED BY <2>1, <2>2
<1>7. \A d \in DOMAIN connToKeys' : connToKeys'[d] # {}
  <2>1. KeysOf(c) \cup added = KeysOf(c) \cup keys
    OBVIOUS
  <2> QED BY <1>2, <2>1 DEF MapsAgree
<1> QED BY <1>1, <1>2, <1>4, <1>5, <1>6, <1>7

-----------------------------------------------------------------------------
(* Types, and maps that agree. *)

\* What follows from the two maps for their types.
LEMMA MapsTyped ==
    ASSUME DOMAIN activeSubs' \subseteq Keys, DOMAIN connToKeys' \subseteq Conns,
           \A k \in Keys : SubsOf(k)' \subseteq Conns,
           \A c \in Conns : KeysOf(c)' \subseteq Keys
    PROVE  /\ \A k \in DOMAIN activeSubs' : activeSubs'[k] \in SUBSET Conns
           /\ \A c \in DOMAIN connToKeys' : connToKeys'[c] \in SUBSET Keys
BY DEF SubsOf, KeysOf

\* What the maps give are sets of connections and of keys.
LEMMA SubsTyped ==
    ASSUME TypeOK
    PROVE  /\ \A k \in Keys : SubsOf(k) \subseteq Conns
           /\ \A c \in Conns : KeysOf(c) \subseteq Keys
BY DEF TypeOK, SubsOf, KeysOf

State == TypeOK /\ MapsInv

\* The start is well typed, and nobody subscribes.
LEMMA InitState == Init => State
<1> SUFFICES ASSUME Init PROVE State
  OBVIOUS
<1>1. (CHOOSE a \in AuthKeys : TRUE) \in AuthKeys
  BY TokenAssumption
<1>2. TypeOK
  BY <1>1 DEF Init, TypeOK, NoTask, NotWriting
<1>3. MapsInv
  BY DEF Init, MapsInv, MapsAgree, SubsOf, KeysOf
<1> QED BY <1>2, <1>3 DEF State

\* The steps that leave the maps and the tokens as they are.
LEMMA SameMaps ==
    ASSUME MapsInv, UNCHANGED <<pending, activeSubs, connToKeys>>
    PROVE  MapsInv'
BY DEF MapsInv, MapsAgree, SubsOf, KeysOf

\* A goroutine that has fetched a connection is well typed.
LEMMA FetchTyped ==
    ASSUME TypeOK, NEW g \in Goroutines, NEW c \in Conns, Fetch(g, c)
    PROVE  writer' \in [Goroutines -> [conn : Conns \cup {NoConn}, locked : BOOLEAN,
                                       step : {"none", "fetched", "writing", "failed"}]]
BY DEF Fetch, TypeOK

\* A connection that goes leaves both maps.
LEMMA ForgetState ==
    ASSUME State, NEW c \in Conns \cup {NoConn}, Forget(c)
    PROVE  /\ DOMAIN activeSubs' \subseteq Keys /\ DOMAIN connToKeys' \subseteq Conns
           /\ \A k \in DOMAIN activeSubs' : activeSubs'[k] \in SUBSET Conns
           /\ \A d \in DOMAIN connToKeys' : connToKeys'[d] \in SUBSET Keys
           /\ MapsAgree'
<1>1. /\ \A k \in Keys : SubsOf(k)' = SubsOf(k) \ {c}
      /\ \A d \in Conns : KeysOf(d)' = IF d = c THEN {} ELSE KeysOf(d)
      /\ DOMAIN activeSubs' \subseteq Keys /\ DOMAIN connToKeys' \subseteq Conns
      /\ \A k \in DOMAIN activeSubs' : activeSubs'[k] # {}
      /\ \A d \in DOMAIN connToKeys' : connToKeys'[d] # {}
  BY ForgetMaps DEF State, MapsInv, TypeOK
<1>2. /\ \A k \in Keys : SubsOf(k)' \subseteq Conns
      /\ \A d \in Conns : KeysOf(d)' \subseteq Keys
  BY <1>1, SubsTyped DEF State
<1>3. MapsAgree'
  BY <1>1 DEF MapsAgree, State, MapsInv
<1> QED BY <1>1, <1>2, <1>3, MapsTyped

\* Every step keeps types and maps.
LEMMA StateStep == State /\ [Next]_vars => State'
<1> SUFFICES ASSUME State, [Next]_vars PROVE State'
  OBVIOUS
<1> USE DEF State
<1>1. ASSUME NEW a \in AuthKeys, NEW keys \in (SUBSET Keys) \ {{}}, Enable(a, keys)
      PROVE  State'
  <2>1. TypeOK'
    BY <1>1 DEF Enable, TypeOK, locks
  <2>2. \A b \in DOMAIN pending' : pending'[b] # {}
    BY <1>1 DEF Enable, MapsInv
  <2>3. MapsAgree'
    BY <1>1 DEF Enable, MapsInv, MapsAgree, SubsOf, KeysOf
  <2> QED BY <2>1, <2>2, <2>3 DEF MapsInv
<1>2. ASSUME NEW a \in AuthKeys, Expire(a) PROVE State'
  <2>1. TypeOK'
    BY <1>2 DEF Expire, Consume, TypeOK, locks
  <2>2. MapsInv'
    BY <1>2 DEF Expire, Consume, MapsInv, MapsAgree, SubsOf, KeysOf
  <2> QED BY <2>1, <2>2
<1>3. ASSUME NEW c \in Conns, Connect(c) \/ Disconnect(c) PROVE State'
  BY <1>3, SameMaps DEF Connect, Disconnect, TypeOK, maps, locks
<1>4. ASSUME NEW c \in Conns, NEW a \in AuthKeys, Receive(c, a) PROVE State'
  BY <1>4, SameMaps DEF Receive, TypeOK, maps, locks
<1>5. ASSUME NEW c \in Conns, Apply(c) PROVE State'
  <2>1. CASE auth[c] \in DOMAIN pending
    <3> DEFINE keys == pending[auth[c]]
    <3>1. keys \in SUBSET Keys /\ keys # {} /\ Subscribe(c, keys) /\ Consume(auth[c])
      BY <1>5, <2>1 DEF Apply, TypeOK, MapsInv
    <3>2. /\ \A k \in Keys : SubsOf(k)' = IF k \in keys THEN SubsOf(k) \cup {c} ELSE SubsOf(k)
          /\ \A d \in Conns : KeysOf(d)' = IF d = c THEN KeysOf(c) \cup keys ELSE KeysOf(d)
          /\ DOMAIN activeSubs' = DOMAIN activeSubs \cup keys
          /\ DOMAIN connToKeys' = DOMAIN connToKeys \cup {c}
          /\ \A k \in DOMAIN activeSubs' : activeSubs'[k] # {}
          /\ \A d \in DOMAIN connToKeys' : connToKeys'[d] # {}
      <4> HIDE DEF keys
      <4> QED BY <3>1, SubscribeMaps DEF MapsInv
    <3>3. /\ \A k \in Keys : SubsOf(k)' \subseteq Conns
          /\ \A d \in Conns : KeysOf(d)' \subseteq Keys
      BY <3>1, <3>2, SubsTyped
    <3>4. TypeOK'
      <4>1. DOMAIN activeSubs' \subseteq Keys /\ DOMAIN connToKeys' \subseteq Conns
        BY <3>1, <3>2 DEF TypeOK
      <4> QED BY <1>5, <3>1, <3>3, <4>1, MapsTyped DEF Apply, Consume, TypeOK, locks
    <3>5. MapsInv'
      BY <3>1, <3>2 DEF Consume, MapsInv, MapsAgree
    <3> QED BY <3>4, <3>5
  <2>2. CASE auth[c] \notin DOMAIN pending
    BY <1>5, <2>2, SameMaps DEF Apply, TypeOK, locks
  <2> QED BY <2>1, <2>2
<1>6. ASSUME NEW c \in Conns, Reply(c) \/ Replied(c) PROVE State'
  <2>1. CASE Reply(c)
    BY <2>1, SameMaps, FetchTyped DEF Reply, TypeOK, maps, locks, Goroutines
  <2>2. CASE Replied(c)
    BY <2>2, SameMaps DEF Replied, TypeOK, maps, locks, Goroutines
  <2> QED BY <1>6, <2>1, <2>2
<1>7. ASSUME NEW c \in Conns, Leave(c) PROVE State'
  <2>1. /\ DOMAIN activeSubs' \subseteq Keys /\ DOMAIN connToKeys' \subseteq Conns
        /\ \A k \in DOMAIN activeSubs' : activeSubs'[k] \in SUBSET Conns
        /\ \A d \in DOMAIN connToKeys' : connToKeys'[d] \in SUBSET Keys
        /\ MapsAgree'
    BY <1>7, ForgetState DEF Leave
  <2>2. connLocks' = connLocks \ {c}
    BY <1>7 DEF Leave, Forget
  <2> QED BY <1>7, <2>1, <2>2 DEF Leave, TypeOK, MapsInv
<1>8. ASSUME NEW g \in Goroutines, WriteBegin(g) \/ WriteEnd(g) PROVE State'
  <2>1. holder' \in [Conns -> SUBSET Goroutines]
    BY <1>8 DEF WriteBegin, WriteEnd, TypeOK
  <2>2. writer' \in [Goroutines -> [conn : Conns \cup {NoConn}, locked : BOOLEAN,
                                    step : {"none", "fetched", "writing", "failed"}]]
    <3>1. writer' \in {[writer EXCEPT ![g].step = "writing"],
                      [writer EXCEPT ![g] = NotWriting],
                      [writer EXCEPT ![g] = [writer[g] EXCEPT !.step = "failed"]]}
      BY <1>8 DEF WriteBegin, WriteEnd
    <3>2. /\ NotWriting \in [conn : Conns \cup {NoConn}, locked : BOOLEAN,
                             step : {"none", "fetched", "writing", "failed"}]
          /\ [writer[g] EXCEPT !.step = "failed"] \in
                [conn : Conns \cup {NoConn}, locked : BOOLEAN,
                 step : {"none", "fetched", "writing", "failed"}]
      BY DEF TypeOK, NotWriting
    <3>3. [writer EXCEPT ![g].step = "writing"] \in
             [Goroutines -> [conn : Conns \cup {NoConn}, locked : BOOLEAN,
                             step : {"none", "fetched", "writing", "failed"}]]
      BY DEF TypeOK
    <3> QED BY <3>1, <3>2, <3>3 DEF TypeOK
  <2> QED BY <1>8, <2>1, <2>2, SameMaps DEF WriteBegin, WriteEnd, TypeOK, maps
<1>9. ASSUME NEW n \in Notifiers, NEW k \in Keys, NotifyUpdate(n, k) PROVE State'
  BY <1>9, SameMaps, SubsTyped DEF NotifyUpdate, Sending, TypeOK, maps, locks
<1>10. ASSUME NEW n \in Notifiers, NEW k \in Keys, NotifyRemove(n, k) PROVE State'
  <2>1. /\ \A j \in Keys : SubsOf(j)' = IF j = k THEN {} ELSE SubsOf(j)
        /\ \A c \in Conns : KeysOf(c)' = KeysOf(c) \ {k}
        /\ DOMAIN activeSubs' \subseteq Keys /\ DOMAIN connToKeys' \subseteq Conns
        /\ \A j \in DOMAIN activeSubs' : activeSubs'[j] # {}
        /\ \A c \in DOMAIN connToKeys' : connToKeys'[c] # {}
    BY <1>10, UnsubscribeMaps DEF NotifyRemove, TypeOK, MapsInv
  <2>2. /\ \A j \in Keys : SubsOf(j)' \subseteq Conns
        /\ \A d \in Conns : KeysOf(d)' \subseteq Keys
    BY <2>1, SubsTyped
  <2>3. TypeOK'
    BY <1>10, <2>1, <2>2, MapsTyped, SubsTyped
    DEF NotifyRemove, Sending, TypeOK, locks
  <2>4. MapsInv'
    BY <1>10, <2>1 DEF NotifyRemove, MapsInv, MapsAgree
  <2> QED BY <2>3, <2>4
<1>11. ASSUME NEW n \in Notifiers, NEW c \in Conns, SendTo(n, c) PROVE State'
  <2>1. task' \in [Notifiers -> [step : {"idle", "send"}, key : Keys \cup {NoKey},
                                 conns : SUBSET Conns]]
    BY <1>11 DEF SendTo, TypeOK
  <2>2. writer' \in [Goroutines -> [conn : Conns \cup {NoConn}, locked : BOOLEAN,
                                    step : {"none", "fetched", "writing", "failed"}]]
    BY <1>11, FetchTyped DEF SendTo, Goroutines
  <2> QED BY <1>11, <2>1, <2>2, SameMaps DEF SendTo, TypeOK, maps, locks
<1>12. ASSUME NEW n \in Notifiers, CleanUp(n) PROVE State'
  <2> DEFINE c == writer[n].conn
  <2>1. c \in Conns \cup {NoConn} /\ Forget(c)
    BY <1>12 DEF CleanUp, TypeOK, Goroutines
  <2>2. /\ DOMAIN activeSubs' \subseteq Keys /\ DOMAIN connToKeys' \subseteq Conns
        /\ \A k \in DOMAIN activeSubs' : activeSubs'[k] \in SUBSET Conns
        /\ \A d \in DOMAIN connToKeys' : connToKeys'[d] \in SUBSET Keys
        /\ MapsAgree'
    BY <2>1, ForgetState
  <2>3. connLocks' \subseteq connLocks
    BY <2>1 DEF Forget
  <2> QED BY <1>12, <2>2, <2>3 DEF CleanUp, TypeOK, MapsInv, NotWriting
<1>13. ASSUME NEW n \in Notifiers, Sent(n) PROVE State'
  BY <1>13, SameMaps DEF Sent, TypeOK, NoTask, maps, locks
<1>14. ASSUME UNCHANGED vars PROVE State'
  BY <1>14, SameMaps DEF vars, TypeOK
<1> QED BY <1>1, <1>2, <1>3, <1>4, <1>5, <1>6, <1>7, <1>8, <1>9, <1>10, <1>11, <1>12,
           <1>13, <1>14 DEF Next, Handle, Notify

\* For any connections, keys, tokens and notifiers every reachable state is well
\* typed: a lock in connLocks is that of a connection whose handler runs.
THEOREM Typing == Spec => []TypeOK
<1>1. State => TypeOK
  BY DEF State
<1> QED BY <1>1, InitState, StateStep, PTL DEF Spec

\* The two maps are the reverse of each other at every step, through subscriptions,
\* disabled keys, and clean-ups that run twice for a connection.
THEOREM Reverse == Spec => []MapsAgree
<1>1. State => MapsAgree
  BY DEF State, MapsInv
<1> QED BY <1>1, InitState, StateStep, PTL DEF Spec

-----------------------------------------------------------------------------
(* The locks of the connections. *)

\* At the start no lock is held or listed.
LEMMA InitLocks == Init => LocksInv
BY SentinelAssumption
   DEF Init, LocksInv, Fresh, LocksHeld, NotWriting, NoTask, KeysOf

\* The steps that begin and end no write and list no lock.
LEMMA SameLocks ==
    ASSUME LocksHeld, UNCHANGED <<writer, holder>>, connLocks' \subseteq connLocks
    PROVE  LocksHeld'
BY DEF LocksHeld

\* The steps after which nothing points at a connection that has yet to come,
\* but for what is said of goroutine g.
LEMMA SameFresh ==
    ASSUME Fresh,
           \A c \in Conns : socket'[c] = "none" =>
              /\ socket[c] = "none"
              /\ handler'[c] = handler[c] /\ KeysOf(c)' \subseteq KeysOf(c)
              /\ \A n \in Notifiers : task'[n].conns \subseteq task[n].conns \cup {NoConn}
              /\ \A g \in Goroutines : writer'[g].conn \in {writer[g].conn, NoConn}
    PROVE  Fresh'
BY SentinelAssumption DEF Fresh

\* getConnLock by g, for a connection that is open or was.
LEMMA FetchLocks ==
    ASSUME TypeOK, LocksInv, NEW g \in Goroutines, NEW c \in Conns, Fetch(g, c),
           socket[c] # "none", UNCHANGED <<connLocks, holder>>
    PROVE  /\ LocksHeld'
           /\ \A d \in Conns : socket[d] = "none" =>
                 \A h \in Goroutines : writer'[h].conn # d
<1>1. writer' = [writer EXCEPT ![g] =
                    [conn |-> c, step |-> "fetched", locked |-> c \in connLocks]]
  BY DEF Fetch
<1>2. writer'[g] = [conn |-> c, step |-> "fetched", locked |-> c \in connLocks]
  BY <1>1 DEF TypeOK
<1>3. \A h \in Goroutines : h # g => writer'[h] = writer[h]
  BY <1>1 DEF TypeOK
<1>4. /\ writer'[g].conn = c /\ writer'[g].step = "fetched"
      /\ c \in connLocks => writer'[g].locked
  <2>1. writer'[g].conn = c /\ writer'[g].step = "fetched"
    BY <1>2
  <2>2. CASE c \in connLocks
    <3>1. (c \in connLocks) = TRUE
      BY <2>2
    <3>2. writer'[g] = [conn |-> c, step |-> "fetched", locked |-> TRUE]
      BY <1>2, <3>1, Zenon
    <3> QED BY <2>1, <3>2
  <2> QED BY <2>1, <2>2
<1>5. ASSUME NEW h \in Goroutines
      PROVE  /\ writer'[h].step \in {"fetched", "writing"} =>
                   /\ writer'[h].conn \in Conns
                   /\ writer'[h].conn \in connLocks' => writer'[h].locked
             /\ writer'[h].step = "writing" /\ writer'[h].locked =>
                   holder'[writer'[h].conn] = {h}
  <2>1. CASE h = g
    BY <1>4, <2>1
  <2>2. CASE h # g
    BY <1>3, <2>2 DEF LocksHeld, LocksInv
  <2> QED BY <2>1, <2>2
<1> QED BY <1>3, <1>4, <1>5 DEF LocksInv, LocksHeld, Fresh

\* A write begins with the lock of its connection,
LEMMA WriteBeginLocks ==
    ASSUME TypeOK, LocksInv, NEW g \in Goroutines, WriteBegin(g)
    PROVE  LocksHeld'
<1> DEFINE w == writer[g]
<1>1. /\ w.step = "fetched" /\ w.conn \in Conns
      /\ w.locked => holder[w.conn] = {}
      /\ holder' = IF w.locked THEN [holder EXCEPT ![w.conn] = {g}] ELSE holder
      /\ UNCHANGED connLocks
  BY DEF WriteBegin, LocksInv, LocksHeld
<1>2. /\ writer'[g].conn = w.conn /\ writer'[g].locked = w.locked
      /\ writer'[g].step = "writing"
      /\ \A h \in Goroutines : h # g => writer'[h] = writer[h]
  BY DEF WriteBegin, TypeOK
<1>3. \A d \in Conns : holder'[d] = IF w.locked /\ d = w.conn THEN {g} ELSE holder[d]
  BY <1>1 DEF TypeOK
<1>4. ASSUME NEW h \in Goroutines
      PROVE  /\ writer'[h].step \in {"fetched", "writing"} =>
                   /\ writer'[h].conn \in Conns
                   /\ writer'[h].conn \in connLocks' => writer'[h].locked
             /\ writer'[h].step = "writing" /\ writer'[h].locked =>
                   holder'[writer'[h].conn] = {h}
  <2>1. CASE h = g
    BY <1>1, <1>2, <1>3, <2>1 DEF LocksInv, LocksHeld
  <2>2. CASE h # g
    <3>1. writer'[h] = writer[h]
      BY <1>2, <2>2
    <3>2. writer[h].step = "writing" /\ writer[h].locked =>
             writer[h].conn \in Conns /\ holder[writer[h].conn] = {h}
      BY DEF LocksInv, LocksHeld
    <3>3. writer[h].step = "writing" /\ writer[h].locked /\ w.locked =>
             writer[h].conn # w.conn
      BY <1>1, <3>2
    <3> QED BY <1>1, <1>3, <3>1, <3>2, <3>3 DEF LocksInv, LocksHeld
  <2> QED BY <2>1, <2>2
<1> QED BY <1>4 DEF LocksHeld

\* and ends by giving it back.
LEMMA WriteEndLocks ==
    ASSUME TypeOK, LocksInv, NEW g \in Goroutines, WriteEnd(g)
    PROVE  LocksHeld'
<1> DEFINE w == writer[g]
<1>1. /\ w.step = "writing" /\ w.conn \in Conns
      /\ holder' = IF w.locked THEN [holder EXCEPT ![w.conn] = {}] ELSE holder
      /\ UNCHANGED connLocks
  BY DEF WriteEnd, LocksInv, LocksHeld
<1>2. /\ writer'[g].step \in {"none", "failed"}
      /\ \A h \in Goroutines : h # g => writer'[h] = writer[h]
  BY DEF WriteEnd, TypeOK, NotWriting
<1>3. \A d \in Conns : holder'[d] = IF w.locked /\ d = w.conn THEN {} ELSE holder[d]
  BY <1>1 DEF TypeOK
<1>4. w.locked => holder[w.conn] = {g}
  BY <1>1 DEF LocksInv, LocksHeld
<1>5. ASSUME NEW h \in Goroutines
      PROVE  /\ writer'[h].step \in {"fetched", "writing"} =>
                   /\ writer'[h].conn \in Conns
                   /\ writer'[h].conn \in connLocks' => writer'[h].locked
             /\ writer'[h].step = "writing" /\ writer'[h].locked =>
                   holder'[writer'[h].conn] = {h}
  <2>1. CASE h = g
    BY <1>2, <2>1
  <2>2. CASE h # g
    <3>1. writer'[h] = writer[h]
      BY <1>2, <2>2
    <3>2. writer[h].step = "writing" /\ writer[h].locked =>
             writer[h].conn \in Conns /\ holder[writer[h].conn] = {h}
      BY DEF LocksInv, LocksHeld
    <3>3. writer[h].step = "writing" /\ writer[h].locked /\ w.locked =>
             writer[h].conn # w.conn
      BY <1>4, <2>2, <3>2
    <3> QED BY <1>1, <1>3, <3>1, <3>2, <3>3 DEF LocksInv, LocksHeld
  <2> QED BY <2>1, <2>2
<1> QED BY <1>5 DEF LocksHeld

\* A connection that subscribes to something has been accepted.
LEMMA SubscribersOpened ==
    ASSUME State, LocksInv, NEW k \in Keys
    PROVE  \A c \in SubsOf(k) : c \in Conns /\ socket[c] # "none"
BY SubsTyped DEF State, MapsInv, MapsAgree, LocksInv, Fresh

\* Every step keeps one holder of each lock.
LEMMA LocksStep == State /\ LocksInv /\ [Next]_vars => LocksInv'
<1> SUFFICES ASSUME State, LocksInv, [Next]_vars PROVE LocksInv'
  OBVIOUS
<1>t. TypeOK /\ MapsAgree
  BY DEF State, MapsInv
<1>1. ASSUME NEW a \in AuthKeys, NEW keys \in (SUBSET Keys) \ {{}},
             Enable(a, keys)
      PROVE  LocksInv'
  BY <1>1, SameLocks, SameFresh DEF Enable, LocksInv, locks, KeysOf
<1>2. ASSUME NEW c \in Conns, Connect(c) PROVE LocksInv'
  <2>1. socket[c] = "none" /\ connLocks' = connLocks \cup {c} /\ UNCHANGED <<writer, holder>>
    BY <1>2 DEF Connect
  <2>2. \A g \in Goroutines : writer[g].conn # c
    BY <2>1 DEF LocksInv, Fresh
  <2>3. LocksHeld'
    BY <2>1, <2>2 DEF LocksInv, LocksHeld
  <2>4. \A d \in Conns : socket'[d] = "none" => d # c /\ socket[d] = "none"
    BY <1>2, <1>t DEF Connect, TypeOK
  <2>5. \A d \in Conns : d # c => handler'[d] = handler[d]
    BY <1>2, <1>t DEF Connect, TypeOK
  <2>6. Fresh'
    BY <1>2, <2>4, <2>5, SameFresh DEF Connect, LocksInv, KeysOf, maps
  <2> QED BY <2>3, <2>6 DEF LocksInv
<1>3. ASSUME NEW c \in Conns, Disconnect(c) PROVE LocksInv'
  <2>1. \A d \in Conns : socket'[d] = "none" => socket[d] = "none"
    BY <1>3, <1>t DEF Disconnect, TypeOK
  <2> QED BY <1>3, <2>1, SameLocks, SameFresh DEF Disconnect, LocksInv, KeysOf, maps, locks
<1>4. ASSUME NEW c \in Conns, NEW a \in AuthKeys, Receive(c, a) PROVE LocksInv'
  <2>1. \A d \in Conns : socket'[d] = "none" => handler'[d] = handler[d]
    BY <1>4, <1>t DEF Receive, TypeOK
  <2> QED BY <1>4, <2>1, SameLocks, SameFresh DEF Receive, LocksInv, KeysOf, maps, locks
<1>5. ASSUME NEW c \in Conns, handler[c] # "none" PROVE socket[c] # "none"
  BY <1>5 DEF LocksInv, Fresh
<1>6. ASSUME NEW c \in Conns, Apply(c) PROVE LocksInv'
  <2>1. socket[c] # "none" /\ UNCHANGED <<socket, writer, task, locks>>
        /\ \A d \in Conns : d # c => handler'[d] = handler[d]
    BY <1>5, <1>6, <1>t DEF Apply, TypeOK
  <2>2. \A d \in Conns : d # c => KeysOf(d)' = KeysOf(d)
    BY <1>6 DEF Apply, Subscribe, KeysOf
  <2> QED BY <2>1, <2>2, SameLocks, SameFresh DEF LocksInv, locks
<1>7. ASSUME NEW c \in Conns, Reply(c) PROVE LocksInv'
  <2>1. /\ socket[c] # "none" /\ Fetch(c, c) /\ c \in Goroutines
        /\ UNCHANGED <<maps, locks, socket, task>>
    BY <1>5, <1>7 DEF Reply, Goroutines
  <2>2. LocksHeld' /\ \A d \in Conns : socket[d] = "none" =>
                         \A h \in Goroutines : writer'[h].conn # d
    BY <1>t, <2>1, FetchLocks DEF locks
  <2>3. \A d \in Conns : d # c => handler'[d] = handler[d]
    BY <1>7, <1>t DEF Reply, TypeOK
  <2>4. Fresh'
    BY <2>1, <2>2, <2>3 DEF LocksInv, Fresh, KeysOf, maps
  <2> QED BY <2>2, <2>4 DEF LocksInv
<1>8. ASSUME NEW c \in Conns, Replied(c) PROVE LocksInv'
  <2>1. socket[c] # "none" /\ \A d \in Conns : d # c => handler'[d] = handler[d]
    BY <1>5, <1>8, <1>t DEF Replied, TypeOK
  <2> QED BY <1>8, <2>1, SameLocks, SameFresh DEF Replied, LocksInv, KeysOf, maps, locks
<1>9. ASSUME NEW c \in Conns, Leave(c) PROVE LocksInv'
  <2>1. socket[c] # "none" /\ \A d \in Conns : d # c => handler'[d] = handler[d]
    BY <1>9, <1>t DEF Leave, TypeOK
  <2>2. \A d \in Conns : KeysOf(d)' \subseteq KeysOf(d)
    BY <1>9, <1>t, ForgetMaps DEF Leave
  <2>3. connLocks' \subseteq connLocks
    BY <1>9 DEF Leave, Forget
  <2> QED BY <1>9, <2>1, <2>2, <2>3, SameLocks, SameFresh DEF Leave, LocksInv
<1>10. ASSUME NEW g \in Goroutines, WriteBegin(g) PROVE LocksInv'
  <2>1. \A h \in Goroutines : writer'[h].conn = writer[h].conn
    BY <1>10, <1>t DEF WriteBegin, TypeOK
  <2> QED BY <1>10, <1>t, <2>1, WriteBeginLocks, SameFresh
      DEF WriteBegin, LocksInv, KeysOf, maps
<1>11. ASSUME NEW g \in Goroutines, WriteEnd(g) PROVE LocksInv'
  <2>1. \A h \in Goroutines : writer'[h].conn \in {writer[h].conn, NoConn}
    <3>1. writer'[g] \in {NotWriting, [writer[g] EXCEPT !.step = "failed"]}
          /\ \A h \in Goroutines : h # g => writer'[h] = writer[h]
      BY <1>11, <1>t DEF WriteEnd, TypeOK
    <3>2. [writer[g] EXCEPT !.step = "failed"].conn = writer[g].conn
      BY <1>t DEF TypeOK
    <3>3. NotWriting.conn = NoConn
      BY DEF NotWriting
    <3>4. writer'[g].conn \in {writer[g].conn, NoConn}
      BY <3>1, <3>2, <3>3
    <3> QED BY <3>1, <3>4
  <2> QED BY <1>11, <1>t, <2>1, WriteEndLocks, SameFresh
      DEF WriteEnd, LocksInv, KeysOf, maps
<1>12. ASSUME NEW n \in Notifiers, NEW k \in Keys, NotifyUpdate(n, k) \/ NotifyRemove(n, k)
       PROVE  LocksInv'
  <2>1. /\ task' = [task EXCEPT ![n] = [step |-> "send", key |-> k, conns |-> SubsOf(k)]]
        /\ UNCHANGED <<locks, socket, handler, writer>>
    BY <1>12 DEF NotifyUpdate, NotifyRemove, Sending
  <2>2. \A c \in Conns : KeysOf(c)' \subseteq KeysOf(c)
    BY <1>12, <1>t, UnsubscribeMaps DEF NotifyUpdate, NotifyRemove, maps, KeysOf
  <2>3. \A c \in Conns : socket[c] = "none" => \A m \in Notifiers : c \notin task'[m].conns
    BY <1>t, <2>1, SubscribersOpened DEF TypeOK, LocksInv, Fresh
  <2>4. Fresh'
    BY <2>1, <2>2, <2>3 DEF LocksInv, Fresh
  <2> QED BY <2>1, <2>4, SameLocks DEF LocksInv, locks
<1>13. ASSUME NEW n \in Notifiers, NEW c \in Conns, SendTo(n, c) PROVE LocksInv'
  <2>1. /\ socket[c] # "none" /\ Fetch(n, c) /\ n \in Goroutines
        /\ UNCHANGED <<maps, locks, socket, handler>>
    BY <1>13 DEF SendTo, Goroutines, LocksInv, Fresh
  <2>2. LocksHeld' /\ \A d \in Conns : socket[d] = "none" =>
                         \A h \in Goroutines : writer'[h].conn # d
    BY <1>t, <2>1, FetchLocks DEF locks
  <2>3. \A m \in Notifiers : task'[m].conns \subseteq task[m].conns
    BY <1>13, <1>t DEF SendTo, TypeOK
  <2>4. Fresh'
    BY <2>1, <2>2, <2>3 DEF LocksInv, Fresh, KeysOf, maps
  <2> QED BY <2>2, <2>4 DEF LocksInv
<1>14. ASSUME NEW n \in Notifiers, CleanUp(n) PROVE LocksInv'
  <2> DEFINE c == writer[n].conn
  <2>1. c \in Conns \cup {NoConn} /\ n \in Goroutines /\ Forget(c)
    BY <1>14, <1>t DEF CleanUp, TypeOK, Goroutines
  <2>2. \A d \in Conns : KeysOf(d)' \subseteq KeysOf(d)
    BY <1>t, <2>1, ForgetMaps
  <2>3. /\ writer'[n] = NotWriting
        /\ \A h \in Goroutines : h # n => writer'[h] = writer[h]
    BY <1>14, <1>t, <2>1 DEF CleanUp, TypeOK
  <2>4. connLocks' \subseteq connLocks /\ UNCHANGED <<holder, handler, task>>
    BY <1>14, <2>1 DEF CleanUp, Forget
  <2>5. LocksHeld'
    BY <2>3, <2>4 DEF LocksInv, LocksHeld, NotWriting
  <2>6. \A d \in Conns : socket'[d] = "none" => socket[d] = "none"
    BY <1>14, <1>t DEF CleanUp, TypeOK
  <2>7. \A h \in Goroutines : writer'[h].conn \in {writer[h].conn, NoConn}
    BY <2>3 DEF NotWriting
  <2>8. Fresh'
    BY <2>2, <2>4, <2>6, <2>7, SameFresh DEF LocksInv
  <2> QED BY <2>5, <2>8 DEF LocksInv
<1>15. ASSUME NEW n \in Notifiers, Sent(n) PROVE LocksInv'
  <2>1. \A m \in Notifiers : task'[m].conns \subseteq task[m].conns
    BY <1>15, <1>t DEF Sent, TypeOK, NoTask
  <2> QED BY <1>15, <2>1, SameLocks, SameFresh DEF Sent, LocksInv, KeysOf, maps, locks
<1>16. ASSUME UNCHANGED vars PROVE LocksInv'
  BY <1>16, SameLocks, SameFresh DEF vars, LocksInv, KeysOf
<1>17. ASSUME NEW a \in AuthKeys, Expire(a) PROVE LocksInv'
  BY <1>17, SameLocks, SameFresh DEF Expire, LocksInv, locks, KeysOf
<1> QED BY <1>1, <1>2, <1>3, <1>4, <1>6, <1>7, <1>8, <1>9, <1>10, <1>11, <1>12, <1>13,
           <1>14, <1>15, <1>16, <1>17 DEF Next, Handle, Notify

\* While a connection has its lock in connLocks, at most one goroutine writes to it,
\* whenever each of them fetched the lock and whatever cleanupConn forgot meanwhile
\* (writeJSON, getConnLock). Once it is forgotten this is false.
THEOREM OneWriteAtATime == Spec => []SerializedWhileListed
<1>1. State /\ LocksInv => SerializedWhileListed
  <2> SUFFICES ASSUME State, LocksInv, NEW c \in connLocks, NEW g \in Writing(c),
                      NEW h \in Writing(c)
               PROVE  g = h
    BY DEF SerializedWhileListed
  <2>1. holder[c] = {g} /\ holder[c] = {h}
    BY DEF Writing, LocksInv, LocksHeld
  <2> QED BY <2>1
<1> QED BY <1>1, InitState, StateStep, InitLocks, LocksStep, PTL DEF Spec

-----------------------------------------------------------------------------
(* Connections that left. *)

Left == \A c \in Conns : handler[c] = "none" => KeysOf(c) = {}

LEMMA LeftStep == State /\ Left /\ [Next]_vars => Left'
<1> SUFFICES ASSUME State, Left, [Next]_vars PROVE Left'
  OBVIOUS
<1>1. handler \in [Conns -> {"none", "read", "apply", "reply", "replied"}]
      /\ TypeOK /\ MapsAgree
  BY DEF State, TypeOK, MapsInv
<1>2. ASSUME \A c \in Conns : handler'[c] = "none" => handler[c] = "none",
             \A c \in Conns : KeysOf(c)' \subseteq KeysOf(c)
      PROVE  Left'
  BY <1>2 DEF Left
<1>3. ASSUME connToKeys' = connToKeys PROVE \A c \in Conns : KeysOf(c)' \subseteq KeysOf(c)
  BY <1>3 DEF KeysOf
<1>4. ASSUME NEW c \in Conns, Apply(c) PROVE Left'
  <2>1. handler' = [handler EXCEPT ![c] = "reply"]
    BY <1>4 DEF Apply
  <2>2. \A d \in Conns \ {c} : KeysOf(d)' = KeysOf(d)
    BY <1>4 DEF Apply, Subscribe, KeysOf
  <2> QED BY <1>1, <2>1, <2>2 DEF Left
<1>5. ASSUME NEW c \in Conns, Leave(c) PROVE Left'
  <2>1. \A d \in Conns : KeysOf(d)' = IF d = c THEN {} ELSE KeysOf(d)
    BY <1>1, <1>5, ForgetMaps DEF Leave
  <2>2. handler' = [handler EXCEPT ![c] = "none"]
    BY <1>5 DEF Leave
  <2> QED BY <1>1, <2>1, <2>2 DEF Left
<1>6. ASSUME NEW c \in Conns, Connect(c) \/ Disconnect(c) \/ Reply(c) \/ Replied(c)
      PROVE  Left'
  BY <1>1, <1>2, <1>3, <1>6 DEF Connect, Disconnect, Reply, Replied, maps
<1>7. ASSUME NEW c \in Conns, NEW a \in AuthKeys, Receive(c, a) PROVE Left'
  BY <1>1, <1>2, <1>3, <1>7 DEF Receive, maps
<1>8. ASSUME NEW n \in Notifiers, NEW k \in Keys, NotifyRemove(n, k) PROVE Left'
  <2>1. \A c \in Conns : KeysOf(c)' = KeysOf(c) \ {k}
    BY <1>1, <1>8, UnsubscribeMaps DEF NotifyRemove
  <2> QED BY <1>2, <1>8, <2>1 DEF NotifyRemove
<1>9. ASSUME NEW n \in Notifiers, CleanUp(n) PROVE Left'
  <2> DEFINE c == writer[n].conn
  <2>1. c \in Conns \cup {NoConn} /\ Forget(c)
    BY <1>1, <1>9 DEF CleanUp, TypeOK, Goroutines
  <2> HIDE DEF c
  <2>2. \A d \in Conns : KeysOf(d)' = IF d = c THEN {} ELSE KeysOf(d)
    BY <1>1, <2>1, ForgetMaps
  <2> QED BY <1>2, <1>9, <2>2 DEF CleanUp
<1>10. ASSUME UNCHANGED <<connToKeys, handler>> PROVE Left'
  BY <1>10 DEF Left, KeysOf
<1> QED BY <1>4, <1>5, <1>6, <1>7, <1>8, <1>9, <1>10
    DEF Next, Handle, Notify, Enable, Expire, WriteBegin, WriteEnd, NotifyUpdate, SendTo,
        Sent, maps, vars

\* A connection whose handler has returned stays out of every map, whatever events,
\* messages and clean-ups were under way when it did.
THEOREM Forgotten == Spec => []LeftForgotten
<1>1. Init => Left
  BY DEF Init, Left, KeysOf
<1>2. State /\ Left => LeftForgotten
  BY DEF State, TypeOK, MapsInv, MapsAgree, Left, LeftForgotten
<1> QED BY <1>1, <1>2, InitState, StateStep, LeftStep, PTL DEF Spec

-----------------------------------------------------------------------------
(* Tokens. *)

\* A token is spent by the message that names it, and a token that was spent or has
\* expired is never accepted again, whichever connections send it: HandleWS looks it
\* up and deletes it in one critical section, and none is drawn twice.
THEOREM TokensSpent == Spec => SingleUse
<1>1. TypeOK /\ [Next]_vars =>
        [\A a \in AuthKeys :
            \/ a \in issued /\ a \notin DOMAIN pending
            \/ \E c \in Conns : handler[c] = "apply" /\ auth[c] = a
                                 /\ handler'[c] = "reply"
            => a \notin DOMAIN pending']_vars
  <2> SUFFICES ASSUME TypeOK, Next, NEW a \in AuthKeys,
                      \/ a \in issued /\ a \notin DOMAIN pending
                      \/ \E c \in Conns : handler[c] = "apply" /\ auth[c] = a
                                           /\ handler'[c] = "reply"
               PROVE  a \notin DOMAIN pending'
    BY DEF vars
  <2>1. CASE a \notin DOMAIN pending /\ a \in issued
    <3>1. ASSUME NEW b \in AuthKeys, NEW keys, Enable(b, keys)
          PROVE  a \notin DOMAIN pending'
      BY <2>1, <3>1 DEF Enable
    <3>2. ASSUME DOMAIN pending' \subseteq DOMAIN pending
          PROVE  a \notin DOMAIN pending'
      BY <2>1, <3>2
    <3>3. ASSUME NEW b, Consume(b) PROVE DOMAIN pending' \subseteq DOMAIN pending
      BY <3>3 DEF Consume
    <3>4. ASSUME NEW c \in Conns, Handle(c) PROVE DOMAIN pending' \subseteq DOMAIN pending
      BY <3>3, <3>4 DEF Handle, Apply, Reply, Replied, Leave, maps
    <3> QED BY <3>1, <3>2, <3>3, <3>4
        DEF Next, Expire, Connect, Disconnect, Receive, WriteBegin, WriteEnd,
            NotifyUpdate, NotifyRemove, Notify, SendTo, CleanUp, Sent, maps
  <2>2. ASSUME NEW c \in Conns, handler[c] = "apply", auth[c] = a, handler'[c] = "reply"
        PROVE  a \notin DOMAIN pending'
    <3>1. ASSUME NEW d \in Conns, Apply(d) PROVE d = c
      BY <2>2, <3>1 DEF Apply, TypeOK
    <3>2. \E d \in Conns : Apply(d)
      BY <2>2
      DEF Next, Enable, Expire, Connect, Disconnect, Handle, Reply, Replied, Leave, Receive,
          WriteBegin, WriteEnd, NotifyUpdate, NotifyRemove, Notify, SendTo, CleanUp, Sent,
          TypeOK
    <3> QED BY <2>2, <3>1, <3>2 DEF Apply, Consume
  <2> QED BY <2>1, <2>2
<1> QED BY <1>1, Typing, PTL DEF Spec, SingleUse
=============================================================================
