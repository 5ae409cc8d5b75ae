---------------------------- MODULE Subscriptions ----------------------------
(***************************************************************************)
(* The subscription server (servers/subscriptions): the maps under mu, the *)
(* reader goroutine of each WebSocket connection (HandleWS) and the        *)
(* goroutines that send an event to the subscribers of a key (a save, a    *)
(* free, a disable). Every write to a connection goes through writeJSON,   *)
(* which fetches the connection's lock from a map and then takes it.       *)
(*   connection  none -> read -> apply -> reply -> read ... -> none        *)
(*   notifier    idle -> send -> idle                                      *)
(*   writing     none -> fetched -> writing -> none (-> failed)            *)
(* Pings are left out: WriteControl may run beside another write.          *)
(***************************************************************************)
CONSTANTS
    Conns,      \* connections; one that was closed does not come back
    Keys,
    AuthKeys,   \* the tokens EnableSubscription draws, each once
    Notifiers,  \* goroutines that send events
    NoKey, NoConn

ASSUME SentinelAssumption == NoKey \notin Keys /\ NoConn \notin Conns
ASSUME TokenAssumption == AuthKeys # {}

VARIABLES
    issued,      \* tokens drawn so far
    pending,     \* pendingAuthKeys: token -> keys
    activeSubs,  \* key -> set of connections
    connToKeys,  \* connection -> set of keys
    connLocks,   \* connections with an entry in connLocks
    socket,      \* per connection: "none", "open" or "closed"
    handler,     \* per connection: the step of HandleWS
    auth,        \* per connection: the token in the message being handled
    task,        \* per notifier: its step, key and the connections left to send to
    writer,      \* per goroutine: [conn, step, locked] of the write it is in
    holder       \* per connection: the goroutine that holds its lock, or none

vars == <<issued, pending, activeSubs, connToKeys, connLocks, socket, handler,
          auth, task, writer, holder>>

maps  == <<issued, pending, activeSubs, connToKeys>>
locks == <<connLocks, holder>>

\* Goroutines that write: a connection's own handler, and the notifiers.
Goroutines == Conns \cup Notifiers
NotWriting == [conn |-> NoConn, step |-> "none", locked |-> FALSE]
NoTask == [step |-> "idle", key |-> NoKey, conns |-> {}]

Init ==
    /\ issued = {}
    /\ pending = [a \in {} |-> {}]
    /\ activeSubs = [k \in {} |-> {}]
    /\ connToKeys = [c \in {} |-> {}]
    /\ connLocks = {}
    /\ socket = [c \in Conns |-> "none"]
    /\ handler = [c \in Conns |-> "none"]
    /\ auth = [c \in Conns |-> CHOOSE a \in AuthKeys : TRUE]
    /\ task = [n \in Notifiers |-> NoTask]
    /\ writer = [g \in Goroutines |-> NotWriting]
    /\ holder = [c \in Conns |-> {}]

-----------------------------------------------------------------------------
(* The maps. *)

SubsOf(k) == IF k \in DOMAIN activeSubs THEN activeSubs[k] ELSE {}
KeysOf(c) == IF c \in DOMAIN connToKeys THEN connToKeys[c] ELSE {}

\* A map without its empty sets: the code deletes an entry that becomes empty.
NonEmpty(f) == [x \in {y \in DOMAIN f : f[y] # {}} |-> f[x]]

\* Variant: the lock of the connection stays.
ForgetKeepsLock(c) ==
    /\ activeSubs' = NonEmpty([k \in DOMAIN activeSubs |->
                        IF k \in KeysOf(c) THEN activeSubs[k] \ {c}
                        ELSE activeSubs[k]])
    /\ connToKeys' = [d \in DOMAIN connToKeys \ {c} |-> connToKeys[d]]
    /\ UNCHANGED connLocks

\* Variant: only the lock goes.
ForgetKeepsKeys(c) ==
    /\ UNCHANGED <<activeSubs, connToKeys>>
    /\ connLocks' = connLocks \ {c}

\* cleanupConn under mu: the connection leaves every map.
Forget(c) ==
    /\ activeSubs' = NonEmpty([k \in DOMAIN activeSubs |->
                        IF k \in KeysOf(c) THEN activeSubs[k] \ {c}
                        ELSE activeSubs[k]])
    /\ connToKeys' = [d \in DOMAIN connToKeys \ {c} |-> connToKeys[d]]
    /\ connLocks' = connLocks \ {c}

\* Variant: the reverse map keeps the key.
UnsubscribeOneWay(k) ==
    /\ activeSubs' = [j \in DOMAIN activeSubs \ {k} |-> activeSubs[j]]
    /\ UNCHANGED connToKeys

\* Disable and delete: the key leaves every map.
Unsubscribe(k) ==
    /\ activeSubs' = [j \in DOMAIN activeSubs \ {k} |-> activeSubs[j]]
    /\ connToKeys' = NonEmpty([c \in DOMAIN connToKeys |->
                        IF c \in SubsOf(k) THEN connToKeys[c] \ {k}
                        ELSE connToKeys[c]])

\* HandleWS: the keys of a token are added for the connection.
Subscribe(c, keys) ==
    LET added == keys \ KeysOf(c)
    IN  /\ activeSubs' = [k \in DOMAIN activeSubs \cup keys |->
                            IF k \in added THEN SubsOf(k) \cup {c} ELSE SubsOf(k)]
        /\ connToKeys' = [d \in DOMAIN connToKeys \cup {c} |->
                            IF d = c THEN KeysOf(c) \cup added ELSE connToKeys[d]]

-----------------------------------------------------------------------------
(* Tokens. *)

\* HandleEnableSubscription, EnableSubscriptionInternal: a fresh uuid.
Enable(a, keys) ==
    /\ a \notin issued
    /\ issued' = issued \cup {a}
    /\ pending' = [b \in DOMAIN pending \cup {a} |->
                      IF b = a THEN keys ELSE pending[b]]
    /\ UNCHANGED <<activeSubs, connToKeys, locks, socket, handler, auth, task, writer>>

\* Variant: the token stays pending.
ConsumeNothing(a) == UNCHANGED pending
Consume(a) == pending' = [b \in DOMAIN pending \ {a} |-> pending[b]]

\* The timer of a token: by the time it fires the token has expired.
Expire(a) ==
    /\ a \in DOMAIN pending
    /\ Consume(a)
    /\ UNCHANGED <<issued, activeSubs, connToKeys, locks, socket, handler, auth,
                   task, writer>>

-----------------------------------------------------------------------------
(* writeJSON by goroutine g to connection c. *)

\* Variant: the write goes ahead without a lock.
FetchNone(g, c) ==
    writer' = [writer EXCEPT ![g] = [conn |-> c, step |-> "fetched", locked |-> FALSE]]

\* getConnLock: nil when the connection has no entry any more.
Fetch(g, c) ==
    writer' = [writer EXCEPT ![g] =
                  [conn |-> c, step |-> "fetched", locked |-> c \in connLocks]]

\* lock.Lock(), unless there is no lock to take, and the write begins.
WriteBegin(g) ==
    LET w == writer[g]
    IN  /\ w.step = "fetched"
        /\ w.locked => holder[w.conn] = {}
        /\ holder' = IF w.locked THEN [holder EXCEPT ![w.conn] = {g}] ELSE holder
        /\ writer' = [writer EXCEPT ![g].step = "writing"]
        /\ UNCHANGED <<maps, connLocks, socket, handler, auth, task>>

\* The write returns, at the latest after its deadline of 10 seconds. A closed
\* connection gives an error, an open one may.
WriteEnd(g) ==
    LET w == writer[g]
    IN  /\ w.step = "writing"
        /\ holder' = IF w.locked THEN [holder EXCEPT ![w.conn] = {}] ELSE holder
        /\ \/ /\ socket[w.conn] = "open"
              /\ writer' = [writer EXCEPT ![g] = NotWriting]
           \/ writer' = [writer EXCEPT ![g] = IF g \in Conns THEN NotWriting
                                              ELSE [w EXCEPT !.step = "failed"]]
        /\ UNCHANGED <<maps, connLocks, socket, handler, auth, task>>

-----------------------------------------------------------------------------
(* HandleWS for connection c. *)

Connect(c) ==
    /\ handler[c] = "none" /\ socket[c] = "none"
    /\ socket' = [socket EXCEPT ![c] = "open"]
    /\ handler' = [handler EXCEPT ![c] = "read"]
    /\ connLocks' = connLocks \cup {c}
    /\ UNCHANGED <<maps, holder, auth, task, writer>>

\* The client goes away, or the connection breaks.
Disconnect(c) ==
    /\ socket[c] = "open"
    /\ socket' = [socket EXCEPT ![c] = "closed"]
    /\ UNCHANGED <<maps, locks, handler, auth, task, writer>>

\* A message {"auth_key": a} is read.
Receive(c, a) ==
    /\ handler[c] = "read" /\ socket[c] = "open"
    /\ handler' = [handler EXCEPT ![c] = "apply"]
    /\ auth' = [auth EXCEPT ![c] = a]
    /\ UNCHANGED <<maps, locks, socket, task, writer>>

\* Under mu: the token is consumed, the connection is subscribed. Then the answer,
\* "subscribed" or "invalid_or_expired_auth_key", is written.
Apply(c) ==
    /\ handler[c] = "apply"
    /\ IF auth[c] \in DOMAIN pending
       THEN Subscribe(c, pending[auth[c]]) /\ Consume(auth[c])
       ELSE UNCHANGED <<pending, activeSubs, connToKeys>>
    /\ handler' = [handler EXCEPT ![c] = "reply"]
    /\ UNCHANGED <<issued, locks, socket, auth, task, writer>>

Reply(c) ==
    /\ handler[c] = "reply" /\ writer[c].step = "none"
    /\ Fetch(c, c)
    /\ handler' = [handler EXCEPT ![c] = "replied"]
    /\ UNCHANGED <<maps, locks, socket, auth, task>>

Replied(c) ==
    /\ handler[c] = "replied" /\ writer[c].step = "none"
    /\ handler' = [handler EXCEPT ![c] = "read"]
    /\ UNCHANGED <<maps, locks, socket, auth, task, writer>>

\* ReadMessage fails, the deferred cleanupConn runs.
Leave(c) ==
    /\ handler[c] = "read" /\ socket[c] = "closed"
    /\ Forget(c)
    /\ handler' = [handler EXCEPT ![c] = "none"]
    /\ UNCHANGED <<issued, pending, holder, socket, auth, task, writer>>

-----------------------------------------------------------------------------
(* The events. *)

Sending(n, k, conns) ==
    task' = [task EXCEPT ![n] = [step |-> "send", key |-> k, conns |-> conns]]

\* NotifySubscribers, NotifyIncTableSubscribers: snapshotSubscribers.
NotifyUpdate(n, k) ==
    /\ task[n].step = "idle" /\ SubsOf(k) # {}
    /\ Sending(n, k, SubsOf(k))
    /\ UNCHANGED <<maps, locks, socket, handler, auth, writer>>

\* NotifyDeleteAndRemove, HandleDisableSubscription, DisableSubscriptionInternal:
\* the subscribers are snapshot and the key is removed in one critical section.
NotifyRemove(n, k) ==
    /\ task[n].step = "idle" /\ SubsOf(k) # {}
    /\ Sending(n, k, SubsOf(k))
    /\ Unsubscribe(k)
    /\ UNCHANGED <<issued, pending, locks, socket, handler, auth, writer>>

\* The next connection of the snapshot, in the order of a Go map.
SendTo(n, c) ==
    /\ task[n].step = "send" /\ c \in task[n].conns
    /\ writer[n].step = "none"
    /\ Fetch(n, c)
    /\ task' = [task EXCEPT ![n].conns = @ \ {c}]
    /\ UNCHANGED <<maps, locks, socket, handler, auth>>

\* "notify write failed -> cleanup"
CleanUp(n) ==
    LET c == writer[n].conn
    IN  /\ writer[n].step = "failed"
        /\ Forget(c)
        /\ socket' = [socket EXCEPT ![c] = "closed"]
        /\ writer' = [writer EXCEPT ![n] = NotWriting]
        /\ UNCHANGED <<issued, pending, holder, handler, auth, task>>

Sent(n) ==
    /\ task[n].step = "send" /\ task[n].conns = {} /\ writer[n].step = "none"
    /\ task' = [task EXCEPT ![n] = NoTask]
    /\ UNCHANGED <<maps, locks, socket, handler, auth, writer>>

-----------------------------------------------------------------------------
Handle(c) == Apply(c) \/ Reply(c) \/ Replied(c) \/ Leave(c)

Notify(n) == (\E c \in Conns : SendTo(n, c)) \/ CleanUp(n) \/ Sent(n)

Next ==
    \/ \E a \in AuthKeys, keys \in (SUBSET Keys) \ {{}} : Enable(a, keys)
    \/ \E a \in AuthKeys : Expire(a)
    \/ \E c \in Conns : \/ Connect(c) \/ Disconnect(c) \/ Handle(c)
                        \/ \E a \in AuthKeys : Receive(c, a)
    \/ \E g \in Goroutines : WriteBegin(g) \/ WriteEnd(g)
    \/ \E n \in Notifiers, k \in Keys : NotifyUpdate(n, k) \/ NotifyRemove(n, k)
    \/ \E n \in Notifiers : Notify(n)

Spec == Init /\ [][Next]_vars

\* A goroutine that can run does. sync.Mutex hands a lock over after a
\* millisecond of starvation, so whoever waits for one gets it.
Fairness ==
    /\ \A c \in Conns : WF_vars(Handle(c))
    /\ \A n \in Notifiers : WF_vars(Notify(n))
    /\ \A g \in Goroutines : SF_vars(WriteBegin(g)) /\ WF_vars(WriteEnd(g))

FairSpec == Spec /\ Fairness

-----------------------------------------------------------------------------
(* Properties. *)

\* Types of the state.
TypeOK ==
    /\ issued \subseteq AuthKeys
    /\ DOMAIN pending \subseteq issued
    /\ \A a \in DOMAIN pending : pending[a] \in SUBSET Keys
    /\ DOMAIN activeSubs \subseteq Keys
    /\ \A k \in DOMAIN activeSubs : activeSubs[k] \in SUBSET Conns
    /\ DOMAIN connToKeys \subseteq Conns
    /\ \A c \in DOMAIN connToKeys : connToKeys[c] \in SUBSET Keys
    /\ connLocks \subseteq {c \in Conns : handler[c] # "none"}
    /\ socket \in [Conns -> {"none", "open", "closed"}]
    /\ handler \in [Conns -> {"none", "read", "apply", "reply", "replied"}]
    /\ auth \in [Conns -> AuthKeys]
    /\ task \in [Notifiers -> [step : {"idle", "send"}, key : Keys \cup {NoKey},
                               conns : SUBSET Conns]]
    /\ writer \in [Goroutines -> [conn : Conns \cup {NoConn}, locked : BOOLEAN,
                                  step : {"none", "fetched", "writing", "failed"}]]
    /\ holder \in [Conns -> SUBSET Goroutines]

\* "conn -> set(key)" is the reverse map of "key -> set(conn)", and neither keeps
\* an empty set (StatsSnapshot counts their entries).
MapsAgree ==
    /\ \A k \in Keys, c \in Conns : c \in SubsOf(k) <=> k \in KeysOf(c)
    /\ \A k \in DOMAIN activeSubs : activeSubs[k] # {}
    /\ \A c \in DOMAIN connToKeys : connToKeys[c] # {}

\* Inductive form of MapsAgree: a token always stands for some key.
MapsInv == MapsAgree /\ \A a \in DOMAIN pending : pending[a] # {}

\* A connection whose handler has left, or has not begun, is in no map: no token that
\* it sent before, no event and no late clean-up puts it back (the deferred cleanupConn
\* of HandleWS runs once, and nobody looks again).
LeftForgotten ==
    \A c \in Conns : handler[c] = "none" =>
        c \notin connLocks /\ \A k \in Keys : c \notin SubsOf(k) /\ k \notin KeysOf(c)

\* Goroutines in the middle of a write to c.
Writing(c) == {g \in Goroutines : writer[g].conn = c /\ writer[g].step = "writing"}

\* While a connection has its lock in connLocks its writes are serialized.
SerializedWhileListed ==
    \A c \in connLocks : \A g, h \in Writing(c) : g = h

\* Inductive form of SerializedWhileListed: whoever writes under a lock holds it, and
\* a goroutine that found no lock for its connection will find it unlisted for good,
\* since a connection that was closed does not come back, and one that is yet to
\* come is in no map, in no snapshot and in no write.
Fresh ==
    \A c \in Conns : socket[c] = "none" =>
        /\ handler[c] = "none" /\ KeysOf(c) = {}
        /\ \A n \in Notifiers : c \notin task[n].conns
        /\ \A g \in Goroutines : writer[g].conn # c

LocksHeld ==
    \A g \in Goroutines :
        LET w == writer[g]
        IN  /\ w.step \in {"fetched", "writing"} =>
                  w.conn \in Conns /\ (w.conn \in connLocks => w.locked)
            /\ w.step = "writing" /\ w.locked => holder[w.conn] = {g}

LocksInv == Fresh /\ LocksHeld

\* "per-connection write lock (serialization of the writes to one conn)".
Serialized == \A c \in Conns : \A g, h \in Writing(c) : g = h

\* "Auth keys expire after ~60s if unused and are single-use" (subscriptions.md):
\* the message that names a token spends it, whichever connection sent it, and a
\* token that was spent or has expired is never accepted again.
SingleUse ==
    [][\A a \in AuthKeys :
          \/ a \in issued /\ a \notin DOMAIN pending
          \/ \E c \in Conns : handler[c] = "apply" /\ auth[c] = a
                               /\ handler'[c] = "reply"
          => a \notin DOMAIN pending']_vars

\* "From now on every exit -> we clean up" (HandleWS): a connection that was closed
\* leaves the maps for good, whatever its handler and the notifiers were doing.
LeavesMaps ==
    \A c \in Conns :
        socket[c] = "closed" ~> [](KeysOf(c) = {} /\ c \notin connLocks)
=============================================================================
