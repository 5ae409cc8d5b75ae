------------------------------- MODULE PeerNet -------------------------------
(***************************************************************************)
(* A node asking its peers for a key it does not have                      *)
(* (servers/network-manager). A read handler calls SendTaskReq, which      *)
(* registers a channel under "<server ip>_<task>", sends the request to    *)
(* every peer and waits for the first answer, five seconds at most. Each   *)
(* connection has a goroutine that reads it (listenForMessages) and hands  *)
(* answers to goroutines of their own (HandleResponse).                    *)
(*   call     idle -> register -> send -> wait (-> expire) -> done         *)
(*   mail     none -> spawned -> writing -> asked -> answered -> read      *)
(*            -> handed -> found -> gone                                   *)
(* A mail is the request of one call to one peer, then the answer to it.   *)
(* Beside that the node answers what its peers ask (handleMsg), and the   *)
(* heartbeat visits every peer every five seconds, under the lock.         *)
(* The address of the node is known (GetOutboundIP), and handlers only     *)
(* ask the task "read".                                                    *)
(***************************************************************************)
CONSTANTS
    Calls,     \* calls of SendTaskReq; each is made once
    Asked,     \* [Calls -> Keys], the key each asks for
    Peers,     \* addresses; each connects once
    Stored,    \* [Peers -> SUBSET Keys], the keys each peer has
    Asking,    \* the peers that send requests themselves
    Nothing    \* the content of an answer without data

VARIABLES
    peers,     \* nm.peers
    link,      \* per peer: the connection, "none", "up" or "down"
    listener,  \* per peer: listenForMessages; "listing" before it begins, else
               \* what it has read: "none", "answer", "ping", "request"
    serving,   \* per peer: the request of that peer that handleMsg is at
    round,     \* the peers the heartbeat has still to visit; it holds nm.Lock
    channels,  \* nm.responseChannels: task -> the call that made the channel
    buffer,    \* per call: the answers in its channel, at most one
    mail,      \* per call and peer: where its request or answer is
    target,    \* per call and peer: the call HandleResponse found for the answer
    pc,        \* per call
    result,    \* per call: the content it returned
    alive      \* whether the process still runs

vars == <<peers, link, listener, serving, round, channels, buffer, mail, target, pc, result, alive>>
conns == <<peers, link, listener, serving, round>>
calls == <<channels, buffer, pc, result>>

Mails == Calls \X Peers
Hit(m) == Asked[m[1]] \in Stored[m[2]]

Init ==
    /\ peers = {}
    /\ link = [p \in Peers |-> "none"]
    /\ listener = [p \in Peers |-> "none"]
    /\ serving = [p \in Peers |-> "none"]
    /\ round = {}
    /\ channels = [t \in {} |-> Nothing]
    /\ buffer = [c \in Calls |-> {}]
    /\ mail = [m \in Mails |-> "none"]
    /\ target = [m \in Mails |-> m[1]]
    /\ pc = [c \in Calls |-> "idle"]
    /\ result = [c \in Calls |-> Nothing]
    /\ alive = TRUE

Goto(c, step) == pc' = [pc EXCEPT ![c] = step]
Move(m, stage) == mail' = [mail EXCEPT ![m] = stage]
Listen(p, what) == listener' = [listener EXCEPT ![p] = what]

\* nm.Lock can be had. Only the heartbeat keeps it over more than one step.
Unlocked == round = {}

\* A goroutine writes to the connection of p.
Busy(p) == serving[p] = "writing" \/ \E m \in Mails : m[2] = p /\ mail[m] = "writing"

\* A goroutine panics and takes the process with it.
Panic == alive' = FALSE /\ UNCHANGED <<conns, calls, mail, target>>

-----------------------------------------------------------------------------
(* SendTaskReq *)

\* len(nm.peers) is read without the lock.
Start(c) ==
    /\ pc[c] = "idle"
    /\ Goto(c, IF peers = {} THEN "done" ELSE "register")
    /\ UNCHANGED <<conns, channels, buffer, result, mail, target, alive>>

\* Variant: the key of the channel lacks the task.
RegisterUntasked(c) ==
    /\ pc[c] = "register" /\ Unlocked
    /\ channels' = [t \in DOMAIN channels \cup {""} |-> c]
    /\ Goto(c, "send")
    /\ UNCHANGED <<conns, buffer, result, mail, target, alive>>

\* Whoever registered for the same task before is overwritten.
Register(c) ==
    /\ pc[c] = "register" /\ Unlocked
    /\ channels' = [t \in DOMAIN channels \cup {"read"} |-> c]
    /\ Goto(c, "send")
    /\ UNCHANGED <<conns, buffer, result, mail, target, alive>>

\* One goroutine for each peer, under the lock.
Broadcast(c) ==
    /\ pc[c] = "send" /\ Unlocked
    /\ mail' = [m \in Mails |-> IF m[1] = c /\ m[2] \in peers THEN "spawned"
                                ELSE mail[m]]
    /\ Goto(c, "wait")
    /\ UNCHANGED <<conns, channels, buffer, result, target, alive>>

\* The answer stays registered: nothing removes the channel.
Take(c) ==
    /\ pc[c] = "wait"
    /\ \E answer \in buffer[c] : result' = [result EXCEPT ![c] = answer]
    /\ buffer' = [buffer EXCEPT ![c] = {}]
    /\ Goto(c, "done")
    /\ UNCHANGED <<conns, channels, mail, target, alive>>

\* Variant: gives up only when there is no peer left that could answer.
TimeoutAlone(c) ==
    /\ pc[c] = "wait" /\ peers = {}
    /\ Goto(c, "expire")
    /\ UNCHANGED <<conns, channels, buffer, result, mail, target, alive>>

Timeout(c) ==
    /\ pc[c] = "wait"
    /\ Goto(c, "expire")
    /\ UNCHANGED <<conns, channels, buffer, result, mail, target, alive>>

\* delete(nm.responseChannels, reqKey), whoever's channel is there now.
Expire(c) ==
    /\ pc[c] = "expire" /\ Unlocked
    /\ channels' = [t \in DOMAIN channels \ {"read"} |-> channels[t]]
    /\ Goto(c, "done")
    /\ UNCHANGED <<conns, buffer, result, mail, target, alive>>

-----------------------------------------------------------------------------
(* The request on its way. *)

\* peer.Conn.WriteMessage without a lock: the connection allows one writer at a
\* time, and panics when it notices a second one.
WriteBegin(m) ==
    /\ mail[m] = "spawned"
    /\ \/ /\ Move(m, IF link[m[2]] = "up" THEN "writing" ELSE "gone")
          /\ UNCHANGED <<conns, calls, target, alive>>
       \/ Busy(m[2]) /\ Panic

WriteEnd(m) ==
    /\ mail[m] = "writing"
    /\ Move(m, IF link[m[2]] = "up" THEN "asked" ELSE "gone")
    /\ UNCHANGED <<conns, calls, target, alive>>

\* handleMsg of the peer: it answers whether or not it has the key.
Answer(m) ==
    /\ mail[m] = "asked" /\ link[m[2]] = "up"
    /\ Move(m, "answered")
    /\ UNCHANGED <<conns, calls, target, alive>>

-----------------------------------------------------------------------------
(* listenForMessages and HandleResponse *)

Receive(m) ==
    /\ mail[m] = "answered" /\ listener[m[2]] = "reading"
    /\ Listen(m[2], "answer")
    /\ Move(m, "read")
    /\ UNCHANGED <<peers, link, serving, round, calls, target, alive>>

\* A heartbeat, the address that handleConnection sends, or a request; one
\* request of a peer at a time.
Hear(p) ==
    /\ listener[p] = "reading" /\ link[p] = "up"
    /\ Listen(p, "ping") \/ (p \in Asking /\ serving[p] = "none" /\ Listen(p, "request"))
    /\ UNCHANGED <<peers, link, serving, round, calls, mail, target, alive>>

\* nm.peers[peerAddr].LastActive is set: a nil pointer if the peer was removed.
\* Then an answer and a request each go to a goroutine of their own.
Touch(p) ==
    /\ listener[p] \in {"answer", "ping", "request"} /\ Unlocked
    /\ IF p \notin peers THEN Panic
       ELSE /\ Listen(p, "reading")
            /\ serving' = IF listener[p] = "request"
                          THEN [serving EXCEPT ![p] = "asked"] ELSE serving
            /\ mail' = [m \in Mails |-> IF m[2] = p /\ mail[m] = "read" THEN "handed"
                                        ELSE mail[m]]
            /\ UNCHANGED <<peers, link, round, calls, target, alive>>

\* handleMsg has run the task and writes the answer to the connection.
ServeBegin(p) ==
    /\ serving[p] = "asked"
    /\ \/ /\ serving' = [serving EXCEPT ![p] = IF link[p] = "up" THEN "writing" ELSE "none"]
          /\ UNCHANGED <<peers, link, listener, round, calls, mail, target, alive>>
       \/ Busy(p) /\ Panic

ServeEnd(p) ==
    /\ serving[p] = "writing"
    /\ serving' = [serving EXCEPT ![p] = "none"]
    /\ UNCHANGED <<peers, link, listener, round, calls, mail, target, alive>>

\* Variant: a miss is answered under the task of the request.
TaskOfRequest(m) == "read"

\* A peer without the key answers with an empty task: tasks.Read returns a new
\* message, of which handleMsg sets only ReqSendBy, ReqResBy and Finished.
TaskOf(m) == IF Hit(m) THEN "read" ELSE ""

FindChannel(m) ==
    /\ mail[m] = "handed" /\ Unlocked
    /\ IF TaskOf(m) \in DOMAIN channels
       THEN /\ target' = [target EXCEPT ![m] = channels[TaskOf(m)]]
            /\ Move(m, "found")
       ELSE Move(m, "gone") /\ UNCHANGED target
    /\ UNCHANGED <<conns, calls, alive>>

\* A full channel drops the answer.
Deliver(m) ==
    LET content == IF Hit(m) THEN Asked[m[1]] ELSE Nothing
    IN  /\ mail[m] = "found"
        /\ buffer' = [buffer EXCEPT ![target[m]] = IF @ = {} THEN {content} ELSE @]
        /\ Move(m, "gone")
        /\ UNCHANGED <<conns, channels, pc, result, target, alive>>

-----------------------------------------------------------------------------
(* The connections. *)

\* connectToPeer lists the peers before it listens, handleConnection does not.
Connect(p) ==
    /\ link[p] = "none" /\ Unlocked
    /\ link' = [link EXCEPT ![p] = "up"]
    /\ peers' = peers \cup {p}
    /\ Listen(p, "listing") \/ Listen(p, "reading")
    /\ UNCHANGED <<serving, round, calls, mail, target, alive>>

Listed(p) ==
    /\ listener[p] = "listing"
    /\ Listen(p, "reading")
    /\ UNCHANGED <<peers, link, serving, round, calls, mail, target, alive>>

Break(p) ==
    /\ link[p] = "up"
    /\ link' = [link EXCEPT ![p] = "down"]
    /\ UNCHANGED <<peers, listener, serving, round, calls, mail, target, alive>>

\* Variant: the deferred function only closes the connection.
LeaveListed(p) ==
    /\ link[p] = "down" /\ listener[p] = "reading" /\ Unlocked
    /\ Listen(p, "none")
    /\ UNCHANGED <<peers, link, serving, round, calls, mail, target, alive>>

\* ReadMessage fails: the deferred function removes the peer.
Leave(p) ==
    /\ link[p] = "down" /\ listener[p] = "reading" /\ Unlocked
    /\ peers' = peers \ {p}
    /\ Listen(p, "none")
    /\ UNCHANGED <<link, serving, round, calls, mail, target, alive>>

\* heartbeatChecker takes the lock, for all the peers.
Beat ==
    /\ Unlocked /\ peers # {}
    /\ round' = peers
    /\ UNCHANGED <<peers, link, listener, serving, calls, mail, target, alive>>

\* It gives up a peer that was silent or whose connection fails, and writes to the
\* others, beside whoever writes to them.
Visit(p) ==
    /\ p \in round
    /\ \/ /\ round' = round \ {p}
          /\ \/ /\ peers' = peers \ {p}
                /\ link' = [link EXCEPT ![p] = "down"]
             \/ UNCHANGED <<peers, link>>
          /\ UNCHANGED <<listener, serving, calls, mail, target, alive>>
       \/ Busy(p) /\ Panic

\* listPeers goes over the map without the lock: the runtime ends a process that
\* changes a map meanwhile, which Connect, Leave and the heartbeat do.
ListRace ==
    /\ \E p \in Peers : listener[p] = "listing"
    /\ \E p \in Peers :
          \/ p \in round
          \/ Unlocked /\ link[p] = "none"
          \/ Unlocked /\ link[p] = "down" /\ listener[p] = "reading"
    /\ Panic

-----------------------------------------------------------------------------
Return(c) == Register(c) \/ Broadcast(c) \/ Take(c) \/ Timeout(c) \/ Expire(c)

Hearing(p) == Listed(p) \/ Touch(p) \/ Leave(p)

Next ==
    /\ alive
    /\ \/ \E c \in Calls : Start(c) \/ Return(c)
       \/ \E m \in Mails :
             \/ WriteBegin(m) \/ WriteEnd(m) \/ Answer(m) \/ Receive(m)
             \/ FindChannel(m) \/ Deliver(m)
       \/ \E p \in Peers :
             \/ Connect(p) \/ Break(p) \/ Visit(p) \/ Hearing(p)
             \/ Hear(p) \/ ServeBegin(p) \/ ServeEnd(p)
       \/ Beat \/ ListRace

Spec == Init /\ [][Next]_vars

\* A goroutine that can run does, time.After fires, and sync.Mutex hands itself to
\* whoever waits. A write of the heartbeat to a closed connection ends; one to an open
\* connection has no deadline, and may wait for ever for a peer that does not read.
FairSpec ==
    /\ Spec
    /\ \A c \in Calls : SF_vars(alive /\ Return(c))
    /\ \A p \in Peers :
          /\ SF_vars(alive /\ Hearing(p))
          /\ WF_vars(alive /\ link[p] = "down" /\ Visit(p))

-----------------------------------------------------------------------------
(* Properties. *)

Stages == {"none", "spawned", "writing", "asked", "answered", "read", "handed",
           "found", "gone"}

Content == {Asked[c] : c \in Calls} \cup {Nothing}

\* Types of the state.
TypeOK ==
    /\ peers \subseteq Peers
    /\ link \in [Peers -> {"none", "up", "down"}]
    /\ listener \in [Peers -> {"none", "listing", "reading", "answer", "ping", "request"}]
    /\ serving \in [Peers -> {"none", "asked", "writing"}]
    /\ round \subseteq peers
    /\ DOMAIN channels \subseteq {"read"}
    /\ \A t \in DOMAIN channels : channels[t] \in Calls
    /\ buffer \in [Calls -> SUBSET Content]
    /\ \A c \in Calls : \A x, y \in buffer[c] : x = y
    /\ result \in [Calls -> Content]
    /\ mail \in [Mails -> Stages]
    /\ target \in [Mails -> Calls]
    /\ pc \in [Calls -> {"idle", "register", "send", "wait", "expire", "done"}]
    /\ alive \in BOOLEAN

\* A peer that does not have the key never ends a call, however early it answers:
\* what a channel holds is data that some peer has.
OnlyDataIsHanded ==
    \A c \in Calls : \A answer \in buffer[c] : \E p \in Peers : answer \in Stored[p]

\* Inductive form of OnlyDataIsHanded: only the answer of a peer that has the key
\* finds a channel, since the answer of another names no task.
HandedInv ==
    /\ OnlyDataIsHanded
    /\ \A m \in Mails : mail[m] = "found" => Hit(m)

\* The heartbeat holds the lock for good: its write to an open connection does not end
\* (heartbeatChecker).
HeartbeatHangs == [](\E p \in round : link[p] = "up")

\* Only a heartbeat that hangs keeps a call of SendTaskReq from returning: its five
\* seconds do not begin before it has had the lock twice, nor end without it.
Returns ==
    \A c \in Calls :
        pc[c] = "register" ~> (pc[c] = "done" \/ ~alive \/ HeartbeatHangs)

\* Only a heartbeat that hangs at another peer keeps a peer whose connection is gone in
\* nm.peers, although its listener may be held up by the lock, and the heartbeat may
\* have written to it without an error.
BrokenLeave ==
    \A p \in Peers :
        link[p] = "down" ~> (p \notin peers \/ ~alive \/ HeartbeatHangs)

\* A request that did not get to the peer, or an answer that nobody reads any more.
Lost(m) ==
    /\ link[m[2]] = "down"
    /\ mail[m] = "asked" \/ (mail[m] = "answered" /\ listener[m[2]] = "none")
Flying(m) == mail[m] \notin {"none", "gone"} /\ ~Lost(m)

\* A call begins only when no call that asks for another key is under way, and none of
\* its requests and answers.
UnderWay(c) ==
    pc[c] \notin {"idle", "done"} \/ \E p \in Peers : Flying(<<c, p>>)
SerialStart ==
    \A c \in Calls :
        Start(c) => \A d \in Calls : UnderWay(d) => Asked[d] = Asked[c]
SerialSpec == Init /\ [][Next /\ SerialStart]_vars

\* SendTaskReq "sends the request to all servers and waits for the first answer"
\* (send_message.go): what it returns is the data asked for.
AnswerMatches == \A c \in Calls : result[c] \in {Asked[c], Nothing}
=============================================================================
