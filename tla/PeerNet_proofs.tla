--------------------------- MODULE PeerNet_proofs ---------------------------
(***************************************************************************)
(* What the answers of peers can and cannot do, for any calls, keys and    *)
(* peers.                                                                  *)
(***************************************************************************)
EXTENDS PeerNet, TLAPS

\* A mail is of a call and for a peer.
LEMMA MailOf ==
    ASSUME NEW m \in Mails
    PROVE  m[1] \in Calls /\ m[2] \in Peers
BY DEF Mails

\* The start is well typed.
LEMMA InitTyped == Init => TypeOK
BY MailOf DEF Init, TypeOK, Content, Stages

\* Every step keeps the types.
LEMMA TypeStep == TypeOK /\ [Next]_vars => TypeOK'
<1> SUFFICES ASSUME TypeOK, [Next]_vars PROVE TypeOK'
  OBVIOUS
<1>1. ASSUME NEW c \in Calls, Start(c) \/ Timeout(c) PROVE TypeOK'
  BY <1>1 DEF TypeOK, Start, Timeout, Goto, conns
<1>2. ASSUME NEW c \in Calls, Register(c) PROVE TypeOK'
  BY <1>2 DEF TypeOK, Register, Goto, conns
<1>3. ASSUME NEW c \in Calls, Broadcast(c) PROVE TypeOK'
  BY <1>3 DEF TypeOK, Broadcast, Goto, conns, Stages
<1>4. ASSUME NEW c \in Calls, Take(c) PROVE TypeOK'
  <2>1. buffer' \in [Calls -> SUBSET Content] /\ result' \in [Calls -> Content]
    BY <1>4 DEF TypeOK, Take
  <2>2. \A d \in Calls : \A x, y \in buffer'[d] : x = y
    BY <1>4 DEF TypeOK, Take
  <2> QED BY <1>4, <2>1, <2>2 DEF TypeOK, Take, Goto, conns
<1>5. ASSUME NEW c \in Calls, Expire(c) PROVE TypeOK'
  BY <1>5 DEF TypeOK, Expire, Goto, conns
<1>6. ASSUME NEW m \in Mails, WriteBegin(m) \/ WriteEnd(m) \/ Answer(m)
      PROVE  TypeOK'
  <2>1. CASE WriteBegin(m)
    BY <2>1 DEF TypeOK, WriteBegin, Move, Stages, Panic, conns, calls
  <2>2. CASE WriteEnd(m) \/ Answer(m)
    BY <2>2 DEF TypeOK, WriteEnd, Answer, Move, Stages, conns, calls
  <2> QED BY <1>6, <2>1, <2>2
<1>7. ASSUME NEW m \in Mails, Receive(m) PROVE TypeOK'
  BY <1>7, MailOf DEF TypeOK, Receive, Move, Listen, Stages, calls
<1>8. ASSUME NEW m \in Mails, FindChannel(m) PROVE TypeOK'
  BY <1>8 DEF TypeOK, FindChannel, Move, Stages, conns, calls
<1>9. ASSUME NEW m \in Mails, Deliver(m) PROVE TypeOK'
  <2> DEFINE content == IF Hit(m) THEN Asked[m[1]] ELSE Nothing
  <2>1. content \in Content
    BY MailOf DEF Content
  <2>2. buffer' = [buffer EXCEPT ![target[m]] = IF @ = {} THEN {content} ELSE @]
    BY <1>9 DEF Deliver
  <2>3. /\ buffer' \in [Calls -> SUBSET Content]
        /\ \A d \in Calls : \A x, y \in buffer'[d] : x = y
    BY <2>1, <2>2 DEF TypeOK
  <2> QED BY <1>9, <2>3 DEF TypeOK, Deliver, Move, Stages, conns
<1>10. ASSUME NEW p \in Peers, Connect(p) PROVE TypeOK'
  BY <1>10 DEF TypeOK, Connect, Listen, Unlocked, calls
<1>11. ASSUME NEW p \in Peers, Listed(p) \/ Break(p) \/ Hear(p) PROVE TypeOK'
  BY <1>11 DEF TypeOK, Listed, Break, Hear, Listen, calls
<1>12. ASSUME NEW p \in Peers, Leave(p) PROVE TypeOK'
  BY <1>12 DEF TypeOK, Leave, Listen, Unlocked, calls
<1>13. ASSUME NEW p \in Peers, Touch(p) PROVE TypeOK'
  <2>1. CASE Panic
    BY <2>1 DEF TypeOK, Panic, conns, calls
  <2>2. CASE ~Panic
    <3>1. /\ Listen(p, "reading")
          /\ serving' \in {serving, [serving EXCEPT ![p] = "asked"]}
          /\ mail' = [m \in Mails |-> IF m[2] = p /\ mail[m] = "read" THEN "handed"
                                     ELSE mail[m]]
          /\ UNCHANGED <<peers, link, round, calls, target, alive>>
      BY <1>13, <2>2 DEF Touch
    <3>2. mail' \in [Mails -> Stages]
      BY <3>1 DEF TypeOK, Stages
    <3> QED BY <3>1, <3>2 DEF TypeOK, Listen, calls
  <2> QED BY <2>1, <2>2
<1>14. ASSUME NEW p \in Peers, ServeBegin(p) \/ ServeEnd(p) PROVE TypeOK'
  BY <1>14 DEF TypeOK, ServeBegin, ServeEnd, Panic, conns, calls
<1>15. ASSUME NEW p \in Peers, Visit(p) PROVE TypeOK'
  BY <1>15 DEF TypeOK, Visit, Panic, conns, calls
<1>16. ASSUME Beat \/ ListRace PROVE TypeOK'
  BY <1>16 DEF TypeOK, Beat, ListRace, Panic, conns, calls
<1>17. ASSUME UNCHANGED vars PROVE TypeOK'
  BY <1>17 DEF TypeOK, vars
<1> QED BY <1>1, <1>2, <1>3, <1>4, <1>5, <1>6, <1>7, <1>8, <1>9, <1>10, <1>11, <1>12,
           <1>13, <1>14, <1>15, <1>16, <1>17 DEF Next, Return, Hearing

\* For any calls and peers every reachable state is well typed: a channel holds one
\* answer at most, and the heartbeat only visits peers that are listed.
THEOREM Typing == Spec => []TypeOK
BY InitTyped, TypeStep, PTL DEF Spec

-----------------------------------------------------------------------------
(* What a channel holds. *)

\* At the start nothing is handed over.
LEMMA InitHanded == Init => HandedInv
BY DEF Init, HandedInv, OnlyDataIsHanded

\* The steps that hand no answer to a channel and find none.
LEMMA HandsNothing ==
    ASSUME HandedInv,
           \A c \in Calls : buffer'[c] \subseteq buffer[c],
           \A m \in Mails : mail'[m] = "found" => mail[m] = "found"
    PROVE  HandedInv'
BY DEF HandedInv, OnlyDataIsHanded, Hit

\* What is buffered and handed over came from a peer that has the key.
LEMMA HandedStep == TypeOK /\ HandedInv /\ [Next]_vars => HandedInv'
<1> SUFFICES ASSUME TypeOK, HandedInv, [Next]_vars PROVE HandedInv'
  OBVIOUS
<1>1. ASSUME NEW m \in Mails, FindChannel(m) PROVE HandedInv'
  <2>1. \A n \in Mails : n # m => mail'[n] = mail[n]
    BY <1>1 DEF FindChannel, Move, TypeOK
  <2>2. ASSUME mail'[m] = "found" PROVE Hit(m)
    <3>1. TaskOf(m) \in {"read"}
      BY <1>1, <2>2 DEF FindChannel, Move, TypeOK
    <3> QED BY <3>1 DEF TaskOf
  <2> QED BY <1>1, <2>1, <2>2
      DEF FindChannel, HandedInv, OnlyDataIsHanded, Hit, calls
<1>2. ASSUME NEW m \in Mails, Deliver(m) PROVE HandedInv'
  <2>1. Hit(m) /\ m[2] \in Peers
    BY <1>2, MailOf DEF Deliver, HandedInv
  <2>2. buffer' = [buffer EXCEPT ![target[m]] = IF @ = {} THEN {Asked[m[1]]} ELSE @]
    BY <1>2, <2>1 DEF Deliver
  <2>3. \A c \in Calls : buffer'[c] \subseteq buffer[c] \cup {Asked[m[1]]}
    BY <2>2 DEF TypeOK
  <2>4. OnlyDataIsHanded'
    BY <2>1, <2>3 DEF HandedInv, OnlyDataIsHanded, Hit
  <2>5. \A n \in Mails : mail'[n] = "found" => mail[n] = "found"
    BY <1>2 DEF Deliver, Move, TypeOK
  <2> QED BY <2>4, <2>5 DEF HandedInv, Hit
<1>3. ASSUME NEW c \in Calls, Take(c) PROVE HandedInv'
  BY <1>3, HandsNothing DEF Take, TypeOK
<1>4. ASSUME UNCHANGED buffer,
             \A m \in Mails : mail'[m] = "found" => mail[m] = "found"
      PROVE  HandedInv'
  BY <1>4, HandsNothing
<1>5. ASSUME NEW c \in Calls, Start(c) \/ Return(c) PROVE HandedInv'
  <2>1. ASSUME ~Take(c)
        PROVE  UNCHANGED buffer /\ \A m \in Mails : mail'[m] = "found" => mail[m] = "found"
    BY <1>5, <2>1 DEF Return, Start, Register, Broadcast, Timeout, Expire
  <2> QED BY <1>3, <1>4, <2>1
<1>6. ASSUME NEW m \in Mails, WriteBegin(m) \/ WriteEnd(m) \/ Answer(m) \/ Receive(m)
      PROVE  HandedInv'
  BY <1>4, <1>6
  DEF WriteBegin, WriteEnd, Answer, Receive, Move, Panic, calls, TypeOK
<1>7. ASSUME NEW p \in Peers,
             \/ Connect(p) \/ Break(p) \/ Visit(p) \/ Hearing(p)
             \/ Hear(p) \/ ServeBegin(p) \/ ServeEnd(p)
      PROVE  HandedInv'
  BY <1>4, <1>7
  DEF Connect, Break, Visit, Hearing, Listed, Touch, Leave, Hear, ServeBegin, ServeEnd,
      Panic, calls
<1>8. ASSUME Beat \/ ListRace \/ UNCHANGED vars PROVE HandedInv'
  BY <1>4, <1>8 DEF Beat, ListRace, Panic, calls, vars
<1> QED BY <1>1, <1>2, <1>5, <1>6, <1>7, <1>8 DEF Next

\* A peer that does not have the key never ends a call, however early it answers and
\* whichever call's channel is registered by then (HandleResponse).
THEOREM OnlyData == Spec => []OnlyDataIsHanded
<1>1. HandedInv => OnlyDataIsHanded
  BY DEF HandedInv
<1> QED BY <1>1, InitHanded, HandedStep, Typing, PTL DEF Spec

-----------------------------------------------------------------------------
(* When an answer is the answer to the question. *)

\* The channel, if there is one, was made by a call that asked for the same.
Heard(c) == "read" \in DOMAIN channels => Asked[channels["read"]] = Asked[c]

\* Calls that are under way at one time ask for one key, so that whatever channel an
\* answer finds, it carries what the call that made the channel asked for.
SerialInv ==
    /\ \A c, d \in Calls : UnderWay(c) /\ UnderWay(d) => Asked[c] = Asked[d]
    /\ \A c \in Calls : pc[c] = "send" => Heard(c)
    /\ \A m \in Mails : Flying(m) => Heard(m[1])
    /\ \A m \in Mails : mail[m] = "found" => Asked[target[m]] = Asked[m[1]]
    /\ \A c \in Calls :
          buffer[c] \subseteq {Asked[c]} /\ result[c] \in {Asked[c], Nothing}

LEMMA InitSerial == Init => SerialInv
BY MailOf DEF Init, SerialInv, UnderWay, Flying, Mails

\* Only Broadcast puts requests on their way.
LEMMA NoneFliesAgain ==
    ASSUME TypeOK, [Next]_vars, NEW m \in Mails, ~Broadcast(m[1])
    PROVE  Flying(m)' => Flying(m)
<1>0. m[1] \in Calls /\ m[2] \in Peers
  BY MailOf
<1>1. ASSUME NEW c \in Calls, Start(c) \/ Return(c) PROVE Flying(m)' => Flying(m)
  <2>1. mail'[m] = mail[m] /\ UNCHANGED <<link, listener>>
    BY <1>0, <1>1 DEF Start, Return, Register, Broadcast, Take, Timeout, Expire, conns, TypeOK
  <2> QED BY <2>1 DEF Flying, Lost
<1>2. ASSUME NEW n \in Mails, WriteBegin(n) \/ WriteEnd(n) \/ Answer(n)
      PROVE  Flying(m)' => Flying(m)
  <2>1. UNCHANGED <<link, listener>>
    BY <1>2 DEF WriteBegin, WriteEnd, Answer, Panic, conns
  <2>2. CASE n # m \/ mail' = mail
    <3>1. mail'[m] = mail[m]
      BY <1>2, <2>2 DEF WriteBegin, WriteEnd, Answer, Move, Panic, TypeOK
    <3> QED BY <2>1, <3>1 DEF Flying, Lost
  <2>3. CASE n = m /\ mail' # mail
    BY <1>2, <2>3 DEF WriteBegin, WriteEnd, Answer, Panic, Flying, Lost
  <2> QED BY <2>2, <2>3
<1>3. ASSUME NEW n \in Mails, Receive(n) PROVE Flying(m)' => Flying(m)
  <2>1. /\ mail[n] = "answered" /\ listener[n[2]] = "reading" /\ link' = link
        /\ \A k \in Mails : k # n => mail'[k] = mail[k]
        /\ \A p \in Peers : p # n[2] => listener'[p] = listener[p]
        /\ n[2] \in Peers
    BY <1>3, MailOf DEF Receive, Move, Listen, TypeOK
  <2> QED BY <1>0, <2>1 DEF Flying, Lost
<1>4. ASSUME NEW n \in Mails, FindChannel(n) \/ Deliver(n) PROVE Flying(m)' => Flying(m)
  <2>1. UNCHANGED <<link, listener>>
    BY <1>4 DEF FindChannel, Deliver, conns
  <2>2. mail[n] \in {"handed", "found"} /\ \A k \in Mails : k # n => mail'[k] = mail[k]
    BY <1>4 DEF FindChannel, Deliver, Move, TypeOK
  <2> QED BY <2>1, <2>2 DEF Flying, Lost
<1>5. ASSUME NEW p \in Peers,
             Connect(p) \/ Listed(p) \/ Leave(p) \/ Hear(p) \/ Break(p) \/ Visit(p)
             \/ ServeBegin(p) \/ ServeEnd(p)
      PROVE  Flying(m)' => Flying(m)
  <2>1. mail' = mail
    BY <1>5 DEF Connect, Listed, Leave, Hear, Break, Visit, ServeBegin, ServeEnd, Panic
  <2>2. link[m[2]] = "down" => link'[m[2]] = "down"
    BY <1>0, <1>5
    DEF Connect, Listed, Leave, Hear, Break, Visit, ServeBegin, ServeEnd, Panic, conns, TypeOK
  <2>3. link[m[2]] = "down" /\ listener[m[2]] = "none" => listener'[m[2]] = "none"
    BY <1>0, <1>5
    DEF Connect, Listed, Leave, Hear, Break, Visit, ServeBegin, ServeEnd, Panic, conns,
        Listen, TypeOK
  <2> QED BY <2>1, <2>2, <2>3 DEF Flying, Lost
<1>6. ASSUME NEW p \in Peers, Touch(p) PROVE Flying(m)' => Flying(m)
  <2>1. CASE Panic
    BY <2>1 DEF Panic, conns, Flying, Lost
  <2>2. CASE ~Panic
    <3>1. /\ link' = link
          /\ listener[p] \in {"answer", "ping", "request"}
          /\ \A q \in Peers : q # p => listener'[q] = listener[q]
          /\ mail'[m] = mail[m] \/ mail[m] = "read"
      BY <1>6, <2>2 DEF Touch, Listen, TypeOK
    <3>2. listener[m[2]] = "none" => listener'[m[2]] = "none"
      BY <1>0, <3>1
    <3> QED BY <3>1, <3>2 DEF Flying, Lost
  <2> QED BY <2>1, <2>2
<1>7. ASSUME Beat \/ ListRace \/ UNCHANGED vars PROVE Flying(m)' => Flying(m)
  BY <1>7 DEF Beat, ListRace, Panic, conns, vars, Flying, Lost
<1> QED BY <1>1, <1>2, <1>3, <1>4, <1>5, <1>6, <1>7 DEF Next, Hearing

\* A step that begins no call, makes no channel and hands over no answer.
LEMMA SerialKept ==
    ASSUME SerialInv,
           \A m \in Mails : Flying(m)' => Flying(m),
           \A c \in Calls : pc'[c] \notin {"idle", "done"} => pc[c] \notin {"idle", "done"},
           \A c \in Calls : pc'[c] = "send" => pc[c] = "send",
           channels' = channels \/ "read" \notin DOMAIN channels',
           \A m \in Mails : mail'[m] = "found" => mail[m] = "found" /\ target'[m] = target[m],
           \A c \in Calls : buffer'[c] \subseteq buffer[c],
           \A c \in Calls : result'[c] \in {result[c]} \cup buffer[c]
    PROVE  SerialInv'
<1>1. \A c \in Calls, p \in Peers : <<c, p>> \in Mails
  BY DEF Mails
<1>2. ASSUME NEW c \in Calls, UnderWay(c)' PROVE UnderWay(c)
  BY <1>1, <1>2 DEF UnderWay
<1>3. ASSUME NEW c \in Calls, Heard(c) PROVE Heard(c)'
  BY <1>3 DEF Heard
<1>4. \A m \in Mails : m[1] \in Calls
  BY MailOf
<1>5. (\A c, d \in Calls : UnderWay(c) /\ UnderWay(d) => Asked[c] = Asked[d])'
  BY <1>2 DEF SerialInv
<1>6. (\A c \in Calls : pc[c] = "send" => Heard(c))'
  BY <1>3 DEF SerialInv
<1>7. (\A m \in Mails : Flying(m) => Heard(m[1]))'
  <2> SUFFICES ASSUME NEW m \in Mails, Flying(m)' PROVE Heard(m[1])'
    OBVIOUS
  <2>1. Heard(m[1])
    BY DEF SerialInv
  <2> QED BY <1>3, <1>4, <2>1
<1>8. (\A m \in Mails : mail[m] = "found" => Asked[target[m]] = Asked[m[1]])'
  BY DEF SerialInv
<1>9. (\A c \in Calls :
          buffer[c] \subseteq {Asked[c]} /\ result[c] \in {Asked[c], Nothing})'
  BY DEF SerialInv
<1> QED BY <1>5, <1>6, <1>7, <1>8, <1>9 DEF SerialInv

\* A call that begins has no other question beside it.
LEMMA StartSerial ==
    ASSUME TypeOK, SerialInv, [Next]_vars, SerialStart, NEW c \in Calls, Start(c)
    PROVE  SerialInv'
<1>1. /\ \A d \in Calls : d # c => pc'[d] = pc[d]
      /\ pc'[c] \in {"register", "done"} /\ pc[c] = "idle"
      /\ UNCHANGED <<mail, link, listener, channels, buffer, result, target>>
  BY DEF Start, Goto, conns, TypeOK
<1>2. \A d \in Calls : UnderWay(d)' => UnderWay(d) \/ d = c
  BY <1>1 DEF UnderWay, Flying, Lost
<1>3. \A d \in Calls : UnderWay(d) => Asked[d] = Asked[c]
  BY DEF SerialStart
<1>4. (\A d, e \in Calls : UnderWay(d) /\ UnderWay(e) => Asked[d] = Asked[e])'
  BY <1>2, <1>3 DEF SerialInv
<1>5. (\A d \in Calls : pc[d] = "send" => Heard(d))'
  BY <1>1 DEF SerialInv, Heard
<1>6. (\A m \in Mails : Flying(m) => Heard(m[1]))'
  BY <1>1 DEF SerialInv, Heard, Flying, Lost
<1> QED BY <1>1, <1>4, <1>5, <1>6 DEF SerialInv

\* Whoever else is under way asks for what the call asks that makes the channel.
LEMMA RegisterSerial ==
    ASSUME TypeOK, SerialInv, [Next]_vars, NEW c \in Calls, Register(c)
    PROVE  SerialInv'
<1>1. /\ \A d \in Calls : d # c => pc'[d] = pc[d]
      /\ pc'[c] = "send" /\ pc[c] = "register"
      /\ DOMAIN channels' = {"read"} /\ channels'["read"] = c
      /\ UNCHANGED <<mail, link, listener, buffer, result, target>>
  BY DEF Register, Goto, conns, TypeOK
<1>2. \A m \in Mails : Flying(m)' => Flying(m)
  BY <1>1 DEF Flying, Lost
<1>3. UnderWay(c)
  BY <1>1 DEF UnderWay
<1>4. \A d \in Calls : UnderWay(d)' => UnderWay(d)
  BY <1>1 DEF UnderWay, Flying, Lost
<1>5. \A d \in Calls : UnderWay(d) => Heard(d)'
  BY <1>1, <1>3 DEF SerialInv, Heard
<1>6. \A d \in Calls : pc[d] = "send" => UnderWay(d)
  BY DEF UnderWay
<1>7. \A m \in Mails : m[1] \in Calls /\ (Flying(m) => UnderWay(m[1]))
  <2> SUFFICES ASSUME NEW m \in Mails PROVE m[1] \in Calls /\ (Flying(m) => UnderWay(m[1]))
    OBVIOUS
  <2>1. m[1] \in Calls /\ m[2] \in Peers /\ m = <<m[1], m[2]>>
    BY DEF Mails
  <2> QED BY <2>1 DEF UnderWay
<1>8. (\A d, e \in Calls : UnderWay(d) /\ UnderWay(e) => Asked[d] = Asked[e])'
  BY <1>4 DEF SerialInv
<1>9. (\A d \in Calls : pc[d] = "send" => Heard(d))'
  BY <1>1, <1>3, <1>5, <1>6
<1>10. (\A m \in Mails : Flying(m) => Heard(m[1]))'
  BY <1>2, <1>5, <1>7
<1> QED BY <1>1, <1>8, <1>9, <1>10 DEF SerialInv

\* The requests of a call leave beside a channel that was made for its key.
LEMMA BroadcastSerial ==
    ASSUME TypeOK, SerialInv, [Next]_vars, NEW c \in Calls, Broadcast(c)
    PROVE  SerialInv'
<1>1. /\ \A d \in Calls : d # c => pc'[d] = pc[d]
      /\ pc'[c] = "wait" /\ pc[c] = "send"
      /\ \A m \in Mails : m[1] # c => mail'[m] = mail[m]
      /\ \A m \in Mails : mail'[m] = mail[m] \/ mail'[m] = "spawned"
      /\ UNCHANGED <<channels, link, listener, buffer, result, target>>
  BY DEF Broadcast, Goto, conns, TypeOK
<1>2. UnderWay(c) /\ Heard(c)
  BY <1>1 DEF UnderWay, SerialInv
<1>3. \A m \in Mails : Flying(m)' => Flying(m) \/ m[1] = c
  BY <1>1 DEF Flying, Lost
<1>4. \A d \in Calls, p \in Peers : <<d, p>> \in Mails /\ <<d, p>>[1] = d
  BY DEF Mails
<1>5. ASSUME NEW d \in Calls, UnderWay(d)' PROVE UnderWay(d)
  <2>1. CASE d = c
    BY <1>2, <2>1
  <2>2. CASE d # c
    BY <1>1, <1>3, <1>4, <1>5, <2>2 DEF UnderWay
  <2> QED BY <2>1, <2>2
<1>6. (\A d, e \in Calls : UnderWay(d) /\ UnderWay(e) => Asked[d] = Asked[e])'
  BY <1>5 DEF SerialInv
<1>7. \A d \in Calls : Heard(d)' = Heard(d)
  BY <1>1 DEF Heard
<1>8. (\A d \in Calls : pc[d] = "send" => Heard(d))'
  BY <1>1, <1>7 DEF SerialInv
<1>9. (\A m \in Mails : Flying(m) => Heard(m[1]))'
  <2> SUFFICES ASSUME NEW m \in Mails, Flying(m)' PROVE Heard(m[1])'
    OBVIOUS
  <2>1. m[1] \in Calls /\ (Flying(m) \/ m[1] = c)
    BY <1>3, MailOf
  <2>2. Heard(m[1])
    BY <1>2, <2>1 DEF SerialInv
  <2> QED BY <1>7, <2>1, <2>2
<1>10. (\A m \in Mails : mail[m] = "found" => Asked[target[m]] = Asked[m[1]])'
  BY <1>1 DEF SerialInv
<1> QED BY <1>1, <1>6, <1>8, <1>9, <1>10 DEF SerialInv

\* An answer that finds a channel finds one for its key, and is what was asked for.
LEMMA FindSerial ==
    ASSUME TypeOK, SerialInv, [Next]_vars, NEW m \in Mails, FindChannel(m),
           \A n \in Mails : Flying(n)' => Flying(n)
    PROVE  SerialInv'
<1>1. /\ mail[m] = "handed" /\ \A n \in Mails : n # m => mail'[n] = mail[n]
      /\ \A n \in Mails : n # m => target'[n] = target[n]
      /\ UNCHANGED <<pc, channels, buffer, result, link, listener>>
  BY DEF FindChannel, Move, conns, calls, TypeOK
<1>2. Heard(m[1])
  BY <1>1 DEF SerialInv, Flying, Lost
<1>3. mail'[m] = "found" => Asked[target'[m]] = Asked[m[1]]
  <2> SUFFICES ASSUME mail'[m] = "found" PROVE Asked[target'[m]] = Asked[m[1]]
    OBVIOUS
  <2>1. TaskOf(m) \in DOMAIN channels /\ target'[m] = channels[TaskOf(m)]
    BY DEF FindChannel, Move, TypeOK
  <2>2. TaskOf(m) = "read"
    BY <2>1 DEF TypeOK
  <2> QED BY <1>2, <2>1, <2>2 DEF Heard
<1>4. (\A n \in Mails : mail[n] = "found" => Asked[target[n]] = Asked[n[1]])'
  BY <1>1, <1>3 DEF SerialInv
<1>5. \A c, p : Flying(<<c, p>>)' /\ <<c, p>> \in Mails => Flying(<<c, p>>)
  OBVIOUS
<1>6. \A c \in Calls : UnderWay(c)' => UnderWay(c)
  BY <1>1, <1>5 DEF UnderWay, Mails
<1>7. (\A c, d \in Calls : UnderWay(c) /\ UnderWay(d) => Asked[c] = Asked[d])'
  BY <1>6 DEF SerialInv
<1>8. /\ (\A c \in Calls : pc[c] = "send" => Heard(c))'
      /\ (\A n \in Mails : Flying(n) => Heard(n[1]))'
  BY <1>1 DEF SerialInv, Heard
<1> QED BY <1>1, <1>4, <1>7, <1>8 DEF SerialInv

LEMMA DeliverSerial ==
    ASSUME TypeOK, HandedInv, SerialInv, [Next]_vars, NEW m \in Mails, Deliver(m),
           \A n \in Mails : Flying(n)' => Flying(n)
    PROVE  SerialInv'
<1>1. /\ mail[m] = "found" /\ \A n \in Mails : mail'[n] = "found" => mail[n] = "found"
      /\ UNCHANGED <<pc, channels, result, target, link, listener>>
  BY DEF Deliver, Move, conns, TypeOK
<1>2. Asked[target[m]] = Asked[m[1]] /\ target[m] \in Calls /\ Hit(m)
  BY <1>1 DEF SerialInv, TypeOK, HandedInv
<1>3. buffer' = [buffer EXCEPT ![target[m]] = IF @ = {} THEN {Asked[m[1]]} ELSE @]
  BY <1>2 DEF Deliver
<1>4. (\A c \in Calls :
          buffer[c] \subseteq {Asked[c]} /\ result[c] \in {Asked[c], Nothing})'
  BY <1>1, <1>2, <1>3 DEF SerialInv, TypeOK
<1>5. \A c \in Calls, p \in Peers : <<c, p>> \in Mails
  BY DEF Mails
<1>6. \A c \in Calls : UnderWay(c)' => UnderWay(c)
  BY <1>1, <1>5 DEF UnderWay
<1>7. (\A c, d \in Calls : UnderWay(c) /\ UnderWay(d) => Asked[c] = Asked[d])'
  BY <1>6 DEF SerialInv
<1>8. /\ (\A c \in Calls : pc[c] = "send" => Heard(c))'
      /\ (\A n \in Mails : Flying(n) => Heard(n[1]))'
      /\ (\A n \in Mails : mail[n] = "found" => Asked[target[n]] = Asked[n[1]])'
  BY <1>1 DEF SerialInv, Heard
<1> QED BY <1>4, <1>7, <1>8 DEF SerialInv

LEMMA SerialStep ==
    TypeOK /\ HandedInv /\ SerialInv /\ [Next /\ SerialStart]_vars => SerialInv'
<1> SUFFICES ASSUME TypeOK, HandedInv, SerialInv, [Next /\ SerialStart]_vars
             PROVE  SerialInv'
  OBVIOUS
<1>0. [Next]_vars
  OBVIOUS
<1>1. ASSUME NEW c \in Calls, Start(c) PROVE SerialInv'
  <2>1. CASE UNCHANGED vars
    BY <1>1, <2>1 DEF Start, Goto, vars, TypeOK
  <2>2. CASE SerialStart
    BY <1>0, <1>1, <2>2, StartSerial
  <2> QED BY <2>1, <2>2
<1>2. ASSUME NEW c \in Calls, Register(c) PROVE SerialInv'
  BY <1>0, <1>2, RegisterSerial
<1>3. ASSUME NEW c \in Calls, Broadcast(c) PROVE SerialInv'
  BY <1>0, <1>3, BroadcastSerial
<1>4. ASSUME NEW m \in Mails, FindChannel(m) \/ Deliver(m) PROVE SerialInv'
  <2>1. \A c \in Calls : ~Broadcast(c)
    BY <1>4 DEF Broadcast, Goto, FindChannel, Deliver, calls, TypeOK
  <2>2. \A n \in Mails : Flying(n)' => Flying(n)
    BY <1>0, <2>1, NoneFliesAgain, MailOf
  <2> QED BY <1>0, <1>4, <2>2, FindSerial, DeliverSerial
<1>5. ASSUME NEW c \in Calls, Take(c) \/ Timeout(c) \/ Expire(c) PROVE SerialInv'
  <2>1. \A d \in Calls : ~Broadcast(d)
    BY <1>5 DEF Broadcast, Goto, Take, Timeout, Expire, TypeOK
  <2>2. \A n \in Mails : Flying(n)' => Flying(n)
    BY <1>0, <2>1, NoneFliesAgain, MailOf
  <2>3. /\ \A d \in Calls : pc'[d] \notin {"idle", "done"} => pc[d] \notin {"idle", "done"}
        /\ \A d \in Calls : pc'[d] = "send" => pc[d] = "send"
        /\ mail' = mail /\ target' = target
    BY <1>5 DEF Take, Timeout, Expire, Goto, TypeOK
  <2>4. channels' = channels \/ "read" \notin DOMAIN channels'
    BY <1>5 DEF Take, Timeout, Expire
  <2>5. /\ \A d \in Calls : buffer'[d] \subseteq buffer[d]
        /\ \A d \in Calls : result'[d] \in {result[d]} \cup buffer[d]
    BY <1>5 DEF Take, Timeout, Expire, TypeOK
  <2> QED BY <2>2, <2>3, <2>4, <2>5, SerialKept
<1>6. ASSUME UNCHANGED <<pc, channels, buffer, result, target>>,
             \A m \in Mails : mail'[m] = "found" => mail[m] = "found"
      PROVE  SerialInv'
  <2>1. \A c \in Calls : ~Broadcast(c)
    BY <1>6 DEF Broadcast, Goto, TypeOK
  <2>2. \A n \in Mails : Flying(n)' => Flying(n)
    BY <1>0, <2>1, NoneFliesAgain, MailOf
  <2> QED BY <1>6, <2>2, SerialKept
<1>7. ASSUME NEW m \in Mails, WriteBegin(m) \/ WriteEnd(m) \/ Answer(m) \/ Receive(m)
      PROVE  SerialInv'
  BY <1>6, <1>7
  DEF WriteBegin, WriteEnd, Answer, Receive, Move, Panic, calls, TypeOK
<1>8. ASSUME NEW p \in Peers,
             \/ Connect(p) \/ Break(p) \/ Visit(p) \/ Hearing(p)
             \/ Hear(p) \/ ServeBegin(p) \/ ServeEnd(p)
      PROVE  SerialInv'
  BY <1>6, <1>8
  DEF Connect, Break, Visit, Hearing, Listed, Touch, Leave, Hear, ServeBegin, ServeEnd,
      Panic, calls
<1>9. ASSUME Beat \/ ListRace \/ UNCHANGED vars PROVE SerialInv'
  BY <1>6, <1>9 DEF Beat, ListRace, Panic, calls, vars
<1> QED BY <1>1, <1>2, <1>3, <1>4, <1>5, <1>7, <1>8, <1>9 DEF Next, Return

\* SendTaskReq "waits for the first answer" (send_message.go): what it returns is what
\* was asked for, provided that no call begins while another that asks for another key
\* is under way, or any of its requests and answers that may still be read. Without it
\* this is false: the channel is registered under the task alone.
THEOREM AnswersMatch == SerialSpec => []AnswerMatches
<1>1. SerialInv => AnswerMatches
  BY DEF SerialInv, AnswerMatches
<1>2. [Next /\ SerialStart]_vars => [Next]_vars
  OBVIOUS
<1> QED BY <1>1, <1>2, InitTyped, TypeStep, InitHanded, HandedStep, InitSerial, SerialStep, PTL
    DEF SerialSpec
=============================================================================
