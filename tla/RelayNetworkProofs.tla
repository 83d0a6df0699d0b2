------------------------- MODULE RelayNetworkProofs -------------------------
(***************************************************************************)
(* The tables of the relay, for any number of connections to it and any    *)
(* bounds on lines and events: names are registered for open sockets only, *)
(* and bridges are paired.  And the controls of those who view a host's    *)
(* monitors, for any viewers and monitors: they show what the host does.   *)
(***************************************************************************)
EXTENDS MCRelayNetwork, SequenceTheorems, TLAPS

Relays ==
  [registered : [Devices -> Sockets \cup {None}], peerId : [Sockets -> Devices \cup {None}],
   bridge : [Sockets -> Sockets \cup {None}], raw : SUBSET Sockets, open : SUBSET Sockets]

\* m_registeredPeers and m_peerIds are inverse to each other, and of open sockets.
TablesAgree(r) ==
  /\ \A d \in Devices, s \in Sockets : r.registered[d] = s <=> r.peerId[s] = d
  /\ \A s \in Sockets : r.peerId[s] # None => s \in r.open

(* A bridge joins two sockets that are registered under different names.   *)
(* With only two names this is why the CONNECT of a socket that has no     *)
(* bridge never meets a target that has one.                               *)
BridgesJoin(r) ==
  \A s \in Sockets : LET t == r.bridge[s] IN
    t # None => /\ r.bridge[t] = s
                /\ r.peerId[s] # None /\ r.peerId[t] # None
                /\ r.peerId[s] # r.peerId[t]

RelayOK(r) == r \in Relays /\ TablesAgree(r) /\ BridgesJoin(r)

\* A socket is registered under the name of the device that made it.
OwnersAgree ==
  \A s \in Sockets :
    /\ s \in relay.open \cup mine => owner[s] # None
    /\ relay.peerId[s] # None => relay.peerId[s] = owner[s]

\* The host asks for no punch and no bridge.
MayAsk(d) == IF d = "ctrl" THEN Asks ELSE {"REGISTER", "END"}
OnlyControllerAsks == \A s \in Sockets : up[s] \in Seq(MayAsk(owner[s]))

\* The relay connection of a device is its own, and no session uses it.
ConnectionsApart ==
  /\ \A d \in Devices : nat[d].socket # None => nat[d].socket \in mine /\ owner[nat[d].socket] = d
  /\ session \in Sockets =>
       session \in mine /\ owner[session] = "ctrl" /\ session # nat["ctrl"].socket

IInv == TypeOK /\ RelayOK(relay) /\ OwnersAgree /\ OnlyControllerAsks /\ ConnectionsApart

-----------------------------------------------------------------------------
(* What the relay does to its tables.                                      *)

(* Sockets that end together with the other ends of their bridges take     *)
(* nothing of another socket along.                                        *)
LEMMA GoneKeeps ==
  ASSUME NEW r, RelayOK(r), NEW ends \in SUBSET Sockets,
         \A s \in ends : r.bridge[s] \in ends \cup {None}
  PROVE  RelayOK(Gone(r, ends))
<1> DEFINE g == Gone(r, ends)
<1>1. g \in Relays
  BY DEF Gone, Relays, RelayOK
<1>2. /\ \A s \in Sockets : g.peerId[s] = IF s \in ends THEN None ELSE r.peerId[s]
      /\ \A s \in Sockets : g.bridge[s] = IF s \in ends THEN None ELSE r.bridge[s]
      /\ \A d \in Devices : g.registered[d] = IF \E s \in ends : r.peerId[s] = d THEN None
                                              ELSE r.registered[d]
      /\ g.open = r.open \ ends
  BY DEF Gone
<1> HIDE DEF g
<1>3. TablesAgree(g)
  BY <1>1, <1>2, SocketAssumption DEF RelayOK, TablesAgree, Relays, Devices, None
<1>4. BridgesJoin(g)
  BY <1>1, <1>2, SocketAssumption DEF RelayOK, BridgesJoin, Relays, None
<1> QED
  BY <1>1, <1>3, <1>4 DEF RelayOK, g

(* REGISTER of a socket whose name nobody has any more, or it alone.       *)
LEMMA RegisteringKeeps ==
  ASSUME NEW r, RelayOK(r), NEW s \in Sockets, s \in r.open, owner[s] \in Devices,
         r.registered[owner[s]] \in {None, s}, r.peerId[s] \in {None, owner[s]}
  PROVE  RelayOK(Registering(r, s))
<1> DEFINE g == Registering(r, s)
<1>1. g \in Relays
  BY DEF Registering, Relays, RelayOK
<1>2. /\ \A t \in Sockets : g.peerId[t] = IF t = s THEN owner[s] ELSE r.peerId[t]
      /\ \A d \in Devices : g.registered[d] = IF d = owner[s] THEN s ELSE r.registered[d]
      /\ g.open = r.open /\ g.bridge = r.bridge
  BY DEF Registering, RelayOK, Relays
<1> HIDE DEF g
<1>3. TablesAgree(g)
  BY <1>1, <1>2, SocketAssumption DEF RelayOK, TablesAgree, Relays, Devices, None
<1>4. BridgesJoin(g)
  BY <1>1, <1>2, SocketAssumption DEF RelayOK, BridgesJoin, Relays, None, Devices
<1> QED
  BY <1>1, <1>3, <1>4 DEF RelayOK, g

(* CONNECT: who asks is registered as the controller, so a bridge of the   *)
(* host would be to the socket that asks.                                  *)
LEMMA ConnectKeeps ==
  ASSUME NEW s \in Sockets, RelayOK(relay), Connect(s),
         relay.peerId[s] = "ctrl", relay.bridge[s] = None, Target(s) # None
  PROVE  RelayOK(relay')
<1> DEFINE t == Target(s)
<1>1. t \in Sockets /\ relay.peerId[t] = "host" /\ t # s
  BY DEF RelayOK, Relays, TablesAgree, Target, Devices
<1>2. relay.bridge[t] = None
  <2> SUFFICES ASSUME relay.bridge[t] # None PROVE FALSE
    OBVIOUS
  <2> DEFINE u == relay.bridge[t]
  <2>1. u \in Sockets /\ relay.bridge[u] = t /\ relay.peerId[u] # None /\ relay.peerId[u] # "host"
    BY <1>1 DEF RelayOK, Relays, BridgesJoin
  <2>2. relay.peerId[u] = "ctrl"
    BY <2>1 DEF RelayOK, Relays, Devices
  <2>3. u = s
    BY <2>1, <2>2 DEF RelayOK, TablesAgree, Devices
  <2> QED
    BY <2>1, <2>3, <1>1, SocketAssumption DEF None
<1>3. relay' \in Relays
  BY <1>1 DEF Connect, RelayOK, Relays
<1>4. /\ relay'.peerId = relay.peerId /\ relay'.registered = relay.registered
      /\ relay'.open = relay.open
      /\ \A x \in Sockets : relay'.bridge[x] = IF x = t THEN s ELSE IF x = s THEN t
                                               ELSE relay.bridge[x]
  BY <1>1 DEF Connect, RelayOK, Relays
<1> HIDE DEF t
<1>5. TablesAgree(relay')
  BY <1>4 DEF RelayOK, TablesAgree
<1>6. BridgesJoin(relay')
  BY <1>1, <1>2, <1>3, <1>4, SocketAssumption DEF RelayOK, Relays, BridgesJoin, None
<1> QED
  BY <1>3, <1>5, <1>6 DEF RelayOK

LEMMA OpenKeeps ==
  ASSUME RelayOK(relay), NEW s \in Sockets, relay' = [relay EXCEPT !.open = @ \cup {s}]
  PROVE  RelayOK(relay')
BY DEF RelayOK, Relays, TablesAgree, BridgesJoin

LEMMA NoRelayOK == RelayOK(NoRelay)
BY SocketAssumption DEF RelayOK, Relays, TablesAgree, BridgesJoin, NoRelay, None, Devices

-----------------------------------------------------------------------------
(* What is under way between a device and the relay.                       *)

LEMMA ReadKeeps ==
  ASSUME IInv, NEW s \in Sockets, up[s] # <<>>
  PROVE  /\ Read(s) \in [Sockets -> Seq(Asks)]
         /\ \A x \in Sockets : Read(s)[x] \in Seq(MayAsk(owner[x]))
         /\ Head(up[s]) \in MayAsk(owner[s])
<1>1. Tail(up[s]) \in Seq(Asks) /\ Tail(up[s]) \in Seq(MayAsk(owner[s]))
      /\ Head(up[s]) \in MayAsk(owner[s])
  BY HeadTailProperties DEF IInv, TypeOK, OnlyControllerAsks
<1> QED
  BY <1>1 DEF IInv, TypeOK, OnlyControllerAsks, Read

LEMMA DroppedKeeps ==
  ASSUME NEW u \in [Sockets -> Seq(Asks)], \A x \in Sockets : u[x] \in Seq(MayAsk(owner[x])),
         NEW ends
  PROVE  /\ Dropped(u, ends) \in [Sockets -> Seq(Asks)]
         /\ \A x \in Sockets : Dropped(u, ends)[x] \in Seq(MayAsk(owner[x]))
BY EmptySeq DEF Dropped

LEMMA SentTyped ==
  ASSUME NEW lines \in [Sockets -> Seq(Answers)], NEW ends, NEW more \in Seq(Answers)
  PROVE  Sent(lines, ends, more) \in [Sockets -> Seq(Answers)]
BY ConcatProperties DEF Sent

LEMMA DroppedTyped ==
  ASSUME NEW lines \in [Sockets -> Seq(Answers)], NEW ends
  PROVE  Dropped(lines, ends) \in [Sockets -> Seq(Answers)]
BY EmptySeq DEF Dropped

(* A device that closes sockets of its own, none of them a relay connection *)
(* or the session, leaves everything else as it was.                       *)
LEMMA ClosingTyped ==
  ASSUME IInv, NEW ends, Closing(ends)
  PROVE  /\ mine' = mine \ ends /\ mine' \subseteq Sockets
         /\ up' \in [Sockets -> Seq(Asks)] /\ down' \in [Sockets -> Seq(Answers)]
         /\ \A x \in Sockets : up'[x] \in Seq(MayAsk(owner[x]))
<1>1. \A x \in Sockets : /\ Append(up[x], "END") \in Seq(Asks)
                         /\ Append(up[x], "END") \in Seq(MayAsk(owner[x]))
  BY DEF IInv, TypeOK, OnlyControllerAsks, Asks, MayAsk
<1>2. down' \in [Sockets -> Seq(Answers)]
  BY DroppedTyped DEF Closing, IInv, TypeOK
<1> QED
  BY <1>1, <1>2 DEF Closing, IInv, TypeOK, OnlyControllerAsks

-----------------------------------------------------------------------------
(* The steps of the relay.                                                 *)

(* What a step of the relay must do: the rest of the invariant speaks of   *)
(* devices.                                                                *)
RelayReadsStep ==
  /\ RelayOK(relay') /\ relay'.open \subseteq relay.open
  /\ \A s \in Sockets : relay'.peerId[s] \in {None, owner[s]}
  /\ up' \in [Sockets -> Seq(Asks)] /\ down' \in [Sockets -> Seq(Answers)]
  /\ \A s \in Sockets : up'[s] \in Seq(MayAsk(owner[s]))

LEMMA RelayStepKeeps ==
  ASSUME IInv, RelayReadsStep, secret' \in BOOLEAN, events' \in Nat,
         UNCHANGED <<owner, mine, nat, punching, controller, clients>>
  PROVE  IInv'
<1>1. TypeOK'
  BY DEF IInv, TypeOK, RelayReadsStep, RelayOK, Relays, controller
<1>2. OwnersAgree' /\ OnlyControllerAsks' /\ ConnectionsApart'
  BY DEF IInv, RelayReadsStep, OwnersAgree, OnlyControllerAsks, ConnectionsApart, controller
<1> QED
  BY <1>1, <1>2 DEF IInv, RelayReadsStep

LEMMA DisconnectedKeeps ==
  ASSUME IInv, NEW s \in Sockets, ClientDisconnected(s)
  PROVE  RelayReadsStep
<1> DEFINE ends == {s} \cup Mate(relay, s)
<1>1. ends \in SUBSET Sockets /\ \A x \in ends : relay.bridge[x] \in ends \cup {None}
  BY DEF IInv, RelayOK, Relays, BridgesJoin, Mate
<1>2. relay' = Gone(relay, ends) /\ up' = Dropped(up, ends)
      /\ down' = Sent(down, Mate(relay, s), <<"BRIDGE_CLOSED", "END">>)
  BY DEF ClientDisconnected
<1> HIDE DEF ends
<1>3. RelayOK(relay')
  BY <1>1, <1>2, GoneKeeps DEF IInv
<1>4. /\ relay'.open \subseteq relay.open
      /\ \A x \in Sockets : relay'.peerId[x] \in {None, owner[x]}
  BY <1>2 DEF Gone, IInv, OwnersAgree
<1>5. /\ up' \in [Sockets -> Seq(Asks)]
      /\ \A x \in Sockets : up'[x] \in Seq(MayAsk(owner[x]))
  BY <1>2, DroppedKeeps DEF IInv, TypeOK, OnlyControllerAsks
<1>6. <<"BRIDGE_CLOSED", "END">> \in Seq(Answers)
  BY DEF Answers
<1>7. down' \in [Sockets -> Seq(Answers)]
  BY <1>2, <1>6, SentTyped DEF IInv, TypeOK
<1> QED
  BY <1>3, <1>4, <1>5, <1>7 DEF RelayReadsStep

LEMMA RegisterKeeps ==
  ASSUME IInv, NEW s \in Sockets, s \in relay.open, up[s] # <<>>, relay.bridge[s] = None,
         Register(s)
  PROVE  RelayReadsStep
<1> DEFINE old == {relay.registered[owner[s]]} \ {None, s}
           mates == UNION {Mate(relay, o) : o \in old}
           ends == old \cup mates
           g == Gone(relay, ends)
<1>1. owner[s] \in Devices
  BY DEF IInv, OwnersAgree, TypeOK
<1>2. old \subseteq Sockets /\ s \notin old
  BY <1>1 DEF IInv, RelayOK, Relays
<1>3. mates \subseteq Sockets /\ s \notin mates
  BY <1>2, SocketAssumption DEF Mate, IInv, RelayOK, Relays, BridgesJoin, None
<1>4. \A x \in ends : relay.bridge[x] \in ends \cup {None}
  BY <1>2, <1>3 DEF Mate, IInv, RelayOK, Relays, BridgesJoin
<1>5. RelayOK(g)
  BY <1>2, <1>3, <1>4, GoneKeeps DEF IInv
<1>6. /\ g.open = relay.open \ ends
      /\ \A x \in Sockets : g.peerId[x] = IF x \in ends THEN None ELSE relay.peerId[x]
      /\ \A d \in Devices : g.registered[d] = IF \E x \in ends : relay.peerId[x] = d THEN None
                                              ELSE relay.registered[d]
  BY DEF Gone
<1>7. g.registered[owner[s]] \in {None, s}
  <2> DEFINE o == relay.registered[owner[s]]
  <2>1. CASE o \in {None, s}
    BY <1>1, <1>6, <2>1
  <2>2. CASE o \notin {None, s}
    <3>1. o \in ends /\ o \in Sockets
      BY <1>2, <2>2
    <3>2. relay.peerId[o] = owner[s]
      BY <1>1, <3>1 DEF IInv, RelayOK, TablesAgree
    <3> QED
      BY <1>1, <1>6, <3>1, <3>2
  <2> QED
    BY <2>1, <2>2
<1>8. s \in g.open /\ g.peerId[s] \in {None, owner[s]}
  BY <1>2, <1>3, <1>6 DEF IInv, OwnersAgree
<1>9. relay' = Registering(g, s)
  BY DEF Register, RegisteredAnew
<1>10. RelayOK(relay')
  BY <1>1, <1>5, <1>7, <1>8, <1>9, RegisteringKeeps
<1>11. /\ relay'.open \subseteq relay.open
       /\ \A x \in Sockets : relay'.peerId[x] \in {None, owner[x]}
  BY <1>5, <1>6, <1>9 DEF Registering, RelayOK, Relays, IInv, OwnersAgree
<1>12. /\ up' \in [Sockets -> Seq(Asks)]
       /\ \A x \in Sockets : up'[x] \in Seq(MayAsk(owner[x]))
  BY ReadKeeps, DroppedKeeps DEF Register
<1>13. /\ <<"KICKED", "END">> \in Seq(Answers) /\ <<"BRIDGE_CLOSED", "END">> \in Seq(Answers)
       /\ <<"REGISTERED">> \in Seq(Answers)
  BY DEF Answers
<1>14. Sent(down, old, <<"KICKED", "END">>) \in [Sockets -> Seq(Answers)]
  BY <1>13, SentTyped DEF IInv, TypeOK
<1>15. Sent(Sent(down, old, <<"KICKED", "END">>), mates, <<"BRIDGE_CLOSED", "END">>)
          \in [Sockets -> Seq(Answers)]
  BY <1>13, <1>14, SentTyped
<1>16. down' \in [Sockets -> Seq(Answers)]
  BY <1>13, <1>15, SentTyped DEF Register
<1> QED
  BY <1>10, <1>11, <1>12, <1>16 DEF RelayReadsStep

(* What only answers leaves the tables alone.                              *)
LEMMA AnswerKeeps ==
  ASSUME IInv, NEW s \in Sockets, up[s] # <<>>, NEW ends, NEW more \in Seq(Answers),
         up' = Read(s), down' = Sent(down, ends, more), UNCHANGED relay
  PROVE  RelayReadsStep
<1>1. /\ up' \in [Sockets -> Seq(Asks)]
      /\ \A x \in Sockets : up'[x] \in Seq(MayAsk(owner[x]))
  BY ReadKeeps
<1>2. down' \in [Sockets -> Seq(Answers)]
  BY SentTyped DEF IInv, TypeOK
<1> QED
  BY <1>1, <1>2 DEF RelayReadsStep, IInv, OwnersAgree

LEMMA RelayReadsKeeps ==
  ASSUME IInv, NEW s \in Sockets, RelayReads(s)
  PROVE  IInv'
<1> DEFINE line == Head(up[s])
<1>1. s \in relay.open /\ up[s] # <<>>
  BY DEF RelayReads
<1>2. \A l \in Answers : <<l>> \in Seq(Answers)
  OBVIOUS
<1>3. RelayReadsStep
  <2>1. CASE ClientDisconnected(s)
    BY <2>1, DisconnectedKeeps
  <2>2. CASE Forward(s)
    BY <1>1, <1>2, <2>2, AnswerKeeps DEF Forward, Answers
  <2>3. CASE relay.bridge[s] = None /\ Register(s)
    BY <1>1, <2>3, RegisterKeeps
  <2>4. CASE Answer(s, <<"AUTH_FAILED">>) \/ Answer(s, <<"NOT_FOUND">>)
    BY <1>1, <1>2, <2>4, AnswerKeeps DEF Answer, Answers
  <2>5. CASE line = "CONNECT" /\ relay.bridge[s] = None /\ ~NotFound(s) /\ Connect(s)
    <3>1. owner[s] = "ctrl" /\ relay.peerId[s] = "ctrl"
      BY <1>1, <2>5, ReadKeeps DEF MayAsk, NotFound, IInv, OwnersAgree
    <3>2. Target(s) \in Sockets
      BY <2>5 DEF NotFound, Target, IInv, RelayOK, Relays, Devices
    <3>3. RelayOK(relay')
      BY <2>5, <3>1, ConnectKeeps DEF NotFound, IInv
    <3>4. relay'.open = relay.open /\ relay'.peerId = relay.peerId
      BY <2>5, <3>2 DEF Connect, IInv, RelayOK, Relays
    <3>5. <<"BRIDGE">> \in Seq(Answers)
      BY <1>2 DEF Answers
    <3>6. down' \in [Sockets -> Seq(Answers)]
      BY <2>5, <3>5, SentTyped DEF Connect, IInv, TypeOK
    <3>7. /\ up' \in [Sockets -> Seq(Asks)]
          /\ \A x \in Sockets : up'[x] \in Seq(MayAsk(owner[x]))
      BY <1>1, <2>5, ReadKeeps DEF Connect
    <3> QED
      BY <3>3, <3>4, <3>6, <3>7 DEF RelayReadsStep, IInv, OwnersAgree
  <2>6. CASE Punch(s)
    BY <1>1, <1>2, <2>6, AnswerKeeps DEF Punch, Answers
  <2> QED
    BY <2>1, <2>2, <2>3, <2>4, <2>5, <2>6 DEF RelayReads
<1> QED
  BY <1>3, RelayStepKeeps DEF RelayReads, IInv, TypeOK

-----------------------------------------------------------------------------
(* The steps of the devices.                                               *)

\* What is under way stays what each end may write.
LinesKept ==
  /\ up' \in [Sockets -> Seq(Asks)] /\ down' \in [Sockets -> Seq(Answers)]
  /\ \A s \in Sockets : up'[s] \in Seq(MayAsk(owner[s]))

DevicesTyped ==
  /\ secret \in BOOLEAN /\ mine \subseteq Sockets
  /\ nat \in [Devices -> [state : States, socket : Sockets \cup {None}, timer : BOOLEAN]]
  /\ punching \subseteq Devices /\ clients \subseteq Sockets
  /\ p2p \in BOOLEAN /\ active \in BOOLEAN /\ pending \in BOOLEAN /\ safety \in BOOLEAN
  /\ session \in Sockets \cup {None, Direct}
  /\ events \in Nat

LEMMA DeviceStepKeeps ==
  ASSUME IInv, UNCHANGED <<relay, owner>>, mine' \subseteq mine,
         LinesKept, DevicesTyped', ConnectionsApart'
  PROVE  IInv'
BY DEF IInv, TypeOK, LinesKept, DevicesTyped, RelayOK, TablesAgree, BridgesJoin, OwnersAgree,
       OnlyControllerAsks

LEMMA WritesKeeps ==
  ASSUME IInv, NEW s \in Sockets, NEW l \in MayAsk(owner[s])
  PROVE  /\ up[s] \o <<l>> \in Seq(Asks) /\ up[s] \o <<l>> \in Seq(MayAsk(owner[s]))
         /\ Append(up[s], l) \in Seq(Asks) /\ Append(up[s], l) \in Seq(MayAsk(owner[s]))
<1>1. l \in Asks /\ up[s] \in Seq(Asks) /\ up[s] \in Seq(MayAsk(owner[s]))
  BY DEF IInv, TypeOK, OnlyControllerAsks, MayAsk, Asks
<1>2. <<l>> \in Seq(Asks) /\ <<l>> \in Seq(MayAsk(owner[s]))
  BY <1>1
<1> QED
  BY <1>1, <1>2, ConcatProperties

LEMMA TailTyped ==
  ASSUME IInv, NEW s \in Sockets, down[s] # <<>>
  PROVE  [down EXCEPT ![s] = Tail(@)] \in [Sockets -> Seq(Answers)]
<1>1. Tail(down[s]) \in Seq(Answers)
  BY HeadTailProperties DEF IInv, TypeOK
<1> QED
  BY <1>1 DEF IInv, TypeOK

LEMMA ConnectToRelayKeeps ==
  ASSUME IInv, NEW d \in Devices, ConnectToRelay(d),
         UNCHANGED <<secret, punching, active, session, clients>>,
         p2p' \in BOOLEAN, pending' \in BOOLEAN, safety' \in BOOLEAN, events' \in Nat
  PROVE  IInv'
<1>1. LinesKept
  BY ClosingTyped DEF ConnectToRelay, LinesKept
<1>2. DevicesTyped'
  BY ClosingTyped DEF ConnectToRelay, DevicesTyped, IInv, TypeOK, States
<1>3. ConnectionsApart'
  BY ClosingTyped, SocketAssumption DEF ConnectToRelay, ConnectionsApart, IInv, TypeOK, None, Devices
<1> QED
  BY <1>1, <1>2, <1>3, ClosingTyped, DeviceStepKeeps DEF ConnectToRelay

LEMMA ConnectedKeeps ==
  ASSUME IInv, NEW d \in Devices, Connected(d)
  PROVE  IInv'
<1>1. PICK s \in Free :
        /\ mine' = mine \cup {s} /\ owner' = [owner EXCEPT ![s] = d]
        /\ relay' = [relay EXCEPT !.open = @ \cup {s}]
        /\ up' = [up EXCEPT ![s] = <<"REGISTER">>]
        /\ nat' = [nat EXCEPT ![d].socket = s]
  BY DEF Connected
<1>2. s \in Sockets /\ s \notin mine /\ s \notin relay.open
  BY DEF Free
<1>3. UNCHANGED <<down, secret, punching, controller, clients, events>>
  BY DEF Connected
<1>4. RelayOK(relay')
  BY <1>1, <1>2, OpenKeeps DEF IInv
<1>5. <<"REGISTER">> \in Seq(Asks) /\ <<"REGISTER">> \in Seq(MayAsk(d))
  <2>1. "REGISTER" \in Asks /\ "REGISTER" \in MayAsk(d)
    BY DEF Asks, MayAsk
  <2> QED
    BY <2>1
<1>6. TypeOK'
  <2>1. relay' \in Relays
    BY <1>4 DEF RelayOK
  <2>2. up' \in [Sockets -> Seq(Asks)] /\ mine' \subseteq Sockets
        /\ owner' \in [Sockets -> Devices \cup {None}]
    BY <1>1, <1>2, <1>5 DEF IInv, TypeOK
  <2>3. nat' \in [Devices -> [state : States, socket : Sockets \cup {None}, timer : BOOLEAN]]
    BY <1>1, <1>2 DEF IInv, TypeOK
  <2> QED
    BY <1>3, <2>1, <2>2, <2>3 DEF IInv, TypeOK, Relays, controller
<1>7. OwnersAgree'
  <2>1. relay.peerId[s] = None
    BY <1>2 DEF IInv, RelayOK, TablesAgree
  <2>2. relay'.open = relay.open \cup {s} /\ relay'.peerId = relay.peerId
    BY <1>1 DEF IInv, RelayOK, Relays
  <2>3. d # None
    BY DEF Devices, None
  <2> QED
    BY <1>1, <1>2, <2>1, <2>2, <2>3 DEF IInv, OwnersAgree, TypeOK
<1>8. OnlyControllerAsks'
  BY <1>1, <1>2, <1>5 DEF IInv, OnlyControllerAsks, TypeOK
<1>9. ConnectionsApart'
  BY <1>1, <1>2, <1>3 DEF IInv, ConnectionsApart, TypeOK, controller
<1> QED
  BY <1>4, <1>6, <1>7, <1>8, <1>9 DEF IInv

Connections == [state : States, socket : Sockets \cup {None}, timer : BOOLEAN]

LEMMA ConnectionTyped ==
  ASSUME IInv, NEW d \in Devices, NEW state \in States, NEW c \in Connections
  PROVE  /\ [nat EXCEPT ![d].state = state] \in [Devices -> Connections]
         /\ [nat EXCEPT ![d].state = state, ![d].socket = None] \in [Devices -> Connections]
         /\ [nat EXCEPT ![d] = c] \in [Devices -> Connections]
BY DEF IInv, TypeOK, Connections

LEMMA WrittenKeeps ==
  ASSUME IInv, NEW s \in Sockets, NEW l \in MayAsk(owner[s]),
         up' \in {up, [up EXCEPT ![s] = up[s] \o <<l>>]}, down' \in [Sockets -> Seq(Answers)]
  PROVE  LinesKept
<1>1. CASE up' = up
  BY <1>1 DEF LinesKept, IInv, TypeOK, OnlyControllerAsks
<1>2. CASE up' = [up EXCEPT ![s] = up[s] \o <<l>>]
  BY <1>2, WritesKeeps DEF LinesKept, IInv, TypeOK, OnlyControllerAsks
<1> QED
  BY <1>1, <1>2

LEMMA ControlReadsKeeps ==
  ASSUME IInv, NEW s \in Sockets, s \in mine, down[s] # <<>>, nat[owner[s]].socket = s,
         ControlReads(s), UNCHANGED <<relay, secret, owner, pending, events>>
  PROVE  IInv'
<1> DEFINE d == owner[s]
           line == Head(down[s])
           tail == [down EXCEPT ![s] = Tail(@)]
<1>1. d \in Devices
  BY DEF IInv, TypeOK, OwnersAgree
<1>2. tail \in [Sockets -> Seq(Answers)]
  BY TailTyped
<1>3. /\ \A l \in MayAsk(d) : /\ up[s] \o <<l>> \in Seq(Asks)
                             /\ up[s] \o <<l>> \in Seq(MayAsk(d))
      /\ \A x \in Sockets : /\ Append(up[x], "END") \in Seq(Asks)
                            /\ Append(up[x], "END") \in Seq(MayAsk(owner[x]))
      /\ "PUNCH" \in MayAsk("ctrl") /\ "CONNECT" \in MayAsk("ctrl")
  BY WritesKeeps DEF MayAsk, Asks
<1>4. LinesKept /\ DevicesTyped' /\ ConnectionsApart' /\ mine' \subseteq mine
  <2>1. CASE line = "REGISTERED"
    <3>1. /\ nat' = [nat EXCEPT ![d].state = "Registered"] /\ down' = tail
          /\ up' \in {up, [up EXCEPT ![s] = up[s] \o <<"PUNCH">>]}
          /\ up' = up \/ d = "ctrl"
          /\ safety' \in {safety, TRUE}
          /\ UNCHANGED <<mine, punching, p2p, active, session, clients>>
      BY <2>1 DEF ControlReads, IInv, TypeOK
    <3>2. LinesKept
      BY <1>2, <1>3, <3>1, WrittenKeeps DEF LinesKept, IInv, TypeOK, OnlyControllerAsks
    <3>3. DevicesTyped'
      BY <1>1, <3>1, ConnectionTyped DEF DevicesTyped, Connections, IInv, TypeOK, States
    <3>4. ConnectionsApart'
      BY <1>1, <3>1 DEF ConnectionsApart, IInv, TypeOK
    <3> QED
      BY <3>1, <3>2, <3>3, <3>4
  <2>2. CASE line = "PEER_ADDR"
    BY <1>1, <1>2, <2>2 DEF ControlReads, LinesKept, OnlyControllerAsks, DevicesTyped,
                            ConnectionsApart, IInv, TypeOK
  <2>3. CASE line = "BRIDGE" /\ d = "ctrl"
    <3>1. /\ nat' = [nat EXCEPT ![d].state = "Disconnected", ![d].socket = None]
          /\ session' = s /\ active' = TRUE /\ p2p' = FALSE
          /\ mine' = mine \ {session}
          /\ up' = [x \in Sockets |-> IF x = session /\ x \in mine \cap relay.open
                                     THEN Append(up[x], "END") ELSE up[x]]
          /\ down' = Dropped(tail, {session})
          /\ UNCHANGED <<punching, safety, clients>>
      BY <2>3 DEF ControlReads
    <3>2. LinesKept
      BY <1>2, <1>3, <3>1, DroppedTyped DEF LinesKept, IInv, TypeOK, OnlyControllerAsks
    <3>3. DevicesTyped'
      BY <1>1, <3>1, ConnectionTyped DEF DevicesTyped, Connections, IInv, TypeOK, States
    <3>4. ConnectionsApart'
      BY <1>1, <2>3, <3>1, SocketAssumption DEF ConnectionsApart, IInv, TypeOK, None, Devices
    <3> QED
      BY <3>1, <3>2, <3>3, <3>4
  <2>4. CASE line = "BRIDGE" /\ d = "host"
    BY <1>1, <1>2, <2>4, SocketAssumption
    DEF ControlReads, LinesKept, OnlyControllerAsks, DevicesTyped, ConnectionsApart, IInv, TypeOK,
        States, None, Devices
  <2>5. CASE line = "NOT_FOUND"
    <3>1. /\ down' = tail /\ p2p' \in BOOLEAN
          /\ up' \in {up, [up EXCEPT ![s] = up[s] \o <<"CONNECT">>]}
          /\ up' = up \/ d = "ctrl"
          /\ UNCHANGED <<mine, nat, punching, active, session, safety, clients>>
      BY <2>5 DEF ControlReads, IInv, TypeOK
    <3>2. LinesKept
      BY <1>2, <1>3, <3>1, WrittenKeeps DEF LinesKept, IInv, TypeOK, OnlyControllerAsks
    <3>3. DevicesTyped' /\ ConnectionsApart'
      BY <3>1 DEF DevicesTyped, ConnectionsApart, IInv, TypeOK
    <3> QED
      BY <3>1, <3>2, <3>3
  <2>6. CASE line \in {"AUTH_FAILED", "BRIDGE_CLOSED"}
    <3>1. PICK state \in {"Error", "Disconnected"} :
          /\ nat' = [nat EXCEPT ![d].state = state]
          /\ down' = tail /\ UNCHANGED <<up, mine, punching, p2p, active, session, safety, clients>>
      BY <2>6 DEF ControlReads
    <3>2. LinesKept
      BY <1>2, <3>1 DEF LinesKept, IInv, TypeOK, OnlyControllerAsks
    <3>3. DevicesTyped'
      BY <1>1, <3>1, ConnectionTyped DEF DevicesTyped, Connections, IInv, TypeOK, States
    <3>4. ConnectionsApart'
      BY <1>1, <3>1 DEF ConnectionsApart, IInv, TypeOK
    <3> QED
      BY <3>1, <3>2, <3>3, <3>4
  <2>7. CASE line \in {"KICKED", "END"}
    <3>1. /\ nat' = [nat EXCEPT ![d] = [state |-> "Disconnected", socket |-> None, timer |-> TRUE]]
          /\ p2p' \in BOOLEAN /\ UNCHANGED <<punching, active, session, safety, clients>>
          /\ \/ Closing({s})
             \/ mine' = mine \ {s} /\ down' = Dropped(down, {s}) /\ UNCHANGED up
      BY <2>7 DEF ControlReads, IInv, TypeOK
    <3>2. LinesKept /\ mine' = mine \ {s}
      <4>1. CASE Closing({s})
        BY <4>1, ClosingTyped DEF LinesKept
      <4>2. CASE mine' = mine \ {s} /\ down' = Dropped(down, {s}) /\ UNCHANGED up
        BY <4>2, DroppedTyped DEF LinesKept, IInv, TypeOK, OnlyControllerAsks
      <4> QED
        BY <3>1, <4>1, <4>2
    <3>3. DevicesTyped'
      BY <1>1, <3>1, <3>2 DEF DevicesTyped, IInv, TypeOK, States
    <3>4. ConnectionsApart'
      BY <1>1, <2>7, <3>1, <3>2, SocketAssumption DEF ConnectionsApart, IInv, TypeOK, None, Devices
    <3> QED
      BY <3>2, <3>3, <3>4
  <2> QED
    BY <2>1, <2>2, <2>3, <2>4, <2>5, <2>6, <2>7 DEF ControlReads
<1> QED
  BY <1>4, DeviceStepKeeps

LEMMA SessionReadsKeeps ==
  ASSUME IInv, NEW s \in Sockets, s \in mine, down[s] # <<>>, nat[owner[s]].socket # s,
         SessionReads(s), UNCHANGED <<relay, secret, owner, pending, events>>
  PROVE  IInv'
<1>1. owner[s] \in Devices
  BY DEF IInv, TypeOK, OwnersAgree
<1>2. LinesKept
  <2>1. down' \in [Sockets -> Seq(Answers)]
    <3>1. CASE down' = Dropped(down, {s})
      BY <3>1, DroppedTyped DEF IInv, TypeOK
    <3>2. CASE down' = [down EXCEPT ![s] = Tail(@)]
      BY <3>2, TailTyped
    <3> QED
      BY <3>1, <3>2 DEF SessionReads
  <2> QED
    BY <2>1 DEF SessionReads, LinesKept, IInv, TypeOK, OnlyControllerAsks
<1>3. DevicesTyped' /\ mine' \subseteq mine
  BY DEF SessionReads, DevicesTyped, IInv, TypeOK
<1>4. ConnectionsApart'
  BY <1>1, SocketAssumption DEF SessionReads, ConnectionsApart, IInv, TypeOK, None
<1> QED
  BY <1>2, <1>3, <1>4, DeviceStepKeeps

-----------------------------------------------------------------------------
(* Timers, users and failures.                                             *)

LEMMA AsksKeeps ==
  ASSUME IInv, NEW l \in {"PUNCH", "CONNECT"}, NEW more \in SUBSET {nat["ctrl"].socket},
         up' = [x \in Sockets |-> IF x \in more THEN Append(up[x], l) ELSE up[x]],
         UNCHANGED <<relay, down, secret, owner, mine, nat, active, session, clients>>,
         punching' \subseteq Devices, p2p' \in BOOLEAN, pending' \in BOOLEAN,
         safety' \in BOOLEAN, events' \in Nat
  PROVE  IInv'
<1>1. \A x \in more \cap Sockets : l \in MayAsk(owner[x])
  BY SocketAssumption DEF IInv, ConnectionsApart, MayAsk, Asks, Devices, None
<1>2. LinesKept
  BY <1>1, WritesKeeps DEF LinesKept, IInv, TypeOK, OnlyControllerAsks
<1>3. DevicesTyped' /\ ConnectionsApart'
  BY DEF DevicesTyped, ConnectionsApart, IInv, TypeOK
<1> QED
  BY <1>2, <1>3, DeviceStepKeeps

LEMMA FallbackKeeps ==
  ASSUME IInv, FallbackToRelay,
         UNCHANGED <<relay, down, secret, owner, mine, nat, active, session, pending, clients, events>>,
         punching' \subseteq Devices, safety' \in BOOLEAN
  PROVE  IInv'
<1> DEFINE more == {x \in Sockets : /\ nat["ctrl"].state = "Registered"
                                   /\ x = nat["ctrl"].socket /\ x \in relay.open}
<1>1. up' = [x \in Sockets |-> IF x \in more THEN Append(up[x], "CONNECT") ELSE up[x]]
  BY DEF FallbackToRelay
<1>2. p2p' \in BOOLEAN
  BY DEF FallbackToRelay
<1> QED
  BY <1>1, <1>2, AsksKeeps DEF IInv, TypeOK

LEMMA SessionEndsKeeps ==
  ASSUME IInv, Closing({session}), session' \in {None, Direct},
         UNCHANGED <<relay, secret, owner, nat, pending, clients>>,
         punching' \subseteq Devices, p2p' \in BOOLEAN, active' \in BOOLEAN,
         safety' \in BOOLEAN, events' \in Nat
  PROVE  IInv'
<1>1. LinesKept /\ mine' = mine \ {session}
  BY ClosingTyped DEF LinesKept
<1>2. DevicesTyped'
  BY <1>1 DEF DevicesTyped, IInv, TypeOK
<1>3. ConnectionsApart'
  BY <1>1, SocketAssumption DEF ConnectionsApart, IInv, TypeOK, None, Direct, Devices
<1> QED
  BY <1>1, <1>2, <1>3, DeviceStepKeeps

LEMMA StepKeeps == IInv /\ [Next]_vars => IInv'
<1> SUFFICES ASSUME IInv, [Next]_vars PROVE IInv'
  OBVIOUS
<1>1. ASSUME NEW s \in Sockets, RelayReads(s) PROVE IInv'
  BY <1>1, RelayReadsKeeps
<1>2. ASSUME NEW s \in Sockets, DeviceReads(s) PROVE IInv'
  BY <1>2, ControlReadsKeeps, SessionReadsKeeps DEF DeviceReads
<1>3. ASSUME NEW s \in Sockets, ConnectionFails(s) PROVE IInv'
  <2>1. /\ up' = [up EXCEPT ![s] = <<"END">>] /\ down' = [down EXCEPT ![s] = <<"END">>]
        /\ UNCHANGED <<relay, secret, owner, mine, nat, punching, controller, clients>>
        /\ events' \in Nat
    BY <1>3 DEF ConnectionFails, Fault, IInv, TypeOK
  <2>2. /\ <<"END">> \in Seq(Asks) /\ <<"END">> \in Seq(Answers)
        /\ \A d : <<"END">> \in Seq(MayAsk(d))
    <3>1. "END" \in Asks /\ "END" \in Answers /\ \A d : "END" \in MayAsk(d)
      BY DEF Asks, Answers, MayAsk
    <3> QED
      BY <3>1
  <2>3. LinesKept
    BY <2>1, <2>2 DEF LinesKept, IInv, TypeOK, OnlyControllerAsks
  <2>4. DevicesTyped' /\ ConnectionsApart'
    BY <2>1 DEF DevicesTyped, ConnectionsApart, IInv, TypeOK, controller
  <2> QED
    BY <2>1, <2>3, <2>4, DeviceStepKeeps
<1>4. ASSUME NEW d \in Devices, Connected(d) PROVE IInv'
  BY <1>4, ConnectedKeeps
<1>5. ASSUME NEW d \in Devices, ConnectFails(d) PROVE IInv'
  <2>1. /\ nat' = [nat EXCEPT ![d].state = "Error"] /\ p2p' \in BOOLEAN
        /\ UNCHANGED <<network, secret, owner, mine, punching, active, session, pending, safety,
                       clients, events>>
    BY <1>5 DEF ConnectFails, IInv, TypeOK
  <2>2. LinesKept
    BY <2>1 DEF LinesKept, IInv, TypeOK, OnlyControllerAsks, network
  <2>3. DevicesTyped'
    BY <2>1, ConnectionTyped DEF DevicesTyped, Connections, IInv, TypeOK, States
  <2>4. ConnectionsApart'
    BY <2>1 DEF ConnectionsApart, IInv, TypeOK
  <2> QED
    BY <2>1, <2>2, <2>3, <2>4, DeviceStepKeeps DEF network
<1>6. ASSUME NEW d \in Devices, ReconnectTimer(d) PROVE IInv'
  BY <1>6, ConnectToRelayKeeps DEF ReconnectTimer, controller, IInv, TypeOK
<1>7. ASSUME NEW d \in Devices, PunchSucceeds(d) PROVE IInv'
  <2>1. CASE d = "ctrl"
    BY <1>7, <2>1, SessionEndsKeeps DEF PunchSucceeds, IInv, TypeOK
  <2>2. CASE d # "ctrl"
    <3>1. /\ punching' \subseteq punching
          /\ UNCHANGED <<relay, p2p, active, session, safety, mine, up, down, secret, owner, nat,
                         pending, clients, events>>
      BY <1>7, <2>2 DEF PunchSucceeds
    <3>2. LinesKept /\ DevicesTyped' /\ ConnectionsApart'
      BY <3>1 DEF LinesKept, DevicesTyped, ConnectionsApart, IInv, TypeOK, OnlyControllerAsks
    <3> QED
      BY <3>1, <3>2, DeviceStepKeeps
  <2> QED
    BY <2>1, <2>2
<1>8. ASSUME NEW d \in Devices, PunchTimeout(d) PROVE IInv'
  <2>1. CASE d = "ctrl"
    BY <1>8, <2>1, FallbackKeeps DEF PunchTimeout, IInv, TypeOK
  <2>2. CASE d # "ctrl"
    <3>1. /\ punching' \subseteq punching
          /\ UNCHANGED <<relay, p2p, active, session, safety, mine, up, down, secret, owner, nat,
                         pending, clients, events>>
      BY <1>8, <2>2 DEF PunchTimeout
    <3>2. LinesKept /\ DevicesTyped' /\ ConnectionsApart'
      BY <3>1 DEF LinesKept, DevicesTyped, ConnectionsApart, IInv, TypeOK, OnlyControllerAsks
    <3> QED
      BY <3>1, <3>2, DeviceStepKeeps
  <2> QED
    BY <2>1, <2>2
<1>9. CASE RelayFallbackTimeout
  BY <1>9, FallbackKeeps DEF RelayFallbackTimeout, IInv, TypeOK
<1>10. CASE StartRemote
  <2>1. events' \in Nat /\ UNCHANGED <<secret, punching, active, session, clients>>
        /\ p2p' \in BOOLEAN /\ pending' \in BOOLEAN
    BY <1>10 DEF StartRemote, User, IInv, TypeOK
  <2>2. CASE nat["ctrl"].state = "Registered"
    <3> DEFINE more == {x \in Sockets : x = nat["ctrl"].socket /\ x \in relay.open}
    <3>1. /\ up' = [x \in Sockets |-> IF x \in more THEN Append(up[x], "PUNCH") ELSE up[x]]
          /\ safety' \in BOOLEAN /\ UNCHANGED <<relay, down, owner, mine, nat>>
      BY <1>10, <2>2 DEF StartRemote
    <3> QED
      BY <2>1, <3>1, AsksKeeps DEF IInv, TypeOK
  <2>3. CASE nat["ctrl"].state # "Registered"
    <3>1. ConnectToRelay("ctrl") /\ safety' \in BOOLEAN
      BY <1>10, <2>3 DEF StartRemote, IInv, TypeOK
    <3> QED
      BY <2>1, <3>1, ConnectToRelayKeeps DEF Devices
  <2> QED
    BY <2>2, <2>3
<1>11. CASE StopRemote
  <2>1. /\ Closing({session}) /\ session' \in {None, Direct} /\ punching' \subseteq Devices
        /\ p2p' \in BOOLEAN /\ active' \in BOOLEAN /\ safety' \in BOOLEAN /\ events' \in Nat
        /\ UNCHANGED <<relay, secret, owner, nat, pending, clients>>
    <3>1. events' = events + 1 /\ UNCHANGED secret
      BY <1>11 DEF StopRemote, User
    <3>2. /\ Closing({session}) /\ session' = None /\ punching' = punching \ {"ctrl"}
          /\ p2p' = FALSE /\ active' = FALSE /\ safety' = FALSE
          /\ UNCHANGED <<relay, owner, nat, pending, clients>>
      BY <1>11 DEF StopRemote
    <3>3. punching' \subseteq Devices /\ events' \in Nat
      BY <3>1, <3>2 DEF IInv, TypeOK
    <3> QED
      BY <3>1, <3>2, <3>3
  <2> QED
    BY <2>1, SessionEndsKeeps
<1>12. CASE HostConnects
  <2>1. /\ "host" \in Devices /\ ConnectToRelay("host") /\ events' \in Nat
        /\ UNCHANGED <<secret, punching, controller, clients>>
    BY <1>12 DEF HostConnects, User, Devices, IInv, TypeOK
  <2> QED
    BY <2>1, ConnectToRelayKeeps DEF controller, IInv, TypeOK
<1>13. CASE HostDisconnects
  <2>1. /\ nat' = [nat EXCEPT !["host"] = [Idle EXCEPT !.timer = nat["host"].socket \in mine]]
        /\ Closing({nat["host"].socket}) /\ events' \in Nat
        /\ UNCHANGED <<secret, relay, owner, punching, controller, clients>>
    BY <1>13 DEF HostDisconnects, User, IInv, TypeOK
  <2>2. LinesKept /\ mine' = mine \ {nat["host"].socket}
    BY <2>1, ClosingTyped DEF LinesKept
  <2>3. DevicesTyped'
    <3>1. [Idle EXCEPT !.timer = nat["host"].socket \in mine] \in Connections
      <4> DEFINE b == nat["host"].socket \in mine
      <4>1. b \in BOOLEAN
        OBVIOUS
      <4> HIDE DEF b
      <4>2. [Idle EXCEPT !.timer = b] \in Connections
        BY <4>1 DEF Idle, Connections, States
      <4> QED
        BY <4>2 DEF b
    <3>2. nat' \in [Devices -> Connections]
      BY <2>1, <3>1, ConnectionTyped DEF Devices, States
    <3> QED
      BY <2>1, <2>2, <3>2 DEF DevicesTyped, Connections, IInv, TypeOK, controller
  <2>4. ConnectionsApart'
    BY <2>1, <2>2, SocketAssumption
    DEF ConnectionsApart, IInv, TypeOK, None, Devices, Idle, controller
  <2> QED
    BY <2>1, <2>2, <2>3, <2>4, DeviceStepKeeps
<1>14. CASE RelayRestarts
  <2>1. /\ relay' = NoRelay /\ up' = Dropped(up, Sockets)
        /\ down' = Sent(down, relay.open, <<"END">>) /\ events' \in Nat
        /\ UNCHANGED <<secret, owner, mine, nat, punching, controller, clients>>
    BY <1>14 DEF RelayRestarts, Fault, IInv, TypeOK
  <2>2. <<"END">> \in Seq(Answers)
    BY DEF Answers
  <2>3. down' \in [Sockets -> Seq(Answers)]
    BY <2>1, <2>2, SentTyped DEF IInv, TypeOK
  <2>4. /\ up' \in [Sockets -> Seq(Asks)]
        /\ \A x \in Sockets : up'[x] \in Seq(MayAsk(owner[x]))
    BY <2>1, DroppedKeeps DEF IInv, TypeOK, OnlyControllerAsks
  <2>5. RelayReadsStep
    BY <2>1, <2>3, <2>4, NoRelayOK DEF RelayReadsStep, NoRelay
  <2> QED
    BY <2>1, <2>5, RelayStepKeeps DEF IInv, TypeOK
<1>15. CASE UNCHANGED vars
  <2>1. UNCHANGED <<relay, up, down, owner, mine, nat, session, secret, punching, p2p, active,
                    pending, safety, clients, events>>
    BY <1>15 DEF vars, network, controller
  <2>2. LinesKept /\ DevicesTyped' /\ ConnectionsApart'
    BY <2>1 DEF LinesKept, DevicesTyped, ConnectionsApart, IInv, TypeOK, OnlyControllerAsks
  <2> QED
    BY <2>1, <2>2, DeviceStepKeeps
<1> QED
  BY <1>1, <1>2, <1>3, <1>4, <1>5, <1>6, <1>7, <1>8, <1>9, <1>10, <1>11, <1>12, <1>13, <1>14,
     <1>15 DEF Next

LEMMA InitOK == Init => IInv
<1> SUFFICES ASSUME Init PROVE IInv
  OBVIOUS
<1>1. RelayOK(relay)
  BY NoRelayOK DEF Init
<1>2. TypeOK
  <2>1. relay \in Relays
    BY <1>1 DEF RelayOK
  <2>2. nat \in [Devices -> Connections]
    BY DEF Init, Connections, Idle, States
  <2> QED
    BY <2>1, <2>2, EmptySeq DEF Init, TypeOK, Relays, Connections
<1>3. OwnersAgree /\ OnlyControllerAsks
  BY EmptySeq DEF Init, OwnersAgree, OnlyControllerAsks, NoRelay
<1>4. ConnectionsApart
  BY SocketAssumption DEF Init, ConnectionsApart, Idle, None, Devices
<1> QED
  BY <1>1, <1>2, <1>3, <1>4 DEF IInv

-----------------------------------------------------------------------------
(* However registrations, kicks, ends and restarts of the relay overtake   *)
(* each other, m_registeredPeers and m_peerIds agree, and name only open   *)
(* sockets (REGISTER, relay_server.cpp:211; onClientDisconnected, :155).   *)
THEOREM Registrations == Spec => [](TypeOK /\ RegisteredIsOpen)
<1>1. IInv => TypeOK /\ RegisteredIsOpen
  BY DEF IInv, RelayOK, TablesAgree, RegisteredIsOpen, Devices, None
<1> QED
  BY <1>1, InitOK, StepKeeps, PTL DEF Spec

(* The two ends of a bridge point at each other and end together, with one *)
(* controller (CONNECT, relay_server.cpp:237; onClientDisconnected, :175). *)
THEOREM Bridges == Spec => []BridgesPaired
<1>1. IInv => BridgesPaired
  BY DEF IInv, RelayOK, Relays, TablesAgree, BridgesJoin, BridgesPaired
<1> QED
  BY <1>1, InitOK, StepKeeps, PTL DEF Spec

-----------------------------------------------------------------------------
(* MonitorSwitch: what the controls of the viewers show.                   *)

Kinds == {"list", "ack", "status"}
Requests == {"list", "switch", "start", "stop", "pause", "resume", "config"}
Fields == {"told", "heard", "pressed", "count", "current", "switching"}

IsLine(q) == \E S : q \in Seq(S)
AllOf(q, kinds) == \A i \in DOMAIN q : q[i].kind \in kinds
HasStatus(q) == \E i \in DOMAIN q : q[i].kind = "status"
\* The last status of the line, if there is one, is of this state.
LastSays(q, s) ==
  \A i \in DOMAIN q :
    q[i].kind = "status" /\ (\A j \in DOMAIN q : j > i => q[j].kind # "status") => q[i].state = s
Contains(q, kind) == \E i \in DOMAIN q : q[i].kind = kind

\* Controls whose button differs from the status they had last wait for a request to be
\* read that the host, in that state, accepts.
Settled(u, requests, s) ==
  /\ u.told = s /\ u.pressed \in BOOLEAN
  /\ s = "stopped" => ~u.pressed
  /\ s = "active" /\ u.pressed => Contains(requests, "pause")
  /\ s = "paused" /\ ~u.pressed => Contains(requests, "resume")

Follows(u, requests, q, s) ==
  LastSays(q, s) /\ (u.heard /\ ~HasStatus(q) => Settled(u, requests, s))

ShownWell(v) ==
  IF v \in joined THEN Follows(ui[v], toHost[v], toViewer[v], Monitors!StateOf(host))
  ELSE toHost[v] = <<>> /\ toViewer[v] = <<>>

SwitchTyped ==
  /\ DOMAIN toHost = Viewers /\ DOMAIN toViewer = Viewers /\ DOMAIN ui = Viewers
  /\ joined \subseteq Viewers
  /\ {"active", "paused", "upcoming", "known", "running"} \subseteq DOMAIN host
  /\ \A v \in Viewers :
       /\ IsLine(toHost[v]) /\ IsLine(toViewer[v])
       /\ AllOf(toHost[v], Requests) /\ AllOf(toViewer[v], Kinds)
       /\ DOMAIN ui[v] = Fields

SwitchInv == SwitchTyped /\ \A v \in Viewers : ShownWell(v)

LEMMA StatusAdded ==
  ASSUME NEW q, IsLine(q), NEW m, m.kind = "status"
  PROVE  /\ IsLine(Append(q, m)) /\ HasStatus(Append(q, m)) /\ LastSays(Append(q, m), m.state)
         /\ AllOf(q, Kinds) => AllOf(Append(q, m), Kinds)
<1>1. PICK S : q \in Seq(S)
  BY DEF IsLine
<1>2. q \in Seq(S \cup {m}) /\ m \in S \cup {m}
  BY <1>1
<1>3. Append(q, m) \in Seq(S \cup {m})
  BY <1>2
<1>4. /\ Len(q) \in Nat /\ DOMAIN q = 1..Len(q) /\ DOMAIN Append(q, m) = 1..(Len(q) + 1)
      /\ Append(q, m)[Len(q) + 1] = m
      /\ \A i \in 1..Len(q) : Append(q, m)[i] = q[i]
  BY <1>2
<1>5. HasStatus(Append(q, m)) /\ LastSays(Append(q, m), m.state)
  BY <1>4 DEF HasStatus, LastSays
<1>. QED
  BY <1>3, <1>4, <1>5 DEF IsLine, AllOf, Kinds

LEMMA OtherAdded ==
  ASSUME NEW q, IsLine(q), NEW m, m.kind # "status", NEW s
  PROVE  /\ IsLine(Append(q, m)) /\ HasStatus(Append(q, m)) = HasStatus(q)
         /\ LastSays(q, s) => LastSays(Append(q, m), s)
         /\ m.kind \in Kinds /\ AllOf(q, Kinds) => AllOf(Append(q, m), Kinds)
<1>1. PICK S : q \in Seq(S)
  BY DEF IsLine
<1>2. q \in Seq(S \cup {m}) /\ m \in S \cup {m}
  BY <1>1
<1>3. Append(q, m) \in Seq(S \cup {m})
  BY <1>2
<1>4. /\ Len(q) \in Nat /\ DOMAIN q = 1..Len(q) /\ DOMAIN Append(q, m) = 1..(Len(q) + 1)
      /\ Append(q, m)[Len(q) + 1] = m
      /\ \A i \in 1..Len(q) : Append(q, m)[i] = q[i]
  BY <1>2
<1>5. HasStatus(Append(q, m)) <=> HasStatus(q)
  BY <1>4 DEF HasStatus
<1>6. ASSUME LastSays(q, s) PROVE LastSays(Append(q, m), s)
  BY <1>4, <1>6 DEF LastSays
<1>. QED
  BY <1>3, <1>4, <1>5, <1>6 DEF IsLine, AllOf, HasStatus

LEMMA RequestAdded ==
  ASSUME NEW q, IsLine(q), AllOf(q, Requests), NEW m, m.kind \in Requests, NEW kind
  PROVE  /\ IsLine(Append(q, m)) /\ AllOf(Append(q, m), Requests)
         /\ Contains(q, kind) \/ m.kind = kind => Contains(Append(q, m), kind)
<1>1. PICK S : q \in Seq(S)
  BY DEF IsLine
<1>2. q \in Seq(S \cup {m}) /\ m \in S \cup {m}
  BY <1>1
<1>3. Append(q, m) \in Seq(S \cup {m})
  BY <1>2
<1>4. /\ Len(q) \in Nat /\ DOMAIN q = 1..Len(q) /\ DOMAIN Append(q, m) = 1..(Len(q) + 1)
      /\ Append(q, m)[Len(q) + 1] = m
      /\ \A i \in 1..Len(q) : Append(q, m)[i] = q[i]
  BY <1>2
<1>. QED
  BY <1>3, <1>4 DEF IsLine, AllOf, Contains

LEMMA LineRead ==
  ASSUME NEW q, IsLine(q), q # <<>>
  PROVE  /\ IsLine(Tail(q)) /\ Len(q) \in Nat \ {0} /\ DOMAIN q = 1..Len(q)
         /\ DOMAIN Tail(q) = 1..(Len(q) - 1) /\ Head(q) = q[1]
         /\ \A i \in 1..(Len(q) - 1) : Tail(q)[i] = q[i + 1]
         /\ \A K : AllOf(q, K) => AllOf(Tail(q), K) /\ Head(q).kind \in K
<1>1. PICK S : q \in Seq(S)
  BY DEF IsLine
<1>2. Tail(q) \in Seq(S)
  BY <1>1
<1>. QED
  BY <1>1, <1>2 DEF IsLine, AllOf

LEMMA RequestRead ==
  ASSUME NEW q, IsLine(q), q # <<>>, NEW kind, Contains(q, kind), Head(q).kind # kind
  PROVE  Contains(Tail(q), kind)
<1>1. PICK i \in DOMAIN q : q[i].kind = kind
  BY DEF Contains
<1>2. i - 1 \in 1..(Len(q) - 1) /\ (i - 1) + 1 = i
  BY <1>1, LineRead
<1>. QED
  BY <1>1, <1>2, LineRead DEF Contains

LEMMA AnswerRead ==
  ASSUME NEW q, IsLine(q), q # <<>>, NEW s, LastSays(q, s)
  PROVE  /\ LastSays(Tail(q), s)
         /\ Head(q).kind # "status" => (HasStatus(Tail(q)) <=> HasStatus(q))
         /\ Head(q).kind = "status" /\ ~HasStatus(Tail(q)) => Head(q).state = s
<1>1. ASSUME NEW i \in DOMAIN Tail(q), Tail(q)[i].kind = "status",
             \A j \in DOMAIN Tail(q) : j > i => Tail(q)[j].kind # "status"
      PROVE  Tail(q)[i].state = s
  <2>1. i + 1 \in DOMAIN q /\ q[i + 1] = Tail(q)[i]
    BY <1>1, LineRead
  <2>2. ASSUME NEW j \in DOMAIN q, j > i + 1 PROVE q[j].kind # "status"
    <3>1. j - 1 \in 1..(Len(q) - 1) /\ j - 1 > i /\ (j - 1) + 1 = j
      BY <2>2, <1>1, LineRead
    <3>. QED
      BY <1>1, <3>1, LineRead
  <2>. QED
    BY <1>1, <2>1, <2>2 DEF LastSays
<1>2. ASSUME NEW j \in DOMAIN q, j > 1, q[j].kind = "status" PROVE HasStatus(Tail(q))
  <2>1. j - 1 \in 1..(Len(q) - 1) /\ (j - 1) + 1 = j
    BY <1>2, LineRead
  <2>. QED
    BY <1>2, <2>1, LineRead DEF HasStatus
<1>3. HasStatus(Tail(q)) => HasStatus(q)
  BY LineRead DEF HasStatus
<1>4. ASSUME Head(q).kind # "status", HasStatus(q) PROVE HasStatus(Tail(q))
  BY <1>2, <1>4, LineRead DEF HasStatus
<1>5. ASSUME Head(q).kind = "status", ~HasStatus(Tail(q)) PROVE Head(q).state = s
  BY <1>2, <1>5, LineRead DEF LastSays
<1>. QED
  BY <1>1, <1>3, <1>4, <1>5 DEF LastSays

\* What a status tells everybody who has a session.
LEMMA AllTold ==
  ASSUME SwitchInv, NEW m, m.kind = "status", m.state = Monitors!StateOf(host'),
         joined' = joined, ui' = ui, DOMAIN host' = DOMAIN host,
         DOMAIN toHost' = Viewers,
         \A v \in Viewers : /\ IsLine(toHost'[v]) /\ AllOf(toHost'[v], Requests)
                            /\ v \notin joined => toHost'[v] = toHost[v],
         toViewer' = Monitors!Told(toViewer, m)
  PROVE  SwitchInv'
<1>1. \A v \in Viewers : toViewer'[v] = IF v \in joined THEN Append(toViewer[v], m) ELSE toViewer[v]
  BY DEF Monitors!Told
<1>2. ASSUME NEW v \in joined
      PROVE  /\ IsLine(toViewer'[v]) /\ HasStatus(toViewer'[v])
             /\ LastSays(toViewer'[v], Monitors!StateOf(host'))
             /\ AllOf(toViewer'[v], Kinds)
  <2>1. v \in Viewers /\ IsLine(toViewer[v]) /\ AllOf(toViewer[v], Kinds)
    BY DEF SwitchInv, SwitchTyped
  <2>2. /\ IsLine(Append(toViewer[v], m)) /\ HasStatus(Append(toViewer[v], m))
        /\ LastSays(Append(toViewer[v], m), m.state)
        /\ AllOf(Append(toViewer[v], m), Kinds)
    BY <2>1, StatusAdded
  <2>3. toViewer'[v] = Append(toViewer[v], m)
    BY <1>1, <2>1
  <2>. QED
    BY <2>2, <2>3
<1>3. DOMAIN toViewer' = Viewers
  BY DEF Monitors!Told
<1>t. ASSUME NEW v \in Viewers
      PROVE  IsLine(toViewer'[v]) /\ AllOf(toViewer'[v], Kinds) /\ DOMAIN ui'[v] = Fields
  <2>1. IsLine(toViewer[v]) /\ AllOf(toViewer[v], Kinds) /\ DOMAIN ui[v] = Fields
    BY DEF SwitchInv, SwitchTyped
  <2>. QED
    BY <1>1, <1>2, <2>1
<1>4. SwitchTyped'
  <2>1. /\ DOMAIN ui' = Viewers /\ joined' \subseteq Viewers
        /\ {"active", "paused", "upcoming", "known", "running"} \subseteq DOMAIN host'
    BY DEF SwitchInv, SwitchTyped
  <2>. QED
    BY <1>3, <1>t, <2>1 DEF SwitchTyped, IsLine, AllOf
<1>5. ASSUME NEW v \in Viewers PROVE ShownWell(v)'
  <2>1. CASE v \in joined
    <3>1. Follows(ui'[v], toHost'[v], toViewer'[v], Monitors!StateOf(host'))
      BY <1>2, <2>1 DEF Follows
    <3>. QED
      BY <2>1, <3>1 DEF ShownWell, Follows, LastSays, HasStatus, Settled, Contains, Monitors!StateOf
  <2>2. CASE v \notin joined
    <3>1. toHost[v] = <<>> /\ toViewer[v] = <<>>
      BY <2>2 DEF SwitchInv, ShownWell
    <3>2. toHost'[v] = <<>> /\ toViewer'[v] = <<>>
      BY <1>1, <2>2, <3>1
    <3>. QED
      BY <2>2, <3>2 DEF ShownWell
  <2>. QED
    BY <2>1, <2>2
<1>. QED
  BY <1>4, <1>5 DEF SwitchInv

OnlyAt(v, f, g, value) ==
  DOMAIN g = Viewers /\ \A w \in Viewers : g[w] = IF w = v THEN value ELSE f[w]

\* A step of one viewer's lines and controls that leaves what the host does.
LEMMA OneViewer ==
  ASSUME SwitchInv, NEW v \in Viewers, DOMAIN host' = DOMAIN host, joined' \subseteq Viewers,
         host'.active = host.active, host'.paused = host.paused,
         NEW requests, IsLine(requests), AllOf(requests, Requests), OnlyAt(v, toHost, toHost', requests),
         NEW answers, IsLine(answers), OnlyAt(v, toViewer, toViewer', answers),
         AllOf(answers, Kinds),
         NEW u, DOMAIN u = Fields, OnlyAt(v, ui, ui', u),
         joined' \ {v} = joined \ {v},
         IF v \in joined' THEN Follows(u, requests, answers, Monitors!StateOf(host))
         ELSE requests = <<>> /\ answers = <<>>
  PROVE  SwitchInv'
<1>1. /\ toHost'[v] = requests /\ toViewer'[v] = answers /\ ui'[v] = u
      /\ \A w \in Viewers \ {v} :
           toHost'[w] = toHost[w] /\ toViewer'[w] = toViewer[w] /\ ui'[w] = ui[w]
  BY DEF OnlyAt
<1>2. DOMAIN toHost' = Viewers /\ DOMAIN toViewer' = Viewers /\ DOMAIN ui' = Viewers
  BY DEF OnlyAt
<1>3. Monitors!StateOf(host') = Monitors!StateOf(host)
  BY DEF Monitors!StateOf
<1>4. SwitchTyped'
  BY <1>1, <1>2 DEF SwitchInv, SwitchTyped, IsLine, AllOf
<1>5. ASSUME NEW w \in Viewers
      PROVE  IF w \in joined'
             THEN Follows(ui'[w], toHost'[w], toViewer'[w], Monitors!StateOf(host'))
             ELSE toHost'[w] = <<>> /\ toViewer'[w] = <<>>
  <2>1. CASE w = v
    BY <1>1, <1>3, <2>1
  <2>2. CASE w # v
    <3>1. w \in joined' <=> w \in joined
      BY <2>2
    <3>. QED
      BY <1>1, <1>3, <2>2, <3>1 DEF SwitchInv, ShownWell
  <2>. QED
    BY <2>1, <2>2
<1>6. \A w \in Viewers : ShownWell(w)'
  BY <1>5 DEF ShownWell, Follows, LastSays, HasStatus, Settled, Contains, Monitors!StateOf
<1>. QED
  BY <1>4, <1>6 DEF SwitchInv

\* Nobody notices: the lines, the controls and what the host does stay.
LEMMA NobodyNotices ==
  ASSUME SwitchInv, UNCHANGED <<joined, toHost, toViewer, ui>>, DOMAIN host' = DOMAIN host,
         host'.active = host.active, host'.paused = host.paused
  PROVE  SwitchInv'
<1>1. Monitors!StateOf(host') = Monitors!StateOf(host)
  BY DEF Monitors!StateOf
<1>2. SwitchTyped'
  BY DEF SwitchInv, SwitchTyped, IsLine, AllOf
<1>3. ASSUME NEW v \in Viewers PROVE ShownWell(v)'
  BY <1>1 DEF SwitchInv, ShownWell, Follows, LastSays, HasStatus, Settled, Contains,
              Monitors!StateOf
<1>. QED
  BY <1>2, <1>3 DEF SwitchInv

\* What the controls make of a message.
Same(w, u) ==
  DOMAIN w = Fields /\ w.told = u.told /\ w.heard = u.heard /\ w.pressed = u.pressed

LEMMA ShowsKeeps ==
  ASSUME NEW u, DOMAIN u = Fields, NEW i
  PROVE  Same(Monitors!Shows(u, i), u)
BY DEF Monitors!Shows, Fields, Same

LEMMA ListKeeps ==
  ASSUME NEW u, DOMAIN u = Fields, NEW m
  PROVE  Same(Monitors!ShowsList(u, m), u)
<1> DEFINE filled == [u EXCEPT !.count = m.count, !.current = 0]
<1>1. Same(filled, u)
  BY DEF Fields, Same
<1>2. Monitors!ShowsList(u, m) = IF m.count > 1 THEN Monitors!Shows(filled, m.current) ELSE filled
  BY DEF Monitors!ShowsList
<1>. HIDE DEF filled
<1>3. Same(Monitors!Shows(filled, m.current), filled)
  BY <1>1, ShowsKeeps DEF Same
<1>. QED
  BY <1>1, <1>2, <1>3 DEF Same

LEMMA AckKeeps ==
  ASSUME NEW u, DOMAIN u = Fields, NEW m
  PROVE  Same(Monitors!ShowsAck(u, m), u)
<1> DEFINE free == [u EXCEPT !.switching = "no"]
<1>1. Same(free, u)
  BY DEF Fields, Same
<1>2. Monitors!ShowsAck(u, m) = Monitors!Shows(free, m.index)
  BY DEF Monitors!ShowsAck
<1>. HIDE DEF free
<1>3. Same(Monitors!Shows(free, m.index), free)
  BY <1>1, ShowsKeeps DEF Same
<1>. QED
  BY <1>1, <1>2, <1>3 DEF Same

LEMMA StatusSets ==
  ASSUME NEW u, DOMAIN u = Fields, NEW m
  PROVE  LET w == Monitors!ShowsStatus(u, m)
         IN  DOMAIN w = Fields /\ w.told = m.state /\ w.pressed = (m.state = "paused")
<1> DEFINE says == [u EXCEPT !.told = m.state, !.heard = TRUE, !.pressed = m.state = "paused"]
<1>1. DOMAIN says = Fields /\ says.told = m.state /\ says.pressed = (m.state = "paused")
  BY DEF Fields
<1>2. Monitors!ShowsStatus(u, m) = Monitors!Shows(says, m.current)
  BY DEF Monitors!ShowsStatus
<1>. HIDE DEF says
<1>3. Same(Monitors!Shows(says, m.current), says)
  BY <1>1, ShowsKeeps
<1>. QED
  BY <1>1, <1>2, <1>3 DEF Same

LEMMA ViewerReadsInv ==
  ASSUME SwitchInv, NEW v \in Viewers, Monitors!ViewerReads(v)
  PROVE  SwitchInv'
<1> DEFINE q == toViewer[v]
           m == Head(q)
           s == Monitors!StateOf(host)
           u == CASE m.kind = "list" -> Monitors!ShowsList(ui[v], m)
                  [] m.kind = "ack" -> Monitors!ShowsAck(ui[v], m)
                  [] m.kind = "status" -> Monitors!ShowsStatus(ui[v], m)
<1>1. /\ q # <<>> /\ toViewer' = [toViewer EXCEPT ![v] = Tail(q)] /\ ui' = [ui EXCEPT ![v] = u]
      /\ UNCHANGED <<host, joined, toHost>>
  BY DEF Monitors!ViewerReads
<1>2. /\ IsLine(q) /\ IsLine(toHost[v]) /\ DOMAIN ui[v] = Fields
      /\ AllOf(q, Kinds) /\ AllOf(toHost[v], Requests)
  BY DEF SwitchInv, SwitchTyped
<1>3. v \in joined /\ LastSays(q, s)
  BY <1>1 DEF SwitchInv, ShownWell, Follows
<1>4. /\ IsLine(Tail(q)) /\ LastSays(Tail(q), s)
      /\ m.kind # "status" => (HasStatus(Tail(q)) <=> HasStatus(q))
      /\ m.kind = "status" /\ ~HasStatus(Tail(q)) => m.state = s
  BY <1>1, <1>2, <1>3, LineRead, AnswerRead
<1>5. m.kind \in Kinds /\ AllOf(Tail(q), Kinds)
  BY <1>1, <1>2, LineRead
<1>6. ui[v].heard /\ ~HasStatus(q) => Settled(ui[v], toHost[v], s)
  BY <1>3 DEF SwitchInv, ShownWell, Follows, SwitchTyped
<1>7. DOMAIN u = Fields /\ Follows(u, toHost[v], Tail(q), s)
  <2>. HIDE DEF q, m, s
  <2>1. CASE m.kind \in {"list", "ack"}
    <3>1. u \in {Monitors!ShowsList(ui[v], m), Monitors!ShowsAck(ui[v], m)}
      BY <2>1
    <3>. HIDE DEF u
    <3>2. DOMAIN u = Fields /\ u.told = ui[v].told /\ u.heard = ui[v].heard
            /\ u.pressed = ui[v].pressed
      BY <1>2, <3>1, ListKeeps, AckKeeps DEF Same
    <3>. QED
      BY <1>4, <1>6, <2>1, <3>2 DEF Follows, Settled
  <2>2. CASE m.kind = "status"
    <3>1. u = Monitors!ShowsStatus(ui[v], m)
      BY <2>2
    <3>. HIDE DEF u
    <3>2. DOMAIN u = Fields /\ u.told = m.state /\ u.pressed = (m.state = "paused")
      BY <1>2, <3>1, StatusSets
    <3>. QED
      BY <1>4, <2>2, <3>2 DEF Follows, Settled
  <2>. QED
    BY <1>5, <2>1, <2>2 DEF Kinds
<1>8. /\ OnlyAt(v, toHost, toHost', toHost[v]) /\ OnlyAt(v, toViewer, toViewer', Tail(q))
      /\ OnlyAt(v, ui, ui', u)
  <2>. HIDE DEF q, u
  <2>. QED
    BY <1>1 DEF SwitchInv, SwitchTyped, OnlyAt
<1>9. /\ DOMAIN host' = DOMAIN host
      /\ host'.active = host.active /\ host'.paused = host.paused /\ joined' = joined
      /\ joined' \subseteq Viewers
  BY <1>1 DEF SwitchInv, SwitchTyped
<1>. HIDE DEF q, m, s, u
<1>. QED
  BY <1>2, <1>3, <1>4, <1>5, <1>7, <1>8, <1>9, OneViewer DEF s

LEMMA HostAnswersInv ==
  ASSUME SwitchInv, NEW v \in Viewers, Monitors!HostAnswersList(v) \/ Monitors!HostSwitches(v)
  PROVE  SwitchInv'
<1> DEFINE q == toHost[v]
           s == Monitors!StateOf(host)
<1>1. PICK m : /\ q # <<>> /\ Head(q).kind \in {"list", "switch"} /\ m.kind \in {"list", "ack"}
               /\ toHost' = [toHost EXCEPT ![v] = Tail(q)]
               /\ toViewer' = [toViewer EXCEPT ![v] = Append(@, m)]
               /\ UNCHANGED <<host, joined, ui>>
  <2>1. CASE Monitors!HostAnswersList(v)
    <3>1. Monitors!MonitorList(capture.list, capture).kind = "list"
      BY DEF Monitors!MonitorList
    <3>. QED
      BY <2>1, <3>1 DEF Monitors!HostAnswersList, Monitors!Read
  <2>2. CASE Monitors!HostSwitches(v)
    <3> DEFINE i == Head(q).index
               ack == [kind |-> "ack", success |-> Monitors!Succeeds(i), index |-> i]
    <3>1. ack.kind = "ack"
      OBVIOUS
    <3>2. toViewer' = [toViewer EXCEPT ![v] = Append(@, ack)]
      BY <2>2 DEF Monitors!HostSwitches
    <3>. HIDE DEF ack
    <3>. QED
      BY <2>2, <3>1, <3>2 DEF Monitors!HostSwitches, Monitors!Read
  <2>. QED
    BY <2>1, <2>2
<1>2. /\ IsLine(q) /\ IsLine(toViewer[v]) /\ DOMAIN ui[v] = Fields
      /\ AllOf(q, Requests) /\ AllOf(toViewer[v], Kinds)
  BY DEF SwitchInv, SwitchTyped
<1>3. v \in joined /\ Follows(ui[v], q, toViewer[v], s)
  BY <1>1 DEF SwitchInv, ShownWell
<1>4. /\ IsLine(Append(toViewer[v], m)) /\ LastSays(Append(toViewer[v], m), s)
      /\ HasStatus(Append(toViewer[v], m)) = HasStatus(toViewer[v])
      /\ AllOf(Append(toViewer[v], m), Kinds)
  <2>1. m.kind # "status" /\ m.kind \in Kinds /\ LastSays(toViewer[v], s)
    BY <1>1, <1>3 DEF Kinds, Follows
  <2>. HIDE DEF s
  <2>. QED
    BY <1>2, <2>1, OtherAdded
<1>5. IsLine(Tail(q)) /\ AllOf(Tail(q), Requests)
  BY <1>1, <1>2, LineRead
<1>6. \A kind \in {"pause", "resume"} : Contains(q, kind) => Contains(Tail(q), kind)
  <2>. SUFFICES ASSUME NEW kind \in {"pause", "resume"}, Contains(q, kind)
                PROVE  Contains(Tail(q), kind)
    OBVIOUS
  <2>1. Head(q).kind # kind
    BY <1>1
  <2>. HIDE DEF q
  <2>. QED
    BY <1>1, <1>2, <2>1, RequestRead
<1>7. /\ OnlyAt(v, toHost, toHost', Tail(q)) /\ OnlyAt(v, ui, ui', ui[v])
      /\ OnlyAt(v, toViewer, toViewer', Append(toViewer[v], m))
  BY <1>1 DEF SwitchInv, SwitchTyped, OnlyAt
<1>8. /\ DOMAIN host' = DOMAIN host /\ host'.active = host.active /\ host'.paused = host.paused
      /\ joined' = joined /\ joined' \subseteq Viewers
  BY <1>1 DEF SwitchInv, SwitchTyped
<1>. HIDE DEF q, s
<1>9. Follows(ui[v], Tail(q), Append(toViewer[v], m), s)
  BY <1>3, <1>4, <1>6 DEF Follows, Settled
<1>. QED
  BY <1>2, <1>3, <1>4, <1>5, <1>7, <1>8, <1>9, OneViewer DEF s

\* A request that is accepted is told to all, and one that is not was no cause to wait.
LEMMA HostObeysInv ==
  ASSUME SwitchInv, NEW v \in Viewers, Monitors!HostObeys(v)
  PROVE  SwitchInv'
<1> DEFINE q == toHost[v]
           s == Monitors!StateOf(host)
           kind == Head(q).kind
<1>1. q # <<>> /\ toHost' = [toHost EXCEPT ![v] = Tail(q)] /\ UNCHANGED <<joined, ui>>
  BY DEF Monitors!HostObeys, Monitors!Read
<1>2. /\ IsLine(q) /\ IsLine(toViewer[v]) /\ DOMAIN ui[v] = Fields
      /\ AllOf(q, Requests) /\ AllOf(toViewer[v], Kinds)
  BY DEF SwitchInv, SwitchTyped
<1>3. v \in joined /\ Follows(ui[v], q, toViewer[v], s)
  BY <1>1 DEF SwitchInv, ShownWell
<1>4. IsLine(Tail(q)) /\ AllOf(Tail(q), Requests) /\ kind \in Requests
  BY <1>1, <1>2, LineRead
<1>5. OnlyAt(v, toHost, toHost', Tail(q))
  BY <1>1 DEF SwitchInv, SwitchTyped, OnlyAt
<1>6. CASE Monitors!Accepted(kind)
  <2> DEFINE m == Monitors!Status(host', capture)
  <2>1. toViewer' = Monitors!Told(toViewer, m)
    BY <1>6 DEF Monitors!HostObeys
  <2>2. m.kind = "status" /\ m.state = Monitors!StateOf(host')
    BY DEF Monitors!Status
  <2>3. DOMAIN host' = DOMAIN host
    <3>1. host' = Monitors!Obeyed(kind)
      BY <1>6 DEF Monitors!HostObeys
    <3>2. kind \in {"start", "stop", "pause", "resume", "config"}
      BY <1>4 DEF Monitors!HostObeys, Requests
    <3>. HIDE DEF kind
    <3>. QED
      BY <3>1, <3>2 DEF Monitors!Obeyed
  <2>4. /\ DOMAIN toHost' = Viewers
        /\ \A w \in Viewers : /\ IsLine(toHost'[w]) /\ AllOf(toHost'[w], Requests)
                              /\ w \notin joined => toHost'[w] = toHost[w]
    BY <1>3, <1>4, <1>5 DEF OnlyAt, SwitchInv, SwitchTyped
  <2>. HIDE DEF m
  <2>. QED
    BY <1>1, <2>1, <2>2, <2>3, <2>4, AllTold
<1>7. CASE ~Monitors!Accepted(kind)
  <2>1. UNCHANGED <<host, toViewer>>
    BY <1>7 DEF Monitors!HostObeys
  <2>2. /\ ~(s = "active" /\ kind = "pause")
        /\ ~(s = "paused" /\ kind = "resume")
    BY <1>7 DEF Monitors!Accepted, Monitors!StateOf
  <2>3. /\ OnlyAt(v, toViewer, toViewer', toViewer[v]) /\ OnlyAt(v, ui, ui', ui[v])
    BY <1>1, <2>1 DEF SwitchInv, SwitchTyped, OnlyAt
  <2>4. /\ DOMAIN host' = DOMAIN host /\ host'.active = host.active /\ host'.paused = host.paused
        /\ joined' = joined /\ joined' \subseteq Viewers
    BY <1>1, <2>1 DEF SwitchInv, SwitchTyped
  <2>. HIDE DEF q, s
  <2>5. /\ s = "active" /\ Contains(q, "pause") => Contains(Tail(q), "pause")
        /\ s = "paused" /\ Contains(q, "resume") => Contains(Tail(q), "resume")
    BY <1>1, <1>2, <2>2, RequestRead
  <2>6. Follows(ui[v], Tail(q), toViewer[v], s)
    BY <1>3, <2>5 DEF Follows, Settled
  <2>. QED
    BY <1>2, <1>3, <1>4, <1>5, <2>3, <2>4, <2>6, OneViewer DEF s
<1>. QED
  BY <1>6, <1>7

LEMMA AutoSwitchInv ==
  ASSUME SwitchInv, Monitors!AutoSwitchStep
  PROVE  SwitchInv'
<1>1. UNCHANGED <<joined, toHost, ui>>
  BY DEF Monitors!AutoSwitchStep
<1>2. CASE Len(host.known) < 2
  <2> DEFINE m == Monitors!Status(host', capture)
  <2>1. host' = Monitors!Obeyed("stop") /\ toViewer' = Monitors!Told(toViewer, m)
    BY <1>2 DEF Monitors!AutoSwitchStep
  <2>2. m.kind = "status" /\ m.state = Monitors!StateOf(host')
    BY DEF Monitors!Status
  <2>3. DOMAIN host' = DOMAIN host
    BY <2>1 DEF Monitors!Obeyed
  <2>4. /\ DOMAIN toHost' = Viewers
        /\ \A w \in Viewers : /\ IsLine(toHost'[w]) /\ AllOf(toHost'[w], Requests)
                              /\ w \notin joined => toHost'[w] = toHost[w]
    BY <1>1 DEF SwitchInv, SwitchTyped
  <2>. HIDE DEF m
  <2>. QED
    BY <1>1, <2>1, <2>2, <2>3, <2>4, AllTold
<1>3. CASE ~(Len(host.known) < 2)
  <2>1. host' = [host EXCEPT !.upcoming = (@ + 1) % Len(host.known)] /\ UNCHANGED toViewer
    BY <1>3 DEF Monitors!AutoSwitchStep
  <2>2. DOMAIN host' = DOMAIN host /\ host'.active = host.active /\ host'.paused = host.paused
    BY <2>1 DEF SwitchInv, SwitchTyped
  <2>. QED
    BY <1>1, <2>1, <2>2, NobodyNotices
<1>. QED
  BY <1>2, <1>3

LEMMA MonitorsCheckedInv ==
  ASSUME SwitchInv, Monitors!CheckMonitorChanges
  PROVE  SwitchInv'
<1> DEFINE m == Monitors!MonitorList(host'.known, capture)
<1>1. /\ host' = [host EXCEPT !.known = capture.list] /\ toViewer' = Monitors!Told(toViewer, m)
      /\ UNCHANGED <<joined, toHost, ui>>
  BY DEF Monitors!CheckMonitorChanges
<1>2. m.kind = "list"
  BY DEF Monitors!MonitorList
<1>. HIDE DEF m
<1>3. DOMAIN host' = DOMAIN host /\ host'.active = host.active /\ host'.paused = host.paused
  BY <1>1 DEF SwitchInv, SwitchTyped
<1>4. Monitors!StateOf(host') = Monitors!StateOf(host)
  BY <1>3 DEF Monitors!StateOf
<1> DEFINE s == Monitors!StateOf(host)
<1>5. /\ DOMAIN toViewer' = Viewers
      /\ \A v \in Viewers : toViewer'[v] = IF v \in joined THEN Append(toViewer[v], m) ELSE toViewer[v]
  BY <1>1 DEF Monitors!Told
<1>6. ASSUME NEW v \in joined
      PROVE  /\ v \in Viewers /\ toViewer'[v] = Append(toViewer[v], m)
             /\ IsLine(toViewer'[v]) /\ AllOf(toViewer'[v], Kinds)
             /\ HasStatus(toViewer'[v]) = HasStatus(toViewer[v])
             /\ LastSays(toViewer'[v], s)
  <2>1. /\ v \in Viewers /\ IsLine(toViewer[v]) /\ AllOf(toViewer[v], Kinds)
        /\ LastSays(toViewer[v], s)
    BY DEF SwitchInv, SwitchTyped, ShownWell, Follows
  <2>2. toViewer'[v] = Append(toViewer[v], m)
    BY <1>5, <2>1
  <2>3. m.kind # "status" /\ m.kind \in Kinds
    BY <1>2 DEF Kinds
  <2>. HIDE DEF s
  <2>. QED
    BY <2>1, <2>2, <2>3, OtherAdded
<1>7. SwitchTyped'
  <2>1. ASSUME NEW v \in Viewers
        PROVE  /\ IsLine(toViewer'[v]) /\ AllOf(toViewer'[v], Kinds)
               /\ IsLine(toHost'[v]) /\ AllOf(toHost'[v], Requests) /\ DOMAIN ui'[v] = Fields
    <3>1. IsLine(toViewer[v]) /\ AllOf(toViewer[v], Kinds)
      BY DEF SwitchInv, SwitchTyped
    <3>2. IsLine(toHost[v]) /\ AllOf(toHost[v], Requests) /\ DOMAIN ui[v] = Fields
      BY DEF SwitchInv, SwitchTyped
    <3>. QED
      BY <1>1, <1>5, <1>6, <3>1, <3>2
  <2>. QED
    BY <1>1, <1>3, <1>5, <2>1 DEF SwitchInv, SwitchTyped, IsLine, AllOf
<1>8. ASSUME NEW v \in Viewers PROVE ShownWell(v)'
  <2>1. CASE v \in joined
    <3>1. Follows(ui[v], toHost[v], toViewer[v], s)
      BY <2>1 DEF SwitchInv, ShownWell
    <3>. HIDE DEF s
    <3>2. Follows(ui[v], toHost[v], toViewer'[v], s)
      BY <1>6, <2>1, <3>1 DEF Follows
    <3>3. Follows(ui'[v], toHost'[v], toViewer'[v], Monitors!StateOf(host'))
      BY <1>1, <1>4, <3>2 DEF s
    <3>. QED
      BY <1>1, <2>1, <3>3
         DEF ShownWell, Follows, LastSays, HasStatus, Settled, Contains, Monitors!StateOf
  <2>2. CASE v \notin joined
    <3>1. toHost[v] = <<>> /\ toViewer[v] = <<>>
      BY <2>2 DEF SwitchInv, ShownWell
    <3>. QED
      BY <1>1, <1>5, <2>2, <3>1 DEF ShownWell
  <2>. QED
    BY <2>1, <2>2
<1>. QED
  BY <1>7, <1>8 DEF SwitchInv

LEMMA HostEndsInv ==
  ASSUME SwitchInv, Monitors!HostStops \/ Monitors!HostStarts
  PROVE  SwitchInv'
<1>1. CASE Monitors!HostStops
  <2>1. /\ joined' = {} /\ DOMAIN host' = DOMAIN host
        /\ toHost' = [v \in Viewers |-> <<>>] /\ toViewer' = [v \in Viewers |-> <<>>]
        /\ ui' = [v \in Viewers |-> Monitors!Left(ui[v])]
    BY <1>1 DEF Monitors!HostStops
  <2>2. \A v \in Viewers : DOMAIN ui'[v] = Fields
    BY <2>1 DEF SwitchInv, SwitchTyped, Monitors!Left
  <2>3. IsLine(<<>>) /\ AllOf(<<>>, Requests) /\ AllOf(<<>>, Kinds)
    BY DEF IsLine, AllOf
  <2>4. SwitchTyped'
    BY <2>1, <2>2, <2>3 DEF SwitchInv, SwitchTyped, IsLine, AllOf
  <2>. QED
    BY <2>1, <2>4 DEF SwitchInv, ShownWell
<1>2. CASE Monitors!HostStarts
  <2>1. /\ host' = [host EXCEPT !.running = TRUE, !.known = capture.list]
        /\ UNCHANGED <<joined, toHost, toViewer, ui>>
    BY <1>2 DEF Monitors!HostStarts, Monitors!links
  <2>2. DOMAIN host' = DOMAIN host /\ host'.active = host.active /\ host'.paused = host.paused
    BY <2>1 DEF SwitchInv, SwitchTyped
  <2>. QED
    BY <2>1, <2>2, NobodyNotices
<1>. QED
  BY <1>1, <1>2

LEMMA SessionInv ==
  ASSUME SwitchInv, NEW v \in Viewers, Monitors!Join(v) \/ Monitors!Leave(v)
  PROVE  SwitchInv'
<1>1. IsLine(<<>>) /\ AllOf(<<>>, Requests) /\ AllOf(<<>>, Kinds)
  BY DEF IsLine, AllOf
<1>2. DOMAIN ui[v] = Fields /\ joined \subseteq Viewers
  BY DEF SwitchInv, SwitchTyped
<1>3. CASE Monitors!Join(v)
  <2> DEFINE ask == [kind |-> "list"]
             u == [ui[v] EXCEPT !.heard = FALSE]
  <2>1. /\ v \notin joined /\ joined' = joined \cup {v} /\ UNCHANGED <<host, toViewer>>
        /\ toHost' = [toHost EXCEPT ![v] = <<ask>>] /\ ui' = [ui EXCEPT ![v] = u]
    BY <1>3 DEF Monitors!Join
  <2>2. toViewer[v] = <<>>
    BY <2>1 DEF SwitchInv, ShownWell
  <2>3. DOMAIN u = Fields /\ u.heard = FALSE
    BY <1>2 DEF Fields
  <2>4. ask.kind \in Requests
    BY DEF Requests
  <2>. HIDE DEF ask, u
  <2>5. IsLine(<<ask>>) /\ AllOf(<<ask>>, Requests)
    <3>1. <<ask>> \in Seq({ask}) /\ DOMAIN <<ask>> = {1} /\ <<ask>>[1] = ask
      OBVIOUS
    <3>2. IsLine(<<ask>>)
      BY <3>1 DEF IsLine
    <3>. QED
      BY <2>4, <3>1, <3>2 DEF AllOf
  <2>6. /\ OnlyAt(v, toHost, toHost', <<ask>>) /\ OnlyAt(v, toViewer, toViewer', <<>>)
        /\ OnlyAt(v, ui, ui', u)
    BY <2>1, <2>2 DEF OnlyAt, SwitchInv, SwitchTyped
  <2>7. Follows(u, <<ask>>, <<>>, Monitors!StateOf(host))
    BY <2>3 DEF Follows, LastSays
  <2>8. /\ v \in joined' /\ joined' \ {v} = joined \ {v} /\ joined' \subseteq Viewers
        /\ DOMAIN host' = DOMAIN host /\ host'.active = host.active /\ host'.paused = host.paused
    BY <1>2, <2>1
  <2>. QED
    BY <1>1, <2>3, <2>5, <2>6, <2>7, <2>8, OneViewer
<1>4. CASE Monitors!Leave(v)
  <2> DEFINE u == Monitors!Left(ui[v])
  <2>1. /\ joined' = joined \ {v} /\ UNCHANGED host
        /\ toHost' = [toHost EXCEPT ![v] = <<>>] /\ toViewer' = [toViewer EXCEPT ![v] = <<>>]
        /\ ui' = [ui EXCEPT ![v] = u]
    BY <1>4 DEF Monitors!Leave
  <2>2. DOMAIN u = Fields
    BY <1>2 DEF Monitors!Left
  <2>. HIDE DEF u
  <2>3. /\ OnlyAt(v, toHost, toHost', <<>>) /\ OnlyAt(v, toViewer, toViewer', <<>>)
        /\ OnlyAt(v, ui, ui', u)
    BY <2>1 DEF OnlyAt, SwitchInv, SwitchTyped
  <2>4. /\ v \notin joined' /\ joined' \ {v} = joined \ {v} /\ joined' \subseteq Viewers
        /\ DOMAIN host' = DOMAIN host /\ host'.active = host.active /\ host'.paused = host.paused
    BY <1>2, <2>1
  <2>. QED
    BY <1>1, <2>2, <2>3, <2>4, OneViewer
<1>. QED
  BY <1>3, <1>4

\* A request goes out, and the controls show what was pressed.
LEMMA ClickInv ==
  ASSUME SwitchInv, NEW v \in Viewers,
         (\E i : Monitors!PickMonitor(v, i)) \/ \E kind \in Monitors!Buttons : Monitors!PressButton(v, kind)
  PROVE  SwitchInv'
<1> DEFINE q == toHost[v]
           s == Monitors!StateOf(host)
<1>1. /\ IsLine(q) /\ AllOf(q, Requests) /\ IsLine(toViewer[v]) /\ AllOf(toViewer[v], Kinds)
      /\ DOMAIN ui[v] = Fields
      /\ DOMAIN toHost = Viewers /\ DOMAIN toViewer = Viewers /\ DOMAIN ui = Viewers
      /\ joined \subseteq Viewers
  BY DEF SwitchInv, SwitchTyped
<1>2. v \in joined /\ UNCHANGED <<host, joined, toViewer>>
  BY DEF Monitors!PickMonitor, Monitors!PressButton, Monitors!Click
<1>3. Follows(ui[v], q, toViewer[v], s)
  BY <1>2 DEF SwitchInv, ShownWell
<1>4. ASSUME NEW requests, IsLine(requests), AllOf(requests, Requests),
             OnlyAt(v, toHost, toHost', requests),
             NEW u, DOMAIN u = Fields, OnlyAt(v, ui, ui', u), Follows(u, requests, toViewer[v], s)
      PROVE  SwitchInv'
  <2>1. OnlyAt(v, toViewer, toViewer', toViewer[v])
    BY <1>1, <1>2 DEF OnlyAt
  <2>2. /\ DOMAIN host' = DOMAIN host /\ host'.active = host.active /\ host'.paused = host.paused
        /\ joined' = joined /\ joined' \subseteq Viewers
    BY <1>1, <1>2
  <2>. QED
    BY <1>1, <1>2, <1>4, <2>1, <2>2, OneViewer
<1>5. ASSUME NEW i, Monitors!PickMonitor(v, i) PROVE SwitchInv'
  <2> DEFINE ask == [kind |-> "switch", index |-> i]
             asking == [[ui[v] EXCEPT !.current = i] EXCEPT !.switching = "yes"]
             choosing == [ui[v] EXCEPT !.current = i]
  <2>1. Same(asking, ui[v]) /\ Same(choosing, ui[v])
    BY <1>1 DEF Same, Fields
  <2>2. PICK u \in {asking, choosing} :
          ui' = [ui EXCEPT ![v] = u] /\ (toHost' = [toHost EXCEPT ![v] = Append(@, ask)] \/ toHost' = toHost)
    <3>1. CASE ui[v].switching = "no"
      <4>1. /\ toHost' = [toHost EXCEPT ![v] = Append(@, ask)]
            /\ ui' = [ui EXCEPT ![v].current = i, ![v].switching = "yes"]
        BY <1>5, <3>1 DEF Monitors!PickMonitor, Monitors!Send
      <4>2. ui' = [ui EXCEPT ![v] = asking]
        BY <1>1, <4>1
      <4>. QED
        BY <4>1, <4>2
    <3>2. CASE ui[v].switching # "no"
      <4>1. ui' = [ui EXCEPT ![v].current = i] /\ toHost' = toHost
        BY <1>5, <3>2 DEF Monitors!PickMonitor
      <4>2. ui' = [ui EXCEPT ![v] = choosing]
        BY <1>1, <4>1
      <4>. QED
        BY <4>1, <4>2
    <3>. QED
      BY <3>1, <3>2
  <2>3. Same(u, ui[v])
    BY <2>1
  <2>4. ask.kind \in Requests
    BY DEF Requests
  <2>. HIDE DEF asking, choosing, ask, q, s
  <2>5. \A kind : Contains(q, kind) => Contains(Append(q, ask), kind)
    BY <1>1, <2>4, RequestAdded
  <2>6. IsLine(Append(q, ask)) /\ AllOf(Append(q, ask), Requests)
    BY <1>1, <2>4, RequestAdded
  <2>7. Follows(u, q, toViewer[v], s) /\ Follows(u, Append(q, ask), toViewer[v], s)
    BY <1>3, <2>3, <2>5 DEF Follows, Settled, Same
  <2>8. OnlyAt(v, ui, ui', u) /\ DOMAIN u = Fields
    BY <1>1, <2>2, <2>3 DEF OnlyAt, Same
  <2>9. CASE toHost' = toHost
    <3>1. OnlyAt(v, toHost, toHost', q)
      BY <1>1, <2>9 DEF OnlyAt, q
    <3>. QED
      BY <1>1, <1>4, <2>7, <2>8, <3>1
  <2>10. CASE toHost' = [toHost EXCEPT ![v] = Append(@, ask)]
    <3>1. OnlyAt(v, toHost, toHost', Append(q, ask))
      BY <1>1, <2>10 DEF OnlyAt, q
    <3>. QED
      BY <1>4, <2>6, <2>7, <2>8, <3>1
  <2>. QED
    BY <2>2, <2>9, <2>10
<1>6. ASSUME NEW kind \in Monitors!Buttons, Monitors!PressButton(v, kind) PROVE SwitchInv'
  <2> DEFINE ask == [kind |-> kind]
             pressed == IF kind \in {"pause", "resume"} THEN ~ui[v].pressed ELSE ui[v].pressed
             u == [ui[v] EXCEPT !.pressed = pressed]
  <2>1. /\ Monitors!Enabled(ui[v], kind) /\ toHost' = [toHost EXCEPT ![v] = Append(@, ask)]
        /\ ui' = [ui EXCEPT ![v].pressed = IF kind \in {"pause", "resume"} THEN ~@ ELSE @]
    BY <1>6 DEF Monitors!PressButton, Monitors!Send
  <2>2. ui' = [ui EXCEPT ![v] = u]
    BY <1>1, <2>1
  <2>3. /\ DOMAIN u = Fields /\ u.told = ui[v].told /\ u.heard = ui[v].heard
        /\ u.pressed = pressed
    BY <1>1 DEF Fields
  <2>4. ask.kind = kind /\ kind \in Requests
    BY DEF Monitors!Buttons, Requests
  <2>. HIDE DEF u, ask, q, s
  <2>5. /\ \A k : Contains(q, k) \/ k = kind => Contains(Append(q, ask), k)
        /\ IsLine(Append(q, ask)) /\ AllOf(Append(q, ask), Requests)
    BY <1>1, <2>4, RequestAdded
  <2>6. ASSUME Settled(ui[v], q, s) PROVE Settled(u, Append(q, ask), s)
    <3>1. CASE kind = "pause"
      <4>1. ui[v].told # "stopped" /\ ~ui[v].pressed
        BY <2>1, <3>1 DEF Monitors!Enabled
      <4>2. u.pressed
        BY <2>3, <3>1, <4>1
      <4>. QED
        BY <2>3, <2>5, <2>6, <3>1, <4>1, <4>2 DEF Settled
    <3>2. CASE kind = "resume"
      <4>1. ui[v].told # "stopped" /\ ui[v].pressed
        BY <2>1, <3>2 DEF Monitors!Enabled
      <4>2. ~u.pressed
        BY <2>3, <3>2, <4>1
      <4>. QED
        BY <2>3, <2>5, <2>6, <3>2, <4>1, <4>2 DEF Settled
    <3>3. CASE kind \notin {"pause", "resume"}
      BY <2>3, <2>5, <2>6, <3>3 DEF Settled
    <3>. QED
      BY <3>1, <3>2, <3>3
  <2>7. Follows(u, Append(q, ask), toViewer[v], s)
    BY <1>3, <2>3, <2>6 DEF Follows
  <2>8. OnlyAt(v, ui, ui', u) /\ OnlyAt(v, toHost, toHost', Append(q, ask))
    BY <1>1, <2>1, <2>2 DEF OnlyAt, q
  <2>. QED
    BY <1>4, <2>3, <2>5, <2>7, <2>8
<1>. QED
  BY <1>5, <1>6

LEMMA SwitchStepInv == SwitchInv /\ [Monitors!Next]_monitors => SwitchInv'
<1>. SUFFICES ASSUME SwitchInv, [Monitors!Next]_monitors PROVE SwitchInv'
  OBVIOUS
<1>1. CASE UNCHANGED <<host, joined, toHost, toViewer, ui>>
  BY <1>1, NobodyNotices
<1>2. CASE UNCHANGED monitors
  BY <1>1, <1>2 DEF monitors
<1>3. CASE Monitors!CaptureStarts \/ Monitors!Grab \/ Monitors!Plug
  BY <1>1, <1>3 DEF Monitors!CaptureStarts, Monitors!Grab, Monitors!Plug, Monitors!links
<1>4. CASE Monitors!AutoSwitchStep \/ Monitors!CheckMonitorChanges \/ Monitors!HostStops
             \/ Monitors!HostStarts
  BY <1>4, AutoSwitchInv, MonitorsCheckedInv, HostEndsInv
<1>5. ASSUME NEW v \in Viewers,
             Monitors!HostReads(v) \/ Monitors!ViewerReads(v) \/ Monitors!Join(v) \/ Monitors!Leave(v)
      PROVE  SwitchInv'
  <2>1. CASE Monitors!HostReads(v)
    <3>1. CASE Monitors!HostObeys(v)
      BY <3>1, HostObeysInv
    <3>2. CASE Monitors!HostAnswersList(v) \/ Monitors!HostSwitches(v)
      BY <3>2, HostAnswersInv
    <3>. QED
      BY <2>1, <3>1, <3>2 DEF Monitors!HostReads
  <2>2. CASE Monitors!ViewerReads(v)
    BY <2>2, ViewerReadsInv
  <2>3. CASE Monitors!Join(v) \/ Monitors!Leave(v)
    BY <2>3, SessionInv
  <2>. QED
    BY <1>5, <2>1, <2>2, <2>3
<1>6. ASSUME NEW v \in Viewers,
             (\E i : Monitors!PickMonitor(v, i))
               \/ \E kind \in Monitors!Buttons : Monitors!PressButton(v, kind)
      PROVE  SwitchInv'
  BY <1>6, ClickInv
<1>. QED
  BY <1>2, <1>3, <1>4, <1>5, <1>6 DEF Monitors!Next

(* A viewer that was told of the automatic switching shows, once nothing   *)
(* is under way between it and the host, what the host does, for any       *)
(* number of viewers that press their buttons at the same time             *)
(* (Host::broadcastAutoSwitchStatus): controls that differ from the last   *)
(* status wait for a request of their own that the host is going to        *)
(* accept, and tell all of.                                                *)
THEOREM AutoSwitchIsTold == MCSpec => []AutoSwitchTold
<1>1. MCInit => SwitchInv
  <2>. SUFFICES ASSUME Monitors!Hosts, Monitors!Nobody PROVE SwitchInv
    BY DEF MCInit
  <2>1. /\ joined = {} /\ toHost = [v \in Viewers |-> <<>>] /\ toViewer = [v \in Viewers |-> <<>>]
        /\ ui = [v \in Viewers |-> Monitors!Controls]
    BY DEF Monitors!Nobody
  <2>2. {"active", "paused", "upcoming", "known", "running"} \subseteq DOMAIN host
    BY DEF Monitors!Hosts
  <2>3. DOMAIN Monitors!Controls = Fields
    BY DEF Monitors!Controls, Fields
  <2>4. IsLine(<<>>) /\ AllOf(<<>>, Requests) /\ AllOf(<<>>, Kinds)
    BY DEF IsLine, AllOf
  <2>5. SwitchTyped
    BY <2>1, <2>2, <2>3, <2>4 DEF SwitchTyped
  <2>. QED
    BY <2>1, <2>5 DEF SwitchInv, ShownWell
<1>2. SwitchInv /\ [MCNext]_<<part, vars, monitors, encoder>> => SwitchInv'
  <2>. SUFFICES ASSUME SwitchInv, [MCNext]_<<part, vars, monitors, encoder>> PROVE SwitchInv'
    OBVIOUS
  <2>1. [Monitors!Next]_monitors
    BY DEF MCNext, RelayStep, MonitorsStep, EncoderStep
  <2>. QED
    BY <2>1, SwitchStepInv
<1>3. SwitchInv => AutoSwitchTold
  <2>. SUFFICES ASSUME SwitchInv, NEW v \in joined, ui[v].heard, toHost[v] = <<>>,
                       toViewer[v] = <<>>
                PROVE  /\ ui[v].told = Monitors!StateOf(host)
                       /\ ui[v].pressed = (Monitors!StateOf(host) = "paused")
    BY DEF AutoSwitchTold, Monitors!AutoSwitchTold
  <2>1. v \in Viewers
    BY DEF SwitchInv, SwitchTyped
  <2>2. ~HasStatus(toViewer[v]) /\ \A kind : ~Contains(toHost[v], kind)
    BY DEF HasStatus, Contains
  <2>3. Settled(ui[v], toHost[v], Monitors!StateOf(host))
    BY <2>1, <2>2 DEF SwitchInv, ShownWell, Follows
  <2>4. Monitors!StateOf(host) \in {"stopped", "paused", "active"}
    BY DEF Monitors!StateOf
  <2>. QED
    BY <2>2, <2>3, <2>4 DEF Settled
<1>. QED
  BY <1>1, <1>2, <1>3, PTL DEF MCSpec
=============================================================================
