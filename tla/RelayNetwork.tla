---------------------------- MODULE RelayNetwork ----------------------------
(***************************************************************************)
(* A controller reaches a host through a relay: RelayServer                *)
(* (src/src/app/relay_server.cpp), the NatTraversal each of the two keeps  *)
(* its relay connection with, P2PManager, and the part of RemoteController *)
(* that tries a direct connection and falls back to the relay.  A TCP      *)
(* connection to the relay is a socket with lines under way both ways and  *)
(* two ends that close on their own; a slot is used again when both are.   *)
(* Sockets have nothing unsent when they are closed: their end is reported *)
(* at once.                                                                *)
(***************************************************************************)
EXTENDS Naturals, Sequences

CONSTANTS
  Sockets,    \* connections to the relay that exist at a time
  MaxLines,   \* bound: lines a device has not read when the relay reads on
  MaxEvents   \* bound: what users start and stop, failing connections and
              \* restarts of the relay

\* A socket is none of the other values of session.
ASSUME SocketAssumption == {"none", "direct"} \cap Sockets = {}

VARIABLES
  relay,    \* m_registeredPeers, m_peerIds, m_bridges, the sockets that only
            \* forward, the open ones
  secret,   \* the relay wants a token: only the controller has one
  owner,    \* socket -> the device that made it
  mine,     \* sockets whose device has its end open
  up, down, \* socket -> lines to and from the relay
  nat,      \* device -> relayState, m_socket and the timer of NatTraversal
  punching, \* devices whose P2PManager punches
  p2p,      \* m_p2pInProgress of the controller
  active,   \* its m_active
  session,  \* its m_connection: None, Direct or a socket
  pending,  \* its m_pendingDeviceId is set
  safety,   \* its m_relayFallbackTimer
  clients,  \* sockets the host took as clients
  events

controller == <<p2p, active, session, pending, safety>>
network == <<relay, up, down>>
vars == <<network, secret, owner, mine, nat, punching, controller, clients, events>>

Devices == {"ctrl", "host"}
None == "none"
Direct == "direct"
States == {"Disconnected", "Connecting", "Registered", "Error"}

Free == {s \in Sockets : s \notin mine \cup relay.open /\ up[s] = <<>> /\ down[s] = <<>>}

NoRelay ==
  [registered |-> [d \in Devices |-> None], peerId |-> [s \in Sockets |-> None],
   bridge |-> [s \in Sockets |-> None], raw |-> {}, open |-> {}]
Idle == [state |-> "Disconnected", socket |-> None, timer |-> FALSE]

Init ==
  /\ relay = NoRelay /\ secret \in BOOLEAN
  /\ owner = [s \in Sockets |-> None] /\ mine = {}
  /\ up = [s \in Sockets |-> <<>>] /\ down = [s \in Sockets |-> <<>>]
  \* The host is on.
  /\ nat = [d \in Devices |-> IF d = "host" THEN [Idle EXCEPT !.state = "Connecting"] ELSE Idle]
  /\ punching = {}
  /\ p2p = FALSE /\ active = FALSE /\ session = None /\ pending = FALSE /\ safety = FALSE
  /\ clients = {} /\ events = 0

-----------------------------------------------------------------------------
(* The relay.                                                              *)

Mate(r, s) == {r.bridge[s]} \ {None}

\* onClientDisconnected of sockets: the registration goes by the name.
Gone(r, ends) ==
  [registered |-> [d \in Devices |-> IF \E s \in ends : r.peerId[s] = d THEN None
                                     ELSE r.registered[d]],
   peerId |-> [s \in Sockets |-> IF s \in ends THEN None ELSE r.peerId[s]],
   bridge |-> [s \in Sockets |-> IF s \in ends THEN None ELSE r.bridge[s]],
   raw |-> r.raw \ ends, open |-> r.open \ ends]

\* sendLine; a device that closed its end reads nothing.
Sent(lines, ends, more) ==
  [s \in Sockets |-> IF s \in ends \cap mine THEN lines[s] \o more ELSE lines[s]]
Dropped(lines, ends) == [s \in Sockets |-> IF s \in ends THEN <<>> ELSE lines[s]]
Read(s) == [up EXCEPT ![s] = Tail(@)]

\* Mutant: the other end of the bridge is left open.
ClientDisconnectedAlone(s) ==
  /\ relay' = Gone(relay, {s})
  /\ up' = Dropped(up, {s})
  /\ UNCHANGED down

\* The other end of its bridge is closed with it.
ClientDisconnected(s) ==
  LET other == Mate(relay, s)
  IN  /\ relay' = Gone(relay, {s} \cup other)
      /\ up' = Dropped(up, {s} \cup other)
      /\ down' = Sent(down, other, <<"BRIDGE_CLOSED", "END">>)

Registering(r, s) == [r EXCEPT !.registered[owner[s]] = s, !.peerId[s] = owner[s]]

\* Mutant: the new registration is written before the old socket is closed.
RegisteredTooSoon(s, ends) == Gone(Registering(relay, s), ends)

RegisteredAnew(s, ends) == Registering(Gone(relay, ends), s)

\* REGISTER: the socket registered before is kicked, with the bridge it has.
Register(s) ==
  LET old == {relay.registered[owner[s]]} \ {None, s}
      mates == UNION {Mate(relay, o) : o \in old}
  IN  /\ relay' = RegisteredAnew(s, old \cup mates)
      /\ up' = Dropped(Read(s), old \cup mates)
      /\ down' = Sent(Sent(Sent(down, old, <<"KICKED", "END">>),
                           mates, <<"BRIDGE_CLOSED", "END">>), {s}, <<"REGISTERED">>)

Answer(s, lines) ==
  /\ up' = Read(s) /\ down' = Sent(down, {s}, lines)
  /\ UNCHANGED relay

Target(s) == relay.registered["host"]
NotFound(s) == relay.peerId[s] = None \/ Target(s) = None

Connect(s) ==
  /\ relay' = [relay EXCEPT !.bridge[s] = Target(s), !.bridge[Target(s)] = s,
                            !.raw = @ \cup {Target(s)}]
  /\ up' = Read(s)
  /\ down' = Sent(down, {s, Target(s)}, <<"BRIDGE">>)

Punch(s) ==
  /\ up' = Read(s) /\ down' = Sent(down, {s, Target(s)}, <<"PEER_ADDR">>)
  /\ UNCHANGED relay

\* A bridged socket's bytes go to the other end, whatever they are.
Forward(s) ==
  /\ up' = Read(s) /\ down' = Sent(down, Mate(relay, s), <<"RAW">>)
  /\ UNCHANGED relay

\* onClientData and processLine.
RelayReads(s) ==
  /\ s \in relay.open /\ up[s] # <<>>
  /\ \A t \in Sockets : Len(down[t]) < MaxLines
  /\ LET line == Head(up[s])
         bridged == relay.bridge[s] # None \/ s \in relay.raw
         refused == secret /\ owner[s] # "ctrl"
     IN  \/ line = "END" /\ ClientDisconnected(s)
         \/ line # "END" /\ bridged /\ Forward(s)
         \/ line = "REGISTER" /\ ~bridged /\ ~refused /\ Register(s)
         \/ line = "REGISTER" /\ ~bridged /\ refused /\ Answer(s, <<"AUTH_FAILED">>)
         \/ line \in {"PUNCH", "CONNECT"} /\ ~bridged /\ NotFound(s) /\ Answer(s, <<"NOT_FOUND">>)
         \/ line = "CONNECT" /\ ~bridged /\ ~NotFound(s) /\ Connect(s)
         \/ line = "PUNCH" /\ ~bridged /\ ~NotFound(s) /\ Punch(s)
  /\ UNCHANGED <<secret, owner, mine, nat, punching, controller, clients, events>>

-----------------------------------------------------------------------------
(* The relay connection of a device.                                       *)

\* A device closes sockets: what the relay wrote is not read.
Closing(ends) ==
  /\ mine' = mine \ ends
  /\ up' = [s \in Sockets |-> IF s \in ends \cap mine \cap relay.open THEN Append(up[s], "END")
                              ELSE up[s]]
  /\ down' = Dropped(down, ends)

\* Aborting an open socket reports its end, and that starts the timer, which
\* repeats and which no success stops.
ConnectToRelay(d) ==
  /\ nat' = [nat EXCEPT ![d] = [state |-> "Connecting", socket |-> None,
                               timer |-> @.timer \/ @.socket \in mine]]
  /\ Closing({nat[d].socket})
  /\ UNCHANGED <<relay, owner>>

\* onConnected.
Connected(d) ==
  /\ nat[d].state = "Connecting" /\ nat[d].socket = None
  /\ \E s \in Free :
       /\ mine' = mine \cup {s} /\ owner' = [owner EXCEPT ![s] = d]
       /\ relay' = [relay EXCEPT !.open = @ \cup {s}]
       /\ up' = [up EXCEPT ![s] = <<"REGISTER">>]
       /\ nat' = [nat EXCEPT ![d].socket = s]
  /\ UNCHANGED <<down, secret, punching, controller, clients, events>>

\* Mutant: the controller hears nothing of it.
ConnectFailsQuietly(d) ==
  /\ nat[d].state = "Connecting" /\ nat[d].socket = None
  /\ nat' = [nat EXCEPT ![d].state = "Error"]
  /\ UNCHANGED <<network, secret, owner, mine, punching, controller, clients, events>>

\* onError of a connection that was not made: nothing starts the timer.
ConnectFails(d) ==
  /\ nat[d].state = "Connecting" /\ nat[d].socket = None
  /\ nat' = [nat EXCEPT ![d].state = "Error"]
  /\ p2p' = (p2p /\ d # "ctrl")
  /\ UNCHANGED <<network, secret, owner, mine, punching, active, session, pending, safety,
                 clients, events>>

\* Every 5 s, whatever the state; an attempt ends and the relay answers within
\* that time, which the guard says.
ReconnectTimer(d) ==
  /\ nat[d].timer /\ nat[d].state # "Connecting"
  /\ nat[d].socket # None => (up[nat[d].socket] = <<>> /\ down[nat[d].socket] = <<>>)
  /\ ConnectToRelay(d)
  /\ UNCHANGED <<secret, punching, controller, clients, events>>

\* A line of the relay connection of d.
ControlReads(s) ==
  LET d == owner[s]
      line == Head(down[s])
      tail == [down EXCEPT ![s] = Tail(@)]
      fallback == d = "ctrl" /\ p2p
      registered == nat[d].state = "Registered"
      Becomes(state) == nat' = [nat EXCEPT ![d].state = state]
      Writes(more) == up' = [up EXCEPT ![s] = IF s \in relay.open THEN @ \o more ELSE @]
  IN  \/ /\ line = "REGISTERED" /\ Becomes("Registered") /\ down' = tail
         /\ IF d = "ctrl" /\ pending THEN Writes(<<"PUNCH">>) /\ safety' = TRUE
            ELSE UNCHANGED <<up, safety>>
         /\ UNCHANGED <<mine, punching, p2p, active, session, clients>>
      \/ /\ line = "PEER_ADDR" /\ punching' = punching \cup {d} /\ down' = tail
         /\ UNCHANGED <<up, mine, nat, p2p, active, session, safety, clients>>
      \* The session before is closed, the 6 s timer is not stopped.
      \/ /\ line = "BRIDGE" /\ d = "ctrl"
         /\ nat' = [nat EXCEPT ![d].state = "Disconnected", ![d].socket = None]
         /\ session' = s /\ active' = TRUE /\ p2p' = FALSE
         /\ mine' = mine \ {session}
         /\ up' = [x \in Sockets |-> IF x = session /\ x \in mine \cap relay.open
                                    THEN Append(up[x], "END") ELSE up[x]]
         /\ down' = Dropped(tail, {session})
         /\ UNCHANGED <<punching, safety, clients>>
      \/ /\ line = "BRIDGE" /\ d = "host"
         /\ nat' = [nat EXCEPT ![d].state = "Disconnected", ![d].socket = None]
         /\ clients' = clients \cup {s} /\ down' = tail
         /\ UNCHANGED <<up, mine, punching, p2p, active, session, safety>>
      \/ /\ line = "NOT_FOUND" /\ down' = tail
         /\ IF fallback /\ registered THEN Writes(<<"CONNECT">>) ELSE UNCHANGED up
         /\ p2p' = (p2p /\ registered)
         /\ UNCHANGED <<mine, nat, punching, active, session, safety, clients>>
      \/ /\ line = "AUTH_FAILED" /\ Becomes("Error") /\ down' = tail
         /\ UNCHANGED <<up, mine, punching, p2p, active, session, safety, clients>>
      \/ /\ line = "BRIDGE_CLOSED" /\ Becomes("Disconnected") /\ down' = tail
         /\ UNCHANGED <<up, mine, punching, p2p, active, session, safety, clients>>
      \* KICKED closes, which reports the end; the end of the relay is an error
      \* first, and the fallback of the error fails.
      \/ /\ line \in {"KICKED", "END"}
         /\ nat' = [nat EXCEPT ![d] = [state |-> "Disconnected", socket |-> None, timer |-> TRUE]]
         /\ p2p' = (p2p /\ ~(line = "END" /\ d = "ctrl"))
         /\ IF line = "KICKED" THEN Closing({s})
            ELSE mine' = mine \ {s} /\ down' = Dropped(down, {s}) /\ UNCHANGED up
         /\ UNCHANGED <<punching, active, session, safety, clients>>

\* A socket that was handed over: what comes is for the protocol.
SessionReads(s) ==
  /\ IF Head(down[s]) = "END"
     THEN /\ mine' = mine \ {s} /\ clients' = clients \ {s} /\ down' = Dropped(down, {s})
          /\ session' = IF session = s THEN None ELSE session
     ELSE down' = [down EXCEPT ![s] = Tail(@)] /\ UNCHANGED <<mine, clients, session>>
  /\ UNCHANGED <<up, nat, punching, p2p, active, safety>>

DeviceReads(s) ==
  /\ s \in mine /\ down[s] # <<>>
  /\ \/ nat[owner[s]].socket = s /\ ControlReads(s)
     \/ nat[owner[s]].socket # s /\ SessionReads(s)
  /\ UNCHANGED <<relay, secret, owner, pending, events>>

-----------------------------------------------------------------------------
(* Punching and falling back.                                              *)

\* P2PManager::onConnected; nobody takes the socket of the host.
PunchSucceeds(d) ==
  /\ d \in punching /\ punching' = punching \ {d}
  /\ IF d = "ctrl"
     THEN /\ p2p' = FALSE /\ active' = TRUE /\ session' = Direct /\ safety' = FALSE
          /\ Closing({session})
     ELSE UNCHANGED <<p2p, active, session, safety, mine, up, down>>
  /\ UNCHANGED <<relay, secret, owner, nat, pending, clients, events>>

\* fallbackToRelay: whether or not there is a connection by now.
FallbackToRelay ==
  LET s == nat["ctrl"].socket
      registered == nat["ctrl"].state = "Registered"
  IN  /\ up' = [x \in Sockets |-> IF registered /\ x = s /\ s \in relay.open
                                 THEN Append(up[x], "CONNECT") ELSE up[x]]
      /\ p2p' = (p2p /\ registered)

\* After 4 s.
PunchTimeout(d) ==
  /\ d \in punching /\ punching' = punching \ {d}
  /\ IF d = "ctrl" THEN FallbackToRelay ELSE UNCHANGED <<up, p2p>>
  /\ UNCHANGED <<relay, down, secret, owner, mine, nat, active, session, pending, safety,
                 clients, events>>

\* onRelayFallbackTimeout, 6 s after the registration.
RelayFallbackTimeout ==
  /\ safety /\ safety' = FALSE
  /\ FallbackToRelay
  /\ UNCHANGED <<relay, down, secret, owner, mine, nat, punching, active, session, pending,
                 clients, events>>

-----------------------------------------------------------------------------
(* The users.                                                              *)

User == events < MaxEvents /\ events' = events + 1 /\ UNCHANGED secret

\* startRemoteByDevice and beginP2PConnect.
StartRemote ==
  /\ User /\ ~active
  /\ p2p' = TRUE /\ pending' = TRUE
  /\ IF nat["ctrl"].state = "Registered"
     THEN /\ safety' = TRUE
          /\ up' = [s \in Sockets |-> IF s = nat["ctrl"].socket /\ s \in relay.open
                                     THEN Append(up[s], "PUNCH") ELSE up[s]]
          /\ UNCHANGED <<relay, down, owner, mine, nat>>
     ELSE ConnectToRelay("ctrl") /\ UNCHANGED safety
  /\ UNCHANGED <<punching, active, session, clients>>

StopRemote ==
  /\ User /\ (active \/ p2p)
  /\ active' = FALSE /\ p2p' = FALSE /\ safety' = FALSE /\ session' = None
  /\ punching' = punching \ {"ctrl"}
  /\ Closing({session})
  /\ UNCHANGED <<relay, owner, nat, pending, clients>>

\* onToggleHost, and the settings dialog of a host.
HostConnects ==
  /\ User /\ ConnectToRelay("host")
  /\ UNCHANGED <<punching, controller, clients>>

\* disconnectFromRelay: closing starts the timer it has just stopped.
HostDisconnects ==
  /\ User
  /\ nat' = [nat EXCEPT !["host"] = [Idle EXCEPT !.timer = nat["host"].socket \in mine]]
  /\ Closing({nat["host"].socket})
  /\ UNCHANGED <<relay, owner, punching, controller, clients>>

-----------------------------------------------------------------------------
(* Failures.                                                               *)

Fault == events < MaxEvents /\ events' = events + 1

ConnectionFails(s) ==
  /\ Fault /\ s \in mine \cap relay.open
  /\ up' = [up EXCEPT ![s] = <<"END">>] /\ down' = [down EXCEPT ![s] = <<"END">>]
  /\ UNCHANGED <<relay, secret, owner, mine, nat, punching, controller, clients>>

RelayRestarts ==
  /\ Fault /\ relay.open # {}
  /\ relay' = NoRelay /\ up' = Dropped(up, Sockets)
  /\ down' = Sent(down, relay.open, <<"END">>)
  /\ UNCHANGED <<secret, owner, mine, nat, punching, controller, clients>>

Next ==
  \/ \E s \in Sockets : RelayReads(s) \/ DeviceReads(s) \/ ConnectionFails(s)
  \/ \E d \in Devices : \/ Connected(d) \/ ConnectFails(d) \/ ReconnectTimer(d)
                        \/ PunchSucceeds(d) \/ PunchTimeout(d)
  \/ RelayFallbackTimeout \/ StartRemote \/ StopRemote \/ HostConnects \/ HostDisconnects
  \/ RelayRestarts

\* Lines are read, connections made or refused, timers fire.
Spec ==
  /\ Init /\ [][Next]_vars
  /\ \A s \in Sockets : WF_vars(RelayReads(s)) /\ WF_vars(DeviceReads(s))
  /\ \A d \in Devices : WF_vars(Connected(d) \/ ConnectFails(d)) /\ WF_vars(PunchTimeout(d))
                        /\ WF_vars(ReconnectTimer(d))
  /\ WF_vars(RelayFallbackTimeout)

-----------------------------------------------------------------------------
Answers ==
  {"REGISTERED", "PEER_ADDR", "BRIDGE", "RAW", "NOT_FOUND", "AUTH_FAILED", "BRIDGE_CLOSED",
   "KICKED", "END"}
Asks == {"REGISTER", "PUNCH", "CONNECT", "END"}

TypeOK ==
  /\ relay \in [registered : [Devices -> Sockets \cup {None}],
                peerId : [Sockets -> Devices \cup {None}],
                bridge : [Sockets -> Sockets \cup {None}],
                raw : SUBSET Sockets, open : SUBSET Sockets]
  /\ secret \in BOOLEAN
  /\ owner \in [Sockets -> Devices \cup {None}] /\ mine \subseteq Sockets
  /\ up \in [Sockets -> Seq(Asks)] /\ down \in [Sockets -> Seq(Answers)]
  /\ nat \in [Devices -> [state : States, socket : Sockets \cup {None}, timer : BOOLEAN]]
  /\ punching \subseteq Devices /\ clients \subseteq Sockets
  /\ p2p \in BOOLEAN /\ active \in BOOLEAN /\ pending \in BOOLEAN /\ safety \in BOOLEAN
  /\ session \in Sockets \cup {None, Direct}
  /\ events \in Nat

(* A name is registered for the open socket that registered under it, and  *)
(* for no other: however a new registration, the kick of the older socket  *)
(* and the ends of both overtake each other, the two tables agree.         *)
(* (REGISTER, relay_server.cpp:211; onClientDisconnected, :155)            *)
RegisteredIsOpen ==
  \A d \in Devices, s \in Sockets :
    relay.registered[d] = s <=> s \in relay.open /\ relay.peerId[s] = d

(* The two ends of a bridge point at each other and end together.          *)
(* (CONNECT, relay_server.cpp:237; onClientDisconnected, :175)             *)
BridgesPaired ==
  \A s \in Sockets : LET t == relay.bridge[s] IN
    t # None => s \in relay.open /\ t \in relay.open /\ relay.bridge[t] = s

(* An attempt to reach a registered host ends: with a connection, with an  *)
(* error or with a stop, whichever of the punch, the timer and the relay   *)
(* answers first and whatever connection fails.                            *)
(* (beginP2PConnect ... fallbackToRelay, remote_controller.cpp:1710)       *)
AttemptSettles == p2p ~> (~p2p \/ relay.registered["host"] = None)
=============================================================================
