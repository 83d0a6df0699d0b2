---------------------------- MODULE TcpConnection ---------------------------
(***************************************************************************)
(* The connection of a controller, src/src/core/tcp_connection.cpp: it     *)
(* cuts messages out of a stream and, on a local network, makes the        *)
(* connection again when it ends, a bounded number of times.  A message is *)
(* two parts, the first with the header; a stream carries the parts sent   *)
(* since the connection was made and ends anywhere.                        *)
(***************************************************************************)
EXTENDS Naturals, Sequences

CONSTANTS
  MaxAttempts,  \* m_maxReconnectAttempts
  MaxMessages,  \* bound: messages the peer sends
  MaxEnds       \* bound: ends of connections that were made

VARIABLES
  state,     \* m_state
  enabled,   \* m_reconnectEnabled
  manual,    \* m_manualDisconnect
  attempt,   \* m_currentReconnectAttempt
  timer,     \* m_reconnectTimer runs
  socket,    \* m_socket: connected, connecting or closed
  stream,    \* parts sent and not read
  buffer,    \* m_buffer
  received,  \* messages given to the receiver
  next,      \* the message the peer sends next, and the parts of it sent
  settled,   \* the last end is one nothing follows: reconnecting was off, or
             \* an attempt ended in an error that is not taken up
  reported,  \* reconnectFailed was emitted
  ends

vars == <<state, enabled, manual, attempt, timer, socket, stream, buffer, received, next,
          settled, reported, ends>>

States == {"Connected", "Reconnecting", "Disconnected", "Failed"}
Errors == {"refused", "network", "other"}
Part(n, k) == [message |-> n, part |-> k]

Init ==
  /\ state = "Connected" /\ enabled \in BOOLEAN /\ manual = FALSE /\ attempt = 0 /\ timer = FALSE
  /\ socket = "connected" /\ stream = <<>> /\ buffer = <<>> /\ received = <<>>
  /\ next = Part(1, 1) /\ settled = FALSE /\ reported = FALSE /\ ends = 0

-----------------------------------------------------------------------------
(* Receiving.                                                              *)

\* The peer writes; a message of an old connection is not sent again.
PeerWrites ==
  /\ socket = "connected" /\ next.message <= MaxMessages
  /\ stream' = Append(stream, next)
  /\ next' = IF next.part = 1 THEN Part(next.message, 2) ELSE Part(next.message + 1, 1)
  /\ UNCHANGED <<state, enabled, manual, attempt, timer, socket, buffer, received, settled,
                 reported, ends>>

\* Mutant: the check sum is not looked at.
IntactUnchecked(b) == TRUE

\* verifyChecksum of the first message of a buffer.
Intact(b) == b[1].message = b[2].message /\ b[2].part = 2

\* processBuffer: a buffer that starts with no header is kept and waits.
ProcessBuffer(whole) ==
  LET process[b \in Seq([message : Nat, part : {1, 2}])] ==
        IF Len(b) < 2 \/ b[1].part = 2 THEN [buffer |-> b, messages |-> <<>>]
        ELSE LET rest == process[SubSeq(b, 3, Len(b))]
             IN  [buffer |-> rest.buffer,
                  messages |-> IF Intact(b) THEN <<SubSeq(b, 1, 2)>> \o rest.messages
                               ELSE rest.messages]
  IN  process[whole]

ReadyRead ==
  /\ socket = "connected" /\ stream # <<>>
  /\ \E n \in 1 .. Len(stream) :
       LET p == ProcessBuffer(buffer \o SubSeq(stream, 1, n))
       IN  /\ buffer' = p.buffer /\ received' = received \o p.messages
           /\ stream' = SubSeq(stream, n + 1, Len(stream))
  /\ UNCHANGED <<state, enabled, manual, attempt, timer, socket, next, settled, reported, ends>>

-----------------------------------------------------------------------------
(* Ends and attempts.                                                      *)

Lost == stream' = <<>> /\ next' = IF next.part = 2 THEN Part(next.message + 1, 1) ELSE next

\* RemoteHostClosedError or NetworkError and then disconnected; the error
\* alone starts the timer, whatever the attempts.
ConnectionEnds ==
  /\ socket = "connected" /\ ends < MaxEnds /\ ends' = ends + 1
  /\ socket' = "closed" /\ Lost
  /\ IF enabled /\ ~manual THEN timer' = TRUE ELSE UNCHANGED timer
  /\ \/ enabled /\ ~manual /\ attempt < MaxAttempts /\ UNCHANGED <<state, reported>>
     \/ enabled /\ ~manual /\ attempt >= MaxAttempts /\ state' = "Failed" /\ reported' = TRUE
     \/ ~(enabled /\ ~manual) /\ state' = "Disconnected" /\ UNCHANGED reported
  /\ settled' = ~enabled
  /\ UNCHANGED <<enabled, manual, attempt, buffer, received>>

\* onReconnectTimer.
ReconnectTimer ==
  /\ timer /\ timer' = FALSE
  /\ IF attempt >= MaxAttempts
     THEN state' = "Failed" /\ reported' = TRUE /\ UNCHANGED <<attempt, socket>>
     ELSE state' = "Reconnecting" /\ attempt' = attempt + 1 /\ socket' = "connecting"
          /\ UNCHANGED reported
  /\ UNCHANGED <<enabled, manual, stream, buffer, received, next, settled, ends>>

\* Nobody listens to `connected': the state stays and the attempts count on.
AttemptSucceeds ==
  /\ socket = "connecting" /\ socket' = "connected"
  /\ UNCHANGED <<state, enabled, manual, attempt, timer, stream, buffer, received, next, settled,
                 reported, ends>>

\* Mutant: a refused attempt is not tried again.
AttemptFailsOnce(error) ==
  /\ socket = "connecting" /\ socket' = "closed"
  /\ timer' = (timer \/ (enabled /\ ~manual /\ error = "network"))
  /\ settled' = (~enabled \/ error = "other")
  /\ UNCHANGED <<state, enabled, manual, attempt, stream, buffer, received, next, reported, ends>>

\* onSocketError: after a time-out or an unknown host nothing follows.
AttemptFails(error) ==
  /\ socket = "connecting" /\ socket' = "closed"
  /\ timer' = (timer \/ (enabled /\ ~manual /\ error \in {"refused", "network"}))
  /\ settled' = (~enabled \/ error = "other")
  /\ UNCHANGED <<state, enabled, manual, attempt, stream, buffer, received, next, reported, ends>>

\* disconnectFromHost; only an open socket reports its end.
DisconnectFromHost ==
  /\ ~manual /\ manual' = TRUE /\ timer' = FALSE /\ attempt' = 0
  /\ socket' = "closed" /\ Lost
  /\ state' = IF socket = "connected" THEN "Disconnected" ELSE state
  /\ UNCHANGED <<enabled, buffer, received, settled, reported, ends>>

\* setAutoReconnect of the controller.
SetReconnectEnabled ==
  /\ enabled' = ~enabled
  /\ UNCHANGED <<state, manual, attempt, timer, socket, stream, buffer, received, next, settled,
                 reported, ends>>

Next ==
  \/ PeerWrites \/ ReadyRead \/ ConnectionEnds \/ ReconnectTimer \/ AttemptSucceeds
  \/ \E error \in Errors : AttemptFails(error)
  \/ DisconnectFromHost \/ SetReconnectEnabled

\* The timer fires, an attempt ends.
Spec ==
  /\ Init /\ [][Next]_vars
  /\ WF_vars(ReconnectTimer)
  /\ WF_vars(AttemptSucceeds \/ \E error \in Errors : AttemptFails(error))

-----------------------------------------------------------------------------
TypeOK ==
  /\ state \in States /\ socket \in {"connected", "connecting", "closed"}
  /\ attempt \in 0 .. MaxAttempts

(* The receiver gets messages as they were sent, in their order and none   *)
(* twice, wherever a stream ended and whatever is left of it.              *)
(* (processBuffer, tcp_connection.cpp:243)                                 *)
NoMixedMessages ==
  \A i \in DOMAIN received :
    /\ received[i][1].message = received[i][2].message
    /\ \A j \in 1 .. i - 1 : received[j][1].message < received[i][1].message

(* A connection that ended is made again or the failure is reported: it is *)
(* never left with neither a timer nor an attempt nor an answer, unless    *)
(* reconnecting was off or after an error the code does not take up.       *)
(* (onSocketError, onReconnectTimer, tcp_connection.cpp:169)               *)
GivesUpAloud ==
  socket = "closed" ~> (socket = "connected" \/ reported \/ manual \/ settled)
=============================================================================
