---------------------------- MODULE OfflineMail -----------------------------
(***************************************************************************)
(* Text messages of the messenger and the queue for peers that cannot be   *)
(* reached, src/src/app/ipmsg_manager.cpp, from one sender to one receiver *)
(* whose network is cut, or which stops and starts.  A device makes its id *)
(* anew each time it starts (74); its address stays, and whoever runs      *)
(* there reads what is sent to it.  A message has a TCP connection of its  *)
(* own, which neither end closes after it was read; the queue is a table   *)
(* of the sender by the id of the receiver, tried every thirty seconds.    *)
(***************************************************************************)
EXTENDS Naturals, FiniteSets

CONSTANTS
  Msgs,      \* what the user sends
  MaxStarts, \* bound: starts of the receiver
  MaxStops,  \* bound: stops of the receiver, of the sender, and failing connections
  Window     \* bound: batches and acknowledgements under way

VARIABLES
  online,   \* the receiver runs and is reached
  self,     \* its id, or the one of its next start: the number of its starts
  known,    \* the receiver's ids in the sender's m_devices
  met,      \* those in the sender's table of devices
  blocked,  \* the receiver blocks the sender's id
  link,     \* message -> its connection
  target,   \* message -> the id it was sent to, 0: not sent, or to none in m_devices
  queue,    \* offline_messages: message -> none, waiting, delivered or removed
  batches,  \* OFFLINE_MSG under way
  acks,     \* OFFLINE_DELIVERED under way
  inbox,    \* message -> copies the receiver saved, two for more
  stops,
  excused   \* dropped as blocked, or neither written nor read when the sender stopped

vars == <<online, self, known, met, blocked, link, target, queue, batches, acks, inbox, stops,
          excused>>

Ids == 1 .. MaxStarts
Lost == {"connecting", "written", "broken"}  \* what the end of the sender loses
Waiting(id) == {m \in Msgs : queue[m] = "waiting" /\ target[m] = id}
Saved(box, ms) == [m \in Msgs |-> IF m \in ms /\ box[m] < 2 THEN box[m] + 1 ELSE box[m]]

Init ==
  /\ online \in BOOLEAN /\ self = 1 /\ known = {} /\ met = {} /\ blocked \in BOOLEAN
  /\ link = [m \in Msgs |-> "none"] /\ target = [m \in Msgs |-> 0]
  /\ queue = [m \in Msgs |-> "none"]
  /\ batches = {} /\ acks = {}
  /\ inbox = [m \in Msgs |-> 0] /\ stops = 0 /\ excused = {}

-----------------------------------------------------------------------------
(* Presence.                                                               *)

Hello ==
  /\ online /\ known' = known \cup {self} /\ met' = met \cup {self}
  /\ UNCHANGED <<online, self, blocked, link, target, queue, batches, acks, inbox, stops, excused>>

\* Thirty seconds without a HELLO of this id; the LEAVE of a stop is no
\* document and is ignored.
Stale(id) ==
  /\ id \in known /\ ~(online /\ id = self)
  /\ known' = known \ {id}
  /\ UNCHANGED <<online, self, met, blocked, link, target, queue, batches, acks, inbox, stops, excused>>

-----------------------------------------------------------------------------
(* Messages.                                                               *)

\* sendMessage: the first entry of m_devices with the receiver's address is its
\* id; without one it is sent to as well, and not queued for.
SendMessage(m) ==
  /\ link[m] = "none" /\ queue[m] = "none" /\ m \notin excused
  /\ link' = [link EXCEPT ![m] = "connecting"]
  /\ \E id \in IF known = {} THEN {0} ELSE known : target' = [target EXCEPT ![m] = id]
  /\ UNCHANGED <<online, self, known, met, blocked, queue, batches, acks, inbox, stops, excused>>

Connected(m) ==
  /\ link[m] = "connecting" /\ online
  /\ link' = [link EXCEPT ![m] = "written"]
  /\ UNCHANGED <<online, self, known, met, blocked, target, queue, batches, acks, inbox, stops, excused>>

\* MSG: from a blocked sender it is dropped.
ReceiveMessage(m) ==
  /\ link[m] = "written" /\ online
  /\ link' = [link EXCEPT ![m] = "read"]
  /\ inbox' = IF blocked THEN inbox ELSE Saved(inbox, {m})
  /\ excused' = IF blocked THEN excused \cup {m} ELSE excused
  /\ UNCHANGED <<online, self, known, met, blocked, target, queue, batches, acks, stops>>

\* Mutant: the end of a connection is only an end.
SendFailsQuietly(m) ==
  /\ link[m] = "broken" \/ (link[m] = "connecting" /\ ~online)
  /\ link' = [link EXCEPT ![m] = "gone"]
  /\ UNCHANGED <<online, self, known, met, blocked, target, queue, batches, acks, inbox, stops, excused>>

\* errorOccurred, the end of the remote one included: queued, whether or not
\* the message was read.
SendFails(m) ==
  /\ link[m] = "broken" \/ (link[m] = "connecting" /\ ~online)
  /\ link' = [link EXCEPT ![m] = "gone"]
  /\ queue' = IF target[m] # 0 THEN [queue EXCEPT ![m] = "waiting"] ELSE queue
  /\ UNCHANGED <<online, self, known, met, blocked, target, batches, acks, inbox, stops, excused>>

-----------------------------------------------------------------------------
(* The queue.                                                              *)

\* retryOfflineMessages of each id in m_devices: a batch of what waits for it.
Retried == {Waiting(id) : id \in known} \ {{}}

\* Mutant: what is sent counts as delivered.
RetryTimerTrusting ==
  /\ Retried # {} /\ Cardinality(batches) < Window
  /\ batches' = batches \cup Retried
  /\ queue' = [m \in Msgs |-> IF m \in UNION Retried \/ queue[m] = "delivered" THEN "delivered" ELSE queue[m]]
  /\ UNCHANGED <<online, self, known, met, blocked, link, target, acks, inbox, stops, excused>>

\* Every 30 s: what was delivered is removed, what waits for an id in m_devices
\* is sent.
RetryTimer ==
  /\ Retried # {} \/ \E m \in Msgs : queue[m] = "delivered"
  /\ Retried # {} => Cardinality(batches) < Window
  /\ batches' = batches \cup Retried
  /\ queue' = [m \in Msgs |-> IF queue[m] = "delivered" THEN "removed" ELSE queue[m]]
  /\ UNCHANGED <<online, self, known, met, blocked, link, target, acks, inbox, stops, excused>>

\* OFFLINE_MSG: saved without a look at the blocked senders or at the id it is
\* for, acknowledged.
ReceiveBatch(b) ==
  /\ b \in batches /\ online /\ Cardinality(acks) < Window
  /\ batches' = batches \ {b}
  /\ inbox' = Saved(inbox, b)
  /\ acks' = acks \cup {b}
  /\ UNCHANGED <<online, self, known, met, blocked, link, target, queue, stops, excused>>

ReceiveDelivered(a) ==
  /\ a \in acks
  /\ acks' = acks \ {a}
  /\ queue' = [m \in Msgs |-> IF m \in a /\ queue[m] = "waiting" THEN "delivered" ELSE queue[m]]
  /\ UNCHANGED <<online, self, known, met, blocked, link, target, batches, inbox, stops, excused>>

-----------------------------------------------------------------------------
(* Failures.                                                               *)

\* A batch or its acknowledgement whose connection fails is not sent again.
LoseBatch(b) ==
  /\ b \in batches /\ (online => stops < MaxStops)
  /\ batches' = batches \ {b}
  /\ stops' = IF online THEN stops + 1 ELSE stops
  /\ UNCHANGED <<online, self, known, met, blocked, link, target, queue, acks, inbox, excused>>

LoseDelivered(a) ==
  /\ a \in acks /\ stops < MaxStops /\ stops' = stops + 1
  /\ acks' = acks \ {a}
  /\ UNCHANGED <<online, self, known, met, blocked, link, target, queue, batches, inbox, excused>>

\* What was written and not read may be lost with the connection; one that is
\* idle notices nothing.
NetworkCut ==
  /\ online /\ stops < MaxStops /\ stops' = stops + 1
  /\ online' = FALSE
  /\ \E ms \in SUBSET {m \in Msgs : link[m] = "written"} :
       link' = [m \in Msgs |-> IF m \in ms THEN "broken" ELSE link[m]]
  /\ UNCHANGED <<self, known, met, blocked, target, queue, batches, acks, inbox, excused>>

\* stop, with the next start in mind: m_userId is made by the constructor.
ReceiverStops ==
  /\ online /\ self < MaxStarts /\ stops < MaxStops /\ stops' = stops + 1
  /\ online' = FALSE /\ self' = self + 1
  /\ link' = [m \in Msgs |-> IF link[m] \in {"written", "read"} THEN "broken" ELSE link[m]]
  /\ UNCHANGED <<known, met, blocked, target, queue, batches, acks, inbox, excused>>

\* The network is back, or the receiver starts.
ReceiverReturns ==
  /\ ~online /\ online' = TRUE
  /\ UNCHANGED <<self, known, met, blocked, link, target, queue, batches, acks, inbox, stops, excused>>

\* stop and start of the sender: its connections end without a signal, its
\* devices are read from the table, and its own id is one nobody blocks.
SenderRestarts ==
  /\ stops < MaxStops /\ stops' = stops + 1
  /\ excused' = excused \cup {m \in Msgs : link[m] \in Lost}
  /\ link' = [m \in Msgs |-> IF link[m] \in Lost \cup {"read"} THEN "gone" ELSE link[m]]
  /\ known' = met /\ blocked' = FALSE
  /\ batches' \in {{}, batches} /\ acks' = {}
  /\ UNCHANGED <<online, self, met, target, queue, inbox>>

Next ==
  \/ Hello \/ RetryTimer \/ NetworkCut \/ ReceiverStops \/ ReceiverReturns \/ SenderRestarts
  \/ \E id \in known : Stale(id)
  \/ \E m \in Msgs : SendMessage(m) \/ Connected(m) \/ ReceiveMessage(m) \/ SendFails(m)
  \/ \E b \in batches : ReceiveBatch(b) \/ LoseBatch(b)
  \/ \E a \in acks : ReceiveDelivered(a) \/ LoseDelivered(a)

\* The receiver comes back, timers fire, what arrived is read.
Spec ==
  /\ Init /\ [][Next]_vars
  /\ WF_vars(Hello) /\ WF_vars(ReceiverReturns) /\ WF_vars(RetryTimer)
  /\ \A m \in Msgs : WF_vars(Connected(m) \/ ReceiveMessage(m) \/ SendFails(m))
  /\ \A b \in SUBSET Msgs : WF_vars(ReceiveBatch(b) \/ LoseBatch(b)) /\ WF_vars(ReceiveDelivered(b))

-----------------------------------------------------------------------------
TypeOK ==
  /\ self \in Ids /\ known \subseteq Ids /\ met \subseteq Ids
  /\ target \in [Msgs -> Ids \cup {0}]
  /\ queue \in [Msgs -> {"none", "waiting", "delivered", "removed"}]
  /\ link \in [Msgs -> {"none", "connecting", "written", "read", "broken", "gone"}]

(* A message sent to a peer the sender knew of is with the receiver, on    *)
(* its way or in the queue, whoever stops when and whatever is lost; only  *)
(* a sender that stops itself forgets what it was writing, and a blocked   *)
(* sender is not heard.                                                    *)
(* (sendMessage, ipmsg_manager.cpp:238; OFFLINE_DELIVERED, :2872)          *)
NothingForgotten ==
  \A m \in Msgs \ excused :
    target[m] # 0 => inbox[m] > 0 \/ link[m] \in Lost \/ queue[m] = "waiting"

(* ... and a receiver that keeps its id gets it once everything works      *)
(* again: whatever is cut or lost in between, the queue is tried for the   *)
(* id the message was sent to (retryOfflineMessages, :2315).               *)
MailArrives ==
  \A m \in Msgs :
    target[m] # 0 ~> (inbox[m] > 0 \/ m \in excused \/ target[m] # self)

(* The same for a receiver that was started again meanwhile, for which     *)
(* ipmsg_manager.cpp:135 says "Fetch offline messages for this device" and *)
(* :167 "Retry offline messages for all online devices".                   *)
MailOutlivesRestart ==
  \A m \in Msgs : target[m] # 0 ~> (inbox[m] > 0 \/ m \in excused)
=============================================================================
