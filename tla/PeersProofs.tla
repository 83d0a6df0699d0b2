---------------------------- MODULE PeersProofs ------------------------------
(***************************************************************************)
(* The protocols of MCPeers, for any messages, controllers and bounds.     *)
(***************************************************************************)
EXTENDS MCPeers, SequenceTheorems, WellFoundedInduction, TLAPS

-----------------------------------------------------------------------------
(* OfflineMail.                                                            *)

\* An acknowledgement under way is of messages the receiver has saved: what it
\* takes out of the queue may be forgotten.
MailInv ==
  /\ target \in [Msgs -> Nat]
  /\ self \in Nat \ {0} /\ \A id \in known \cup met : id \in Nat \ {0}
  /\ link \in [Msgs -> {"none", "connecting", "written", "read", "broken", "gone"}]
  /\ queue \in [Msgs -> {"none", "waiting", "delivered", "removed"}]
  /\ inbox \in [Msgs -> 0..2]
  /\ \A a \in acks : \A m \in a \cap Msgs : inbox[m] > 0
  /\ Mail!NothingForgotten

LEMMA SavedGrows ==
  ASSUME NEW box \in [Msgs -> 0..2], NEW ms
  PROVE  /\ Mail!Saved(box, ms) \in [Msgs -> 0..2]
         /\ \A m \in Msgs : box[m] > 0 => Mail!Saved(box, ms)[m] > 0
         /\ \A m \in ms \cap Msgs : Mail!Saved(box, ms)[m] > 0
BY DEF Mail!Saved

LEMMA MailStepInv == MailInv /\ [Mail!Next]_mail => MailInv'
<1>. SUFFICES ASSUME MailInv, [Mail!Next]_mail PROVE MailInv'
  OBVIOUS
<1>. USE DEF MailInv
<1>1. CASE UNCHANGED mail
  BY <1>1 DEF mail, Mail!NothingForgotten, Mail!Lost
<1>2. CASE Mail!Hello \/ (\E id \in known : Mail!Stale(id)) \/ Mail!ReceiverReturns
  BY <1>2 DEF Mail!Hello, Mail!Stale, Mail!ReceiverReturns, Mail!NothingForgotten, Mail!Lost
<1>3. CASE Mail!RetryTimer
  BY <1>3 DEF Mail!RetryTimer, Mail!NothingForgotten, Mail!Lost
<1>4. CASE Mail!NetworkCut \/ Mail!ReceiverStops
  BY <1>4 DEF Mail!NetworkCut, Mail!ReceiverStops, Mail!NothingForgotten, Mail!Lost
<1>5. CASE Mail!SenderRestarts
  BY <1>5 DEF Mail!SenderRestarts, Mail!NothingForgotten, Mail!Lost
<1>6. ASSUME NEW m \in Msgs, Mail!SendMessage(m) PROVE MailInv'
  BY <1>6 DEF Mail!SendMessage, Mail!NothingForgotten, Mail!Lost
<1>7. ASSUME NEW m \in Msgs, Mail!Connected(m) PROVE MailInv'
  BY <1>7 DEF Mail!Connected, Mail!NothingForgotten, Mail!Lost
<1>8. ASSUME NEW m \in Msgs, Mail!ReceiveMessage(m) PROVE MailInv'
  BY <1>8, SavedGrows DEF Mail!ReceiveMessage, Mail!NothingForgotten, Mail!Lost
<1>9. ASSUME NEW m \in Msgs, Mail!SendFails(m) PROVE MailInv'
  BY <1>9 DEF Mail!SendFails, Mail!NothingForgotten, Mail!Lost
<1>10. ASSUME NEW b \in batches, Mail!ReceiveBatch(b) PROVE MailInv'
  BY <1>10, SavedGrows DEF Mail!ReceiveBatch, Mail!NothingForgotten, Mail!Lost
<1>11. ASSUME NEW b \in batches, Mail!LoseBatch(b) PROVE MailInv'
  BY <1>11 DEF Mail!LoseBatch, Mail!NothingForgotten, Mail!Lost
<1>12. ASSUME NEW a \in acks, Mail!ReceiveDelivered(a) PROVE MailInv'
  BY <1>12 DEF Mail!ReceiveDelivered, Mail!NothingForgotten, Mail!Lost
<1>13. ASSUME NEW a \in acks, Mail!LoseDelivered(a) PROVE MailInv'
  BY <1>13 DEF Mail!LoseDelivered, Mail!NothingForgotten, Mail!Lost
<1>. QED
  BY <1>1, <1>2, <1>3, <1>4, <1>5, <1>6, <1>7, <1>8, <1>9, <1>10, <1>11, <1>12, <1>13
  DEF Mail!Next

\* A message to a peer the sender knew of is with the receiver, on its way or
\* in the queue (sendMessage, OFFLINE_DELIVERED).
THEOREM MailKept == Spec => []NothingForgotten
<1>1. Init => MailInv
  BY DEF Init, Mail!Init, MailInv, Mail!NothingForgotten
<1>2. MailInv /\ [Next]_vars => MailInv'
  <2>1. [Next]_vars => [Mail!Next]_mail
    BY DEF Next, vars, MailStep, KeysStep, TcpStep, ClipStep, FolderStep, ListingStep,
           DeskStep, InputStep, GatewayStep
  <2>. QED
    BY <2>1, MailStepInv
<1>3. MailInv => NothingForgotten
  BY DEF MailInv, NothingForgotten
<1>. QED
  BY <1>1, <1>2, <1>3, PTL DEF Spec

-----------------------------------------------------------------------------
(* SessionRequests: what covers the host's screen.                         *)

\* The privacy mask is shown only while it is switched on, and only sessions
\* put covers on the screen.
CoverInv ==
  /\ DOMAIN switches = {"camera", "sound", "privacy"}
  /\ mask => switches["privacy"] /\ joined # {}
  /\ overlay => joined # {}

\* Only three kinds of requests touch the covers, each for a session that stands.
LEMMA RequestCovers ==
  ASSUME CoverInv, NEW c \in Controllers, Desk!HostReads(c)
  PROVE  CoverInv'
<1> DEFINE r == Head(orders[c])
<1>. USE DEF CoverInv
<1>1. c \in joined /\ joined' = joined
  BY DEF Desk!HostReads
<1>2. CASE UNCHANGED <<switches, mask, overlay>>
  BY <1>1, <1>2
<1>3. CASE Desk!StopRecord(c, r)
  BY <1>1, <1>3 DEF Desk!StopRecord
<1>4. CASE Desk!Draw(r)
  BY <1>1, <1>4 DEF Desk!Draw
<1>5. CASE Desk!Switch(r)
  <2> DEFINE s == Desk!SwitchKinds[r.kind]
  <2>2. /\ r.kind = "PRIVACY_SCREEN" => s = "privacy"
        /\ r.kind # "PRIVACY_SCREEN" => s \in {"camera", "sound"}
    <3>. HIDE DEF r
    <3>. QED
      BY <1>5 DEF Desk!Switch, Desk!SwitchKinds
  <2>0. \E on \in IF s = "camera" THEN Desk!Camera(r.on) ELSE {r.on} :
          switches' = [switches EXCEPT ![s] = on]
    BY <1>5 DEF Desk!Switch
  <2>1. PICK on : /\ switches' = [switches EXCEPT ![s] = on]
                  /\ r.kind = "PRIVACY_SCREEN" => on = r.on
    BY <2>0, <2>2
  <2>3. mask' = (IF r.kind = "PRIVACY_SCREEN" THEN r.on ELSE mask) /\ overlay' = overlay
    BY <1>5 DEF Desk!Switch
  <2>. HIDE DEF r, s
  <2>4. mask' => switches'["privacy"]
    <3>1. CASE r.kind = "PRIVACY_SCREEN"
      BY <2>1, <2>2, <2>3, <3>1
    <3>2. CASE r.kind # "PRIVACY_SCREEN"
      BY <2>1, <2>2, <2>3, <3>2
    <3>. QED
      BY <3>1, <3>2
  <2>. QED
    BY <1>1, <2>1, <2>3, <2>4
<1>6. \/ Desk!StopRecord(c, r) \/ Desk!Draw(r) \/ Desk!Switch(r)
      \/ Desk!Refuse(c, r) \/ Desk!Answer(c, r) \/ Desk!Hear(r) \/ Desk!Screenshot(c, r)
      \/ Desk!Chat(r) \/ Desk!Record(c, r) \/ Desk!Power(r) \/ Desk!StartShell(c, r)
      \/ Desk!FeedShells(r)
  BY DEF Desk!HostReads
<1>. QED
  BY <1>2, <1>3, <1>4, <1>5, <1>6
  DEF Desk!Refuse, Desk!Answer, Desk!Hear, Desk!Screenshot, Desk!Chat, Desk!Record,
      Desk!Power, Desk!StartShell, Desk!FeedShells, Desk!host

LEMMA CoverStepInv == CoverInv /\ [Desk!Step]_desk => CoverInv'
<1>. SUFFICES ASSUME CoverInv, [Desk!Step]_desk PROVE CoverInv'
  OBVIOUS
<1>. USE DEF CoverInv
<1>1. CASE UNCHANGED <<joined, switches, mask, overlay>>
  BY <1>1
<1>2. ASSUME NEW c \in Controllers, Desk!Leave(c) PROVE CoverInv'
  BY <1>2 DEF Desk!Leave, Desk!Recover
<1>3. ASSUME NEW cap \in Switchable, Desk!Recap(cap) PROVE CoverInv'
  BY <1>3 DEF Desk!Recap, Desk!Recover
<1>. QED
  BY <1>1, <1>2, <1>3, RequestCovers
  DEF Desk!Step, desk, Desk!ControllerReads, Desk!ShellEnds, Desk!Ask, Desk!HostGoes, Desk!host

\* Nothing covers the host's screen when every session has ended (setting and
\* taking back the privacy screen and the drawings, onClientDisconnected).
THEOREM CoversGo == Spec => []UncoveredWhenAlone
<1>1. Init => CoverInv
  BY DEF Init, Desk!Init, CoverInv
<1>2. CoverInv /\ [Next]_vars => CoverInv'
  <2>1. [Next]_vars => [Desk!Step]_desk
    BY DEF Next, vars, MailStep, KeysStep, TcpStep, ClipStep, FolderStep, ListingStep,
           DeskStep, InputStep, GatewayStep
  <2>. QED
    BY <2>1, CoverStepInv
<1>3. CoverInv => UncoveredWhenAlone
  BY DEF CoverInv, UncoveredWhenAlone, Desk!UncoveredWhenAlone
<1>. QED
  BY <1>1, <1>2, <1>3, PTL DEF Spec

-----------------------------------------------------------------------------
(* InputForwarding: why nothing stays down at the host.                    *)

Named == {Input!Button(t) : t \in Things}
InputEvent == [what : Named, down : BOOLEAN, text : BOOLEAN]
Widget ==
  [active : BOOLEAN, drawing : BOOLEAN, stroke : BOOLEAN, frame : BOOLEAN, forward : BOOLEAN]

UpOf(e, b) == e.what = b /\ ~e.down /\ ~e.text
DownOf(e, b) == e.what = b /\ e.down /\ ~e.text

\* The user of c holds b, and has not pressed it to draw.
Keeps(c, b) ==
  \E t \in pressed[c] :
    Input!Button(t) = b /\ (t \in Input!Mouse => ~widget[c].drawing)
UpComing(c, b) == \E j \in DOMAIN events[c] : UpOf(events[c][j], b)

InputTyped ==
  /\ widget \in [Controllers -> Widget]
  /\ pressed \in [Controllers -> SUBSET Things]
  /\ events \in [Controllers -> Seq(InputEvent)]

\* Keys with a text are never down.
TextPasses ==
  /\ held \cap Input!Typed = {}
  /\ \A c \in Controllers : \A j \in DOMAIN events[c] :
       events[c][j].text <=> events[c][j].what \in Input!Typed

\* What goes down at the host is still held, was excused or is followed by its end ...
DownFollowed ==
  \A c \in Controllers, b \in Named : \A k \in DOMAIN events[c] :
    DownOf(events[c][k], b) =>
      \/ b \in unseen
      \/ Keeps(c, b)
      \/ \E j \in DOMAIN events[c] : j > k /\ UpOf(events[c][j], b)

\* ... and what is down has somebody who will let it go.
HeldAnswered ==
  \A b \in held : b \in unseen \/ \E c \in Controllers : Keeps(c, b) \/ UpComing(c, b)

InputInv ==
  /\ InputTyped /\ TextPasses /\ DownFollowed /\ HeldAnswered
  /\ \A c \in Controllers : widget[c].frame => widget[c].active

\* A step that sends nothing and lets nothing go that it does not excuse.
LEMMA InputKept ==
  ASSUME InputInv, UNCHANGED <<events, held>>, unseen \subseteq unseen',
         \A c \in Controllers, b \in Named \ Input!Typed :
           Keeps(c, b) => Keeps(c, b)' \/ b \in unseen'
  PROVE  TextPasses' /\ DownFollowed' /\ HeldAnswered'
<1>1. \A c \in Controllers : \A k \in DOMAIN events[c] :
        \A b : DownOf(events[c][k], b) => b \in Named \ Input!Typed
  <2>1. \A c \in Controllers : \A k \in DOMAIN events[c] :
          events[c][k] \in InputEvent /\ (events[c][k].text <=> events[c][k].what \in Input!Typed)
    BY DEF InputInv, InputTyped, TextPasses
  <2>. QED
    BY <2>1 DEF DownOf, InputEvent
<1>2. TextPasses'
  BY DEF InputInv, TextPasses
<1>3. DownFollowed'
  BY <1>1 DEF InputInv, DownFollowed
<1>4. held \cap Named \subseteq Named \ Input!Typed
  BY DEF InputInv, TextPasses
<1>5. ASSUME NEW b \in held, NEW c \in Controllers, Keeps(c, b) PROVE b \in Named
  BY <1>5 DEF Keeps, Named, InputInv, InputTyped
<1>6. HeldAnswered'
  BY <1>4, <1>5 DEF InputInv, HeldAnswered, UpComing
<1>. QED
  BY <1>2, <1>3, <1>6

\* A step that sends event e for c, and lets nothing go but what e ends.
LEMMA InputSent ==
  ASSUME InputInv, NEW c \in Controllers, NEW e \in InputEvent,
         e.text <=> e.what \in Input!Typed,
         events' = [events EXCEPT ![c] = Append(@, e)], held' = held, unseen \subseteq unseen',
         \A d \in Controllers, b \in Named \ Input!Typed :
           Keeps(d, b) => Keeps(d, b)' \/ (d = c /\ UpOf(e, b)),
         e.down /\ ~e.text => Keeps(c, e.what)'
  PROVE  TextPasses' /\ DownFollowed' /\ HeldAnswered'
<1> DEFINE n == Len(events[c])
<1>1. /\ events[c] \in Seq(InputEvent) /\ n \in Nat
      /\ events'[c] = Append(events[c], e)
      /\ DOMAIN events'[c] = 1 .. n + 1 /\ DOMAIN events[c] = 1 .. n
      /\ events'[c][n + 1] = e
      /\ \A j \in 1 .. n : events'[c][j] = events[c][j]
      /\ \A d \in Controllers \ {c} : events'[d] = events[d]
  BY DEF InputInv, InputTyped
<1>2. \A d \in Controllers : \A k \in DOMAIN events[d] :
        /\ k \in DOMAIN events'[d] /\ events'[d][k] = events[d][k]
        /\ events[d][k] \in InputEvent
        /\ \A b : DownOf(events[d][k], b) => b \in Named \ Input!Typed
  <2>1. \A d \in Controllers : \A k \in DOMAIN events[d] :
          events[d][k] \in InputEvent /\ (events[d][k].text <=> events[d][k].what \in Input!Typed)
    BY DEF InputInv, InputTyped, TextPasses
  <2>. QED
    BY <1>1, <2>1 DEF DownOf, InputEvent
<1>3. \A d \in Controllers : \A k \in DOMAIN events'[d] :
        k \in DOMAIN events[d] \/ (d = c /\ k = n + 1)
  BY <1>1
<1>. HIDE DEF n
<1>4. TextPasses'
  BY <1>1, <1>2, <1>3 DEF InputInv, TextPasses
<1>5. DownFollowed'
  <2>. SUFFICES ASSUME NEW d \in Controllers, NEW b \in Named, NEW k \in DOMAIN events'[d],
                       DownOf(events'[d][k], b)
                PROVE  \/ b \in unseen'
                       \/ Keeps(d, b)'
                       \/ \E j \in DOMAIN events'[d] : j > k /\ UpOf(events'[d][j], b)
    BY DEF DownFollowed
  <2>1. CASE k \in DOMAIN events[d]
    <3>1. DownOf(events[d][k], b) /\ b \in Named \ Input!Typed
      BY <1>2, <2>1
    <3>2. \/ b \in unseen
          \/ Keeps(d, b)
          \/ \E j \in DOMAIN events[d] : j > k /\ UpOf(events[d][j], b)
      BY <2>1, <3>1 DEF InputInv, DownFollowed
    <3>3. ASSUME d = c, UpOf(e, b)
          PROVE  \E j \in DOMAIN events'[d] : j > k /\ UpOf(events'[d][j], b)
      <4>1. n + 1 \in DOMAIN events'[d] /\ n + 1 > k /\ events'[d][n + 1] = e
        BY <1>1, <2>1, <3>3
      <4>. QED
        BY <3>3, <4>1
    <3>. QED
      BY <1>2, <3>1, <3>2, <3>3
  <2>2. CASE d = c /\ k = n + 1
    BY <1>1, <2>2 DEF DownOf
  <2>. QED
    BY <1>3, <2>1, <2>2
<1>6. HeldAnswered'
  <2>. SUFFICES ASSUME NEW b \in held
                PROVE  b \in unseen' \/ \E d \in Controllers : Keeps(d, b)' \/ UpComing(d, b)'
    BY DEF HeldAnswered
  <2>1. CASE b \in unseen
    BY <2>1
  <2>2. ASSUME NEW d \in Controllers, Keeps(d, b) PROVE Keeps(d, b)' \/ UpComing(d, b)'
    <3>1. b \in Named \ Input!Typed
      BY <2>2 DEF Keeps, Named, InputInv, InputTyped, TextPasses
    <3>2. UpOf(e, b) => UpComing(c, b)'
      <4>1. n + 1 \in DOMAIN events'[c] /\ events'[c][n + 1] = e
        BY <1>1
      <4>. QED
        BY <4>1 DEF UpComing
    <3>. QED
      BY <2>2, <3>1, <3>2
  <2>3. ASSUME NEW d \in Controllers, UpComing(d, b) PROVE UpComing(d, b)'
    BY <1>2, <2>3 DEF UpComing
  <2>. QED
    BY <2>1, <2>2, <2>3 DEF InputInv, HeldAnswered
<1>. QED
  BY <1>4, <1>5, <1>6

LEMMA SentTyped ==
  ASSUME NEW t \in Things, NEW down \in BOOLEAN,
         NEW e, e = [what |-> Input!Button(t), down |-> down, text |-> t \in Input!Typed]
  PROVE  e \in InputEvent /\ (e.text <=> e.what \in Input!Typed)
<1>1. Input!Button(t) \in Named
  BY DEF Named
<1>2. (t \in Input!Typed) \in BOOLEAN
  OBVIOUS
<1>3. e \in InputEvent
  BY <1>1, <1>2, Zenon DEF InputEvent
<1>4. t \in Input!Typed <=> Input!Button(t) \in Input!Typed
  BY DEF Input!Button, Input!Typed
<1>. QED
  BY <1>3, <1>4

LEMMA PressInv ==
  ASSUME FrameFirst, InputInv, NEW c \in Controllers, NEW t \in Things, Input!Press(c, t)
  PROVE  InputInv'
<1> DEFINE e == [what |-> Input!Button(t), down |-> TRUE, text |-> t \in Input!Typed]
<1>1. /\ pressed' = [pressed EXCEPT ![c] = @ \cup {t}] /\ held' = held /\ unseen' = unseen
      /\ widget[c].frame
  BY DEF Input!Press
<1>2. e \in InputEvent /\ (e.text <=> e.what \in Input!Typed)
  BY SentTyped
<1>3. CASE widget' = [widget EXCEPT ![c].stroke = TRUE] /\ events' = events
  <2>1. \A d \in Controllers : \A b : Keeps(d, b) => Keeps(d, b)'
    BY <1>1, <1>3 DEF Keeps, InputInv, InputTyped, Widget
  <2>2. InputTyped' /\ \A d \in Controllers : widget'[d].frame => widget'[d].active
    BY <1>1, <1>3 DEF InputInv, InputTyped, Widget
  <2>. QED
    BY <1>1, <1>3, <2>1, <2>2, InputKept DEF InputInv
<1>4. CASE widget' = widget /\ events' = events
  <2>1. \A d \in Controllers : \A b : Keeps(d, b) => Keeps(d, b)'
    BY <1>1, <1>4 DEF Keeps, InputInv, InputTyped
  <2>2. InputTyped' /\ \A d \in Controllers : widget'[d].frame => widget'[d].active
    BY <1>1, <1>4 DEF InputInv, InputTyped
  <2>. QED
    BY <1>1, <1>4, <2>1, <2>2, InputKept DEF InputInv
<1>5. CASE /\ ~Input!Draws(c, t) /\ Input!Forwards(c)
           /\ widget' = widget /\ events' = [events EXCEPT ![c] = Append(@, e)]
  <2>1. \A d \in Controllers : \A b : Keeps(d, b) => Keeps(d, b)'
    BY <1>1, <1>5 DEF Keeps, InputInv, InputTyped
  <2>2. Keeps(c, e.what)'
    BY <1>1, <1>5 DEF Keeps, InputInv, InputTyped, Input!Draws, Input!Forwards
  <2>3. InputTyped' /\ \A d \in Controllers : widget'[d].frame => widget'[d].active
    <3>. HIDE DEF e
    <3>. QED
      BY <1>1, <1>2, <1>5 DEF InputInv, InputTyped
  <2>. HIDE DEF e
  <2>. QED
    BY <1>1, <1>2, <1>5, <2>1, <2>2, <2>3, InputSent DEF InputInv
<1>. QED
  BY <1>3, <1>4, <1>5 DEF Input!Press, Input!Sent

LEMMA ReleaseInv ==
  ASSUME InputInv, NEW c \in Controllers, NEW t \in Things, Input!Release(c, t)
  PROVE  InputInv'
<1> DEFINE e == [what |-> Input!Button(t), down |-> FALSE, text |-> t \in Input!Typed]
<1>1. pressed' = [pressed EXCEPT ![c] = @ \ {t}] /\ held' = held /\ unseen \subseteq unseen'
  BY DEF Input!Release
<1>2. e \in InputEvent /\ (e.text <=> e.what \in Input!Typed)
  BY SentTyped
<1>3. CASE /\ t \in Input!Mouse /\ widget[c].drawing
           /\ widget' = [widget EXCEPT ![c].stroke = FALSE] /\ events' = events
  <2>1. \A d \in Controllers : \A b : Keeps(d, b) => Keeps(d, b)'
    BY <1>1, <1>3 DEF Keeps, InputInv, InputTyped, Widget
  <2>2. InputTyped' /\ \A d \in Controllers : widget'[d].frame => widget'[d].active
    BY <1>1, <1>3 DEF InputInv, InputTyped, Widget
  <2>. QED
    BY <1>1, <1>3, <2>1, <2>2, InputKept DEF InputInv
<1>4. CASE widget' = widget /\ events' = events /\ unseen' = unseen \cup {Input!Button(t)}
  <2>1. \A d \in Controllers : \A b : Keeps(d, b) => Keeps(d, b)' \/ b \in unseen'
    BY <1>1, <1>4 DEF Keeps, InputInv, InputTyped
  <2>2. InputTyped' /\ \A d \in Controllers : widget'[d].frame => widget'[d].active
    BY <1>1, <1>4 DEF InputInv, InputTyped
  <2>. QED
    BY <1>1, <1>4, <2>1, <2>2, InputKept DEF InputInv
<1>5. CASE widget' = widget /\ events' = [events EXCEPT ![c] = Append(@, e)]
  <2>1. \A d \in Controllers, b \in Named \ Input!Typed :
          Keeps(d, b) => Keeps(d, b)' \/ (d = c /\ UpOf(e, b))
    BY <1>1, <1>5 DEF Keeps, InputInv, InputTyped, UpOf, Input!Button, Input!Typed
  <2>2. ~e.down
    OBVIOUS
  <2>. HIDE DEF e
  <2>3. InputTyped' /\ \A d \in Controllers : widget'[d].frame => widget'[d].active
    BY <1>1, <1>2, <1>5 DEF InputInv, InputTyped
  <2>. QED
    BY <1>1, <1>2, <1>5, <2>1, <2>2, <2>3, InputSent DEF InputInv
<1>. QED
  BY <1>3, <1>4, <1>5 DEF Input!Release, Input!Sent

\* The steps of the user and of the session that send nothing.
LEMMA QuietInputInv ==
  ASSUME InputInv, NEW c \in Controllers,
         \/ Input!ToggleDrawing(c) \/ Input!ToggleTakeover(c) \/ Input!LoseFocus(c)
         \/ Input!ShowFrame(c) \/ Input!Start(c)
         \/ \E drawing \in BOOLEAN : Input!Recap(c, drawing)
  PROVE  InputInv'
<1>1. /\ events' = events /\ held' = held /\ unseen \subseteq unseen'
      /\ InputTyped'
      /\ \A d \in Controllers : widget'[d].frame => widget'[d].active
      /\ \A d \in Controllers, b \in Named \ Input!Typed :
           Keeps(d, b) => Keeps(d, b)' \/ b \in unseen'
  <2>1. CASE Input!ToggleDrawing(c)
    BY <2>1 DEF Input!ToggleDrawing, Input!Free, InputInv, InputTyped, Widget, Keeps
  <2>2. CASE Input!ToggleTakeover(c)
    BY <2>2 DEF Input!ToggleTakeover, InputInv, InputTyped, Widget, Keeps
  <2>3. CASE Input!LoseFocus(c)
    BY <2>3 DEF Input!LoseFocus, InputInv, InputTyped, Keeps
  <2>4. CASE Input!ShowFrame(c)
    BY <2>4 DEF Input!ShowFrame, InputInv, InputTyped, Widget, Keeps
  <2>5. CASE Input!Start(c)
    BY <2>5 DEF Input!Start, InputInv, InputTyped, Widget, Keeps
  <2>6. ASSUME NEW drawing \in BOOLEAN, Input!Recap(c, drawing)
        PROVE  /\ events' = events /\ held' = held /\ unseen \subseteq unseen'
               /\ InputTyped'
               /\ \A d \in Controllers : widget'[d].frame => widget'[d].active
               /\ \A d \in Controllers, b \in Named \ Input!Typed :
                    Keeps(d, b) => Keeps(d, b)' \/ b \in unseen'
    <3> DEFINE draws == widget[c].drawing /\ drawing
    <3>1. draws \in BOOLEAN /\ (draws => widget[c].drawing)
      BY DEF InputInv, InputTyped, Widget
    <3>2. /\ widget' = [widget EXCEPT ![c].drawing = draws]
          /\ UNCHANGED <<pressed, events, held, unseen>>
      BY <2>6 DEF Input!Recap
    <3>. HIDE DEF draws
    <3>. QED
      BY <3>1, <3>2 DEF InputInv, InputTyped, Widget, Keeps
  <2>. QED
    BY <2>1, <2>2, <2>3, <2>4, <2>5, <2>6
<1>. QED
  BY <1>1, InputKept DEF InputInv

\* The end of a session loses its events, and excuses the ends among them.
LEMMA StopInputInv ==
  ASSUME InputInv, NEW c \in Controllers, Input!Stop(c)
  PROVE  InputInv'
<1>1. /\ widget' = [widget EXCEPT ![c].active = FALSE, ![c].frame = FALSE, ![c].stroke = FALSE]
      /\ events' = [events EXCEPT ![c] = <<>>]
      /\ unseen' = unseen \cup {e.what : e \in {f \in Input!Range(events[c]) : ~f.down}}
      /\ UNCHANGED <<pressed, held>>
  BY DEF Input!Stop
<1>w. /\ widget' \in [Controllers -> Widget]
      /\ ~widget'[c].frame /\ widget'[c].drawing = widget[c].drawing
      /\ \A d \in Controllers \ {c} : widget'[d] = widget[d]
  <2> DEFINE w == [widget[c] EXCEPT !.active = FALSE, !.frame = FALSE, !.stroke = FALSE]
  <2>1. widget' = [widget EXCEPT ![c] = w] /\ widget[c] \in Widget
    BY <1>1 DEF InputInv, InputTyped
  <2>2. w \in Widget /\ ~w.frame /\ w.drawing = widget[c].drawing
    BY <2>1 DEF Widget
  <2>. HIDE DEF w
  <2>. QED
    BY <2>1, <2>2 DEF InputInv, InputTyped
<1>2. InputTyped' /\ \A d \in Controllers : widget'[d].frame => widget'[d].active
  BY <1>1, <1>w DEF InputInv, InputTyped
<1>3. \A d \in Controllers : \A b : Keeps(d, b) => Keeps(d, b)'
  BY <1>1, <1>w DEF Keeps
<1>4. /\ \A d \in Controllers \ {c} : events'[d] = events[d]
      /\ events'[c] = <<>> /\ DOMAIN events'[c] = {}
  BY <1>1 DEF InputInv, InputTyped
<1>5. TextPasses'
  BY <1>1, <1>4 DEF InputInv, TextPasses
<1>6. DownFollowed'
  BY <1>1, <1>3, <1>4 DEF InputInv, DownFollowed
<1>7. \A b : UpComing(c, b) => b \in unseen'
  <2>. SUFFICES ASSUME NEW b, NEW j \in DOMAIN events[c], UpOf(events[c][j], b)
                PROVE  b \in unseen'
    BY DEF UpComing
  <2>1. events[c][j] \in {f \in Input!Range(events[c]) : ~f.down}
    BY DEF UpOf, Input!Range
  <2>. QED
    BY <1>1, <2>1 DEF UpOf
<1>8. HeldAnswered'
  BY <1>1, <1>3, <1>4, <1>7 DEF InputInv, HeldAnswered, UpComing
<1>. QED
  BY <1>2, <1>5, <1>6, <1>8 DEF InputInv

LEMMA ReadInputInv ==
  ASSUME InputInv, NEW c \in Controllers, Input!HostReads(c)
  PROVE  InputInv'
<1> DEFINE e == Head(events[c])
           n == Len(events[c])
<1>1. /\ events[c] \in Seq(InputEvent) /\ n \in Nat \ {0}
      /\ events' = [events EXCEPT ![c] = Tail(events[c])]
      /\ UNCHANGED <<widget, pressed>> /\ unseen \subseteq unseen'
  BY DEF Input!HostReads, InputInv, InputTyped
<1>2. /\ e = events[c][1] /\ 1 \in DOMAIN events[c] /\ e \in InputEvent
      /\ DOMAIN events[c] = 1 .. n /\ DOMAIN events'[c] = 1 .. n - 1
      /\ \A j \in 1 .. n - 1 : events'[c][j] = events[c][j + 1]
      /\ \A d \in Controllers \ {c} : events'[d] = events[d]
  BY <1>1 DEF InputInv, InputTyped
<1>3. /\ c \in may => held' = Input!Inject(e) /\ unseen' = unseen
      /\ c \notin may =>
           held' = held /\ unseen' = IF e.down THEN unseen ELSE unseen \cup {e.what}
  BY DEF Input!HostReads
<1>4. InputTyped' /\ \A d \in Controllers : widget'[d].frame => widget'[d].active
  BY <1>1 DEF InputInv, InputTyped
<1>5. \A d \in Controllers : \A b : Keeps(d, b)' <=> Keeps(d, b)
  BY <1>1 DEF Keeps
<1>t. e.text <=> e.what \in Input!Typed
  BY <1>2 DEF InputInv, TextPasses
<1>. HIDE DEF e, n
<1>6. TextPasses'
  <2>1. held' \cap Input!Typed = {}
    BY <1>3, <1>t DEF InputInv, TextPasses, Input!Inject
  <2>2. ASSUME NEW d \in Controllers, NEW j \in DOMAIN events'[d]
        PROVE  events'[d][j].text <=> events'[d][j].what \in Input!Typed
    <3>1. CASE d = c
      <4>1. j + 1 \in DOMAIN events[c] /\ events'[c][j] = events[c][j + 1]
        BY <1>1, <1>2, <3>1
      <4>. QED
        BY <3>1, <4>1 DEF InputInv, TextPasses
    <3>2. CASE d # c
      BY <1>2, <3>2 DEF InputInv, TextPasses
    <3>. QED
      BY <3>1, <3>2
  <2>. QED
    BY <2>1, <2>2 DEF TextPasses
<1>7. DownFollowed'
  <2>. SUFFICES ASSUME NEW d \in Controllers, NEW b \in Named, NEW k \in DOMAIN events'[d],
                       DownOf(events'[d][k], b)
                PROVE  \/ b \in unseen'
                       \/ Keeps(d, b)'
                       \/ \E j \in DOMAIN events'[d] : j > k /\ UpOf(events'[d][j], b)
    BY DEF DownFollowed
  <2>1. CASE d = c
    <3>1. k \in 1 .. n - 1 /\ k + 1 \in DOMAIN events[c] /\ DownOf(events[c][k + 1], b)
      BY <1>1, <1>2, <2>1
    <3>2. ASSUME NEW j \in DOMAIN events[c], j > k + 1, UpOf(events[c][j], b)
          PROVE  \E i \in DOMAIN events'[d] : i > k /\ UpOf(events'[d][i], b)
      <4>1. /\ j - 1 \in DOMAIN events'[d] /\ j - 1 > k
            /\ events'[d][j - 1] = events[c][j]
        BY <1>1, <1>2, <2>1, <3>1, <3>2
      <4>. QED
        BY <3>2, <4>1
    <3>. QED
      BY <1>1, <1>5, <2>1, <3>1, <3>2 DEF InputInv, DownFollowed
  <2>2. CASE d # c
    BY <1>1, <1>2, <1>5, <2>2 DEF InputInv, DownFollowed
  <2>. QED
    BY <2>1, <2>2
\* Somebody lets b go after the event, unless the event is b's end.
<1>8. \A d \in Controllers : \A b : UpComing(d, b) => UpComing(d, b)' \/ (d = c /\ UpOf(e, b))
  <2>. SUFFICES ASSUME NEW d \in Controllers, NEW b, NEW j \in DOMAIN events[d],
                       UpOf(events[d][j], b), ~(d = c /\ UpOf(e, b))
                PROVE  UpComing(d, b)'
    BY DEF UpComing
  <2>1. CASE d = c
    <3>1. j \in 2 .. n
      BY <1>1, <1>2, <2>1
    <3>2. j - 1 \in DOMAIN events'[c] /\ events'[c][j - 1] = events[c][j]
      BY <1>1, <1>2, <3>1
    <3>. QED
      BY <2>1, <3>2 DEF UpComing
  <2>2. CASE d # c
    BY <1>2, <2>2 DEF UpComing
  <2>. QED
    BY <2>1, <2>2
<1>9. HeldAnswered'
  <2>. SUFFICES ASSUME NEW b \in held'
                PROVE  b \in unseen' \/ \E d \in Controllers : Keeps(d, b)' \/ UpComing(d, b)'
    BY DEF HeldAnswered
  <2>1. CASE b \in held /\ ~UpOf(e, b)
    BY <1>1, <1>5, <1>8, <2>1 DEF InputInv, HeldAnswered
  <2>2. CASE UpOf(e, b)
    BY <1>3, <2>2 DEF UpOf, Input!Inject
  <2>3. CASE b \notin held
    <3>1. DownOf(e, b) /\ b \in Named
      BY <1>2, <1>3, <2>3 DEF Input!Inject, DownOf, InputEvent
    <3>2. \/ b \in unseen \/ Keeps(c, b)
          \/ \E j \in DOMAIN events[c] : j > 1 /\ UpOf(events[c][j], b)
      BY <1>2, <3>1 DEF InputInv, DownFollowed
    <3>3. ~UpOf(e, b)
      BY <3>1 DEF UpOf, DownOf
    <3>. QED
      BY <1>1, <1>5, <1>8, <3>2, <3>3 DEF UpComing
  <2>. QED
    BY <2>1, <2>2, <2>3
<1>. QED
  BY <1>4, <1>6, <1>7, <1>9 DEF InputInv

LEMMA InputStepInv ==
  ASSUME FrameFirst
  PROVE  InputInv /\ [Input!Next]_input => InputInv'
<1>. SUFFICES ASSUME InputInv, [Input!Next]_input PROVE InputInv'
  OBVIOUS
<1>1. CASE UNCHANGED input
  BY <1>1
  DEF input, InputInv, InputTyped, TextPasses, DownFollowed, HeldAnswered, Keeps, UpComing
<1>. QED
  BY <1>1, PressInv, ReleaseInv, QuietInputInv, StopInputInv, ReadInputInv DEF Input!Next

\* While nothing is pressed before the first frame is shown, no button and no
\* key stays down at the host (RemoteDesktopWidget's event handlers,
\* Host::processMouseEvent and processKeyEvent).
THEOREM NothingStaysDown ==
  ASSUME FrameFirst
  PROVE  Spec => []NothingStuck
<1>1. Init => InputInv
  BY DEF Init, Input!Init, InputInv, InputTyped, Widget, TextPasses, DownFollowed, HeldAnswered
<1>2. InputInv /\ [Next]_vars => InputInv'
  <2>1. [Next]_vars => [Input!Next]_input
    BY DEF Next, vars, MailStep, KeysStep, TcpStep, ClipStep, FolderStep, ListingStep,
           DeskStep, InputStep, GatewayStep
  <2>. QED
    BY <2>1, InputStepInv
<1>3. InputInv => NothingStuck
  <2>. SUFFICES ASSUME InputInv, \A c \in Controllers : events[c] = <<>>, NEW b \in held,
                       b \notin unseen
                PROVE  b \in {Input!Button(t) : t \in UNION {pressed[c] : c \in Controllers}}
    BY DEF NothingStuck, Input!NothingStuck
  <2>1. PICK c \in Controllers : Keeps(c, b) \/ UpComing(c, b)
    BY DEF InputInv, HeldAnswered
  <2>2. ~UpComing(c, b)
    BY DEF UpComing
  <2>. QED
    BY <2>1, <2>2 DEF Keeps
<1>. QED
  BY <1>1, <1>2, <1>3, PTL DEF Spec

-----------------------------------------------------------------------------
(* SessionRequests: the chat.                                              *)

ChatIds == Controllers \X Nat
Request == [kind : Desk!Offered \cup {"PROCESS_LIST_REQ"}, id : ChatIds, on : BOOLEAN]
AnswerKinds ==
  {"CHAT_MESSAGE", "PERMISSION_DENIED", "SCREENSHOT_RESP", "RECORD_ACK", "TERMINAL_OUTPUT"}
    \cup {Desk!PlainAnswers[k] : k \in DOMAIN Desk!PlainAnswers}
Response == [kind : AnswerKinds, id : ChatIds]
Line == {"Me", "Host"} \X ChatIds

\* Line i of c's window is what was said as x; answer k on its way to c brings it.
Shows(c, i, x) == i \in DOMAIN chat[c] /\ chat[c][i] = <<"Host", x>>
Brings(c, k, x) ==
  k \in DOMAIN answers[c] /\ answers[c][k].kind = "CHAT_MESSAGE" /\ answers[c][k].id = x

HasLine(c, x) == \E i : Shows(c, i, x) \/ Brings(c, i, x)

\* c shows or will show x before y.
Before(c, x, y) ==
  \/ \E i, j : Shows(c, i, x) /\ Shows(c, j, y) /\ i < j
  \/ \E i, k : Shows(c, i, x) /\ Brings(c, k, y)
  \/ \E k, l : Brings(c, k, x) /\ Brings(c, l, y) /\ k < l

ChatTyped ==
  /\ asks \in Nat
  /\ orders \in [Controllers -> Seq(Request)]
  /\ answers \in [Controllers -> Seq(Response)]
  /\ chat \in [Controllers -> Seq(Line)]

\* No two requests have one number, and numbers are given out in order.
NumbersGrow ==
  /\ \A c \in Controllers : \A k \in DOMAIN orders[c] : orders[c][k].id[2] <= asks
  /\ \A c, d \in Controllers : \A k \in DOMAIN orders[c], l \in DOMAIN orders[d] :
       orders[c][k].id = orders[d][l].id => c = d /\ k = l

\* What is still to be said is in no window, and no two windows disagree.
LinesAgree ==
  /\ \A c, d \in Controllers : \A k \in DOMAIN orders[c] : ~HasLine(d, orders[c][k].id)
  /\ \A c \in Controllers : \A x : HasLine(c, x) => x \in ChatIds /\ x[2] <= asks
  /\ \A c, d \in Controllers : \A x, y : Before(c, x, y) => ~Before(d, y, x)

ChatInv == ChatTyped /\ NumbersGrow /\ LinesAgree

\* The numbers of the requests after a step: the old ones, and new ones.
NumbersFrom(c) ==
  \A k \in DOMAIN orders'[c] :
    \/ \E l \in DOMAIN orders[c] : orders'[c][k] = orders[c][l]
    \/ orders'[c][k].id[2] > asks

\* A step in which windows and answers under way only lose lines, or pass them on.
LEMMA LinesKept ==
  ASSUME ChatInv, ChatTyped', asks <= asks',
         \A c \in Controllers : NumbersFrom(c),
         \A c \in Controllers : \A x : HasLine(c, x)' => HasLine(c, x),
         \A c \in Controllers : \A x, y : Before(c, x, y)' => Before(c, x, y)
  PROVE  LinesAgree'
<1>t. asks \in Nat /\ asks' \in Nat
  BY DEF ChatInv, ChatTyped
<1>1. ASSUME NEW c \in Controllers, NEW d \in Controllers, NEW k \in DOMAIN orders'[c]
      PROVE  ~HasLine(d, orders[c][k].id)'
  <2> DEFINE x == orders'[c][k].id
  <2>0. x \in ChatIds
    <3>1. orders'[c] \in Seq(Request)
      BY DEF ChatTyped
    <3>2. orders'[c][k] \in Request
      BY <3>1
    <3>. QED
      BY <3>2 DEF Request
  <2>. SUFFICES ~HasLine(d, x)
    BY DEF HasLine, Shows, Brings
  <2>1. CASE \E l \in DOMAIN orders[c] : orders'[c][k] = orders[c][l]
    BY <2>1 DEF ChatInv, LinesAgree
  <2>2. CASE x[2] > asks
    <3>. HIDE DEF x
    <3>. QED
      BY <1>t, <2>0, <2>2 DEF ChatInv, LinesAgree, ChatIds
  <2>. QED
    BY <2>1, <2>2 DEF NumbersFrom
<1>2. ASSUME NEW c \in Controllers, NEW x, HasLine(c, x)'
      PROVE  x \in ChatIds /\ x[2] <= asks'
  <2>1. x \in ChatIds /\ x[2] <= asks
    BY <1>2 DEF ChatInv, LinesAgree
  <2>. QED
    BY <1>t, <2>1 DEF ChatIds
<1>3. ASSUME NEW c \in Controllers, NEW d \in Controllers, NEW x, NEW y, Before(c, x, y)'
      PROVE  ~Before(d, y, x)'
  BY <1>3 DEF ChatInv, LinesAgree
<1>. QED
  BY <1>1, <1>2, <1>3 DEF LinesAgree

\* Numbers when requests are taken away, and when one is put in.
LEMMA NumbersTaken ==
  ASSUME ChatInv, asks' = asks,
         \A c \in Controllers : \/ orders'[c] = orders[c]
                                \/ orders'[c] = <<>>
                                \/ orders[c] # <<>> /\ orders'[c] = Tail(orders[c])
  PROVE  NumbersGrow' /\ \A c \in Controllers : NumbersFrom(c)
<1>1. ASSUME NEW c \in Controllers
      PROVE  \E n \in {0, 1} : \A k \in DOMAIN orders'[c] :
               k + n \in DOMAIN orders[c] /\ orders'[c][k] = orders[c][k + n]
  <2>1. orders[c] \in Seq(Request)
    BY DEF ChatInv, ChatTyped
  <2>2. CASE orders'[c] = orders[c]
    BY <2>1, <2>2
  <2>3. CASE orders'[c] = <<>>
    BY <2>3
  <2>4. CASE orders[c] # <<>> /\ orders'[c] = Tail(orders[c])
    BY <2>1, <2>4
  <2>. QED
    BY <2>2, <2>3, <2>4
<1>2. \A c \in Controllers : DOMAIN orders[c] \subseteq Nat /\ DOMAIN orders'[c] \subseteq Nat
  <2>1. \A c \in Controllers : orders[c] \in Seq(Request)
    BY DEF ChatInv, ChatTyped
  <2>2. ASSUME NEW c \in Controllers PROVE orders'[c] \in Seq(Request)
    <3>1. orders[c] \in Seq(Request)
      BY <2>1
    <3>2. orders[c] # <<>> => Tail(orders[c]) \in Seq(Request)
      BY <3>1
    <3>3. <<>> \in Seq(Request)
      OBVIOUS
    <3>. QED
      BY <3>1, <3>2, <3>3
  <2>. QED
    BY <2>1, <2>2
<1>3. \A c \in Controllers : NumbersFrom(c)
  BY <1>1 DEF NumbersFrom
<1>4. \A c \in Controllers : \A k \in DOMAIN orders'[c] : orders'[c][k].id[2] <= asks
  BY <1>1 DEF ChatInv, NumbersGrow
<1>5. ASSUME NEW c \in Controllers, NEW d \in Controllers,
             NEW k \in DOMAIN orders'[c], NEW l \in DOMAIN orders'[d],
             orders'[c][k].id = orders'[d][l].id
      PROVE  c = d /\ k = l
  <2>1. PICK m \in {0, 1} : \A j \in DOMAIN orders'[c] :
               j + m \in DOMAIN orders[c] /\ orders'[c][j] = orders[c][j + m]
    BY <1>1
  <2>2. PICK n \in {0, 1} : \A j \in DOMAIN orders'[d] :
               j + n \in DOMAIN orders[d] /\ orders'[d][j] = orders[d][j + n]
    BY <1>1
  <2>3. c = d /\ k + m = l + n
    BY <1>5, <2>1, <2>2 DEF ChatInv, NumbersGrow
  <2>4. orders'[c][l] = orders[c][l + m] /\ l + m \in DOMAIN orders[c]
    BY <2>1, <2>3
  <2>5. orders[c][l + m].id = orders[c][k + m].id
    BY <1>5, <2>1, <2>3, <2>4
  <2>6. l + m = k + m
    BY <2>1, <2>4, <2>5 DEF ChatInv, NumbersGrow
  <2>. QED
    BY <1>2, <2>3, <2>6
<1>. QED
  BY <1>3, <1>4, <1>5 DEF NumbersGrow

LEMMA NumberGiven ==
  ASSUME ChatInv, NEW c \in Controllers, NEW r \in Request, r.id = Desk!Id(c),
         asks' = asks + 1, orders' = [orders EXCEPT ![c] = Append(@, r)]
  PROVE  /\ NumbersGrow' /\ \A d \in Controllers : NumbersFrom(d)
         /\ orders' \in [Controllers -> Seq(Request)] /\ asks' \in Nat
<1> DEFINE n == Len(orders[c])
<1>1. /\ orders \in [Controllers -> Seq(Request)] /\ asks \in Nat
      /\ orders[c] \in Seq(Request) /\ n \in Nat
  BY DEF ChatInv, ChatTyped
<1>2. /\ orders' \in [Controllers -> Seq(Request)] /\ asks' \in Nat
      /\ DOMAIN orders[c] = 1 .. n /\ DOMAIN orders'[c] = 1 .. n + 1
      /\ orders'[c][n + 1] = r /\ \A k \in 1 .. n : orders'[c][k] = orders[c][k]
      /\ \A d \in Controllers \ {c} : orders'[d] = orders[d]
  BY <1>1
<1>3. r.id[2] = asks + 1 /\ asks + 1 > asks
  BY <1>1 DEF Desk!Id
<1>4. \A d \in Controllers : \A k \in DOMAIN orders[d] :
        orders[d][k].id[2] <= asks /\ orders[d][k].id \in ChatIds
  <2>1. \A d \in Controllers : \A k \in DOMAIN orders[d] : orders[d][k] \in Request
    BY <1>1
  <2>. QED
    BY <2>1 DEF ChatInv, NumbersGrow, Request
<1>. HIDE DEF n
<1>5. \A d \in Controllers : \A k \in DOMAIN orders'[d] :
        \/ k \in DOMAIN orders[d] /\ orders'[d][k] = orders[d][k]
        \/ d = c /\ k = n + 1 /\ orders'[d][k] = r
  BY <1>1, <1>2
<1>6. \A d \in Controllers : NumbersFrom(d)
  BY <1>3, <1>5 DEF NumbersFrom
<1>7. \A d \in Controllers : \A k \in DOMAIN orders'[d] : orders'[d][k].id[2] <= asks'
  <2>1. \A d \in Controllers : \A k \in DOMAIN orders[d] : orders[d][k].id[2] <= asks + 1
    BY <1>1, <1>4 DEF ChatIds
  <2>. QED
    BY <1>1, <1>3, <1>5, <2>1
<1>8. \A d \in Controllers : \A k \in DOMAIN orders[d] : orders[d][k].id # r.id
  BY <1>1, <1>3, <1>4 DEF ChatIds
<1>9. ASSUME NEW d \in Controllers, NEW e \in Controllers,
             NEW k \in DOMAIN orders'[d], NEW l \in DOMAIN orders'[e],
             orders'[d][k].id = orders'[e][l].id
      PROVE  d = e /\ k = l
  <2>1. CASE k \in DOMAIN orders[d] /\ orders'[d][k] = orders[d][k]
    <3>1. l \in DOMAIN orders[e] /\ orders'[e][l] = orders[e][l]
      BY <1>5, <1>8, <1>9, <2>1
    <3>. QED
      BY <1>9, <2>1, <3>1 DEF ChatInv, NumbersGrow
  <2>2. CASE d = c /\ k = n + 1 /\ orders'[d][k] = r
    BY <1>5, <1>8, <1>9, <2>2
  <2>. QED
    BY <1>5, <2>1, <2>2
<1>. QED
  BY <1>2, <1>6, <1>7, <1>9 DEF NumbersGrow

\* Lines: what a window shows and what the answers bring, step by step.
LEMMA LinesFrom ==
  ASSUME NEW c,
         \A i, x : Shows(c, i, x)' => Shows(c, i, x),
         NEW n \in Nat, \A k, x : Brings(c, k, x)' => k \in Nat /\ Brings(c, k + n, x)
  PROVE  /\ \A x : HasLine(c, x)' => HasLine(c, x)
         /\ \A x, y : Before(c, x, y)' => Before(c, x, y)
<1>1. \A x : HasLine(c, x)' => HasLine(c, x)
  BY DEF HasLine
<1>2. ASSUME NEW x, NEW y, Before(c, x, y)' PROVE Before(c, x, y)
  <2>1. CASE \E i, j : Shows(c, i, x)' /\ Shows(c, j, y)' /\ i < j
    BY <2>1 DEF Before
  <2>2. CASE \E i, k : Shows(c, i, x)' /\ Brings(c, k, y)'
    BY <2>2 DEF Before
  <2>3. CASE \E k, l : Brings(c, k, x)' /\ Brings(c, l, y)' /\ k < l
    <3>1. PICK k, l : Brings(c, k, x)' /\ Brings(c, l, y)' /\ k < l
      BY <2>3
    <3>2. k + n < l + n /\ Brings(c, k + n, x) /\ Brings(c, l + n, y)
      BY <3>1
    <3>. QED
      BY <3>2 DEF Before
  <2>. QED
    BY <1>2, <2>1, <2>2, <2>3 DEF Before
<1>. QED
  BY <1>1, <1>2

\* The controller shows the answer it reads: the line was the next one.
LEMMA LineShown ==
  ASSUME ChatInv, NEW c \in Controllers, NEW x,
         answers[c] # <<>>, answers'[c] = Tail(answers[c]),
         Brings(c, 1, x), chat'[c] = Append(chat[c], <<"Host", x>>)
  PROVE  /\ \A y : HasLine(c, y)' => HasLine(c, y)
         /\ \A y, z : Before(c, y, z)' => Before(c, y, z)
<1> DEFINE n == Len(chat[c])
<1>1. /\ chat[c] \in Seq(Line) /\ n \in Nat /\ answers[c] \in Seq(Response)
  BY DEF ChatInv, ChatTyped
<1>2. \A i, y : Shows(c, i, y)' => i \in Nat /\ (Shows(c, i, y) \/ (i = n + 1 /\ y = x))
  <2>1. \A i \in DOMAIN chat'[c] : i \in Nat /\ (i = n + 1 \/ (i \in DOMAIN chat[c] /\ chat'[c][i] = chat[c][i]))
    BY <1>1
  <2>2. chat'[c][n + 1] = <<"Host", x>>
    BY <1>1
  <2>. HIDE DEF n
  <2>. QED
    BY <2>1, <2>2 DEF Shows
<1>3. \A i, y : Shows(c, i, y) => i \in 1 .. n
  BY <1>1 DEF Shows
<1>4. \A k, y : Brings(c, k, y)' => k \in Nat \ {0} /\ Brings(c, k + 1, y)
  <2>1. \A k \in DOMAIN answers'[c] :
          k \in Nat \ {0} /\ k + 1 \in DOMAIN answers[c] /\ answers'[c][k] = answers[c][k + 1]
    BY <1>1
  <2>. QED
    BY <2>1 DEF Brings
<1>. HIDE DEF n
<1>5. \A y : HasLine(c, y)' => HasLine(c, y)
  BY <1>2, <1>4 DEF HasLine
<1>6. ASSUME NEW y, NEW z, Before(c, y, z)' PROVE Before(c, y, z)
  <2>1. ASSUME NEW i, NEW j, Shows(c, i, y)', Shows(c, j, z)', i < j PROVE Before(c, y, z)
    <3>1. CASE Shows(c, j, z)
      <4>1. i \in Nat /\ j \in 1 .. n
        BY <1>2, <1>3, <2>1, <3>1
      <4>2. i # n + 1
        BY <1>1, <2>1, <4>1
      <4>. QED
        BY <1>2, <2>1, <3>1, <4>2 DEF Before
    <3>2. CASE j = n + 1 /\ z = x
      <4>1. i # n + 1
        BY <1>1, <2>1, <3>2
      <4>. QED
        BY <1>2, <2>1, <3>2, <4>1 DEF Before
    <3>. QED
      BY <1>2, <2>1, <3>1, <3>2
  <2>2. ASSUME NEW i, NEW k, Shows(c, i, y)', Brings(c, k, z)' PROVE Before(c, y, z)
    <3>1. k \in Nat \ {0} /\ Brings(c, k + 1, z)
      BY <1>4, <2>2
    <3>2. 1 < k + 1
      BY <3>1
    <3>. QED
      BY <1>2, <2>2, <3>1, <3>2 DEF Before
  <2>3. ASSUME NEW k, NEW l, Brings(c, k, y)', Brings(c, l, z)', k < l PROVE Before(c, y, z)
    <3>1. Brings(c, k + 1, y) /\ Brings(c, l + 1, z) /\ k + 1 < l + 1
      BY <1>4, <2>3
    <3>. QED
      BY <3>1 DEF Before
  <2>. QED
    BY <1>6, <2>1, <2>2, <2>3 DEF Before
<1>. QED
  BY <1>5, <1>6

\* The host puts line x behind everything that is on its way to c.
LEMMA LineSpoken ==
  ASSUME ChatInv, NEW c \in Controllers, NEW x, NEW a \in Response,
         a.kind = "CHAT_MESSAGE" => a.id = x,
         chat' = chat, answers'[c] = Append(answers[c], a)
  PROVE  /\ \A y : HasLine(c, y)' => HasLine(c, y) \/ (y = x /\ a.kind = "CHAT_MESSAGE")
         /\ \A y, z : Before(c, y, z)' =>
              Before(c, y, z) \/ (z = x /\ HasLine(c, y) /\ a.kind = "CHAT_MESSAGE")
<1> DEFINE n == Len(answers[c])
<1>1. answers[c] \in Seq(Response) /\ n \in Nat
  BY DEF ChatInv, ChatTyped
<1>2. \A i, y : Shows(c, i, y)' <=> Shows(c, i, y)
  BY DEF Shows
<1>3. \A k, y : Brings(c, k, y)' =>
        k \in 1 .. n + 1 /\ \/ Brings(c, k, y)
                            \/ k = n + 1 /\ y = x /\ a.kind = "CHAT_MESSAGE"
  <2>1. \A k \in DOMAIN answers'[c] :
          /\ k \in 1 .. n + 1
          /\ \/ k \in DOMAIN answers[c] /\ answers'[c][k] = answers[c][k]
             \/ k = n + 1 /\ answers'[c][k] = a
    <3>1. /\ DOMAIN answers[c] = 1 .. n /\ DOMAIN answers'[c] = 1 .. n + 1
          /\ answers'[c][n + 1] = a /\ \A k \in 1 .. n : answers'[c][k] = answers[c][k]
      BY <1>1
    <3>. HIDE DEF n
    <3>. QED
      BY <1>1, <3>1
  <2>. HIDE DEF n
  <2>. QED
    BY <2>1 DEF Brings
<1>. HIDE DEF n
<1>4. ASSUME NEW y, HasLine(c, y)' PROVE HasLine(c, y) \/ (y = x /\ a.kind = "CHAT_MESSAGE")
  BY <1>2, <1>3, <1>4 DEF HasLine
<1>5. ASSUME NEW y, NEW z, Before(c, y, z)'
      PROVE  Before(c, y, z) \/ (z = x /\ HasLine(c, y) /\ a.kind = "CHAT_MESSAGE")
  <2>1. CASE \E i, j : Shows(c, i, y)' /\ Shows(c, j, z)' /\ i < j
    BY <1>2, <2>1 DEF Before
  <2>2. CASE \E i, k : Shows(c, i, y)' /\ Brings(c, k, z)'
    BY <1>2, <1>3, <2>2 DEF Before, HasLine
  <2>3. ASSUME NEW k, NEW l, Brings(c, k, y)', Brings(c, l, z)', k < l
        PROVE  Before(c, y, z) \/ (z = x /\ HasLine(c, y) /\ a.kind = "CHAT_MESSAGE")
    <3>1. k \in 1 .. n + 1 /\ l \in 1 .. n + 1 /\ k # n + 1
      BY <1>1, <1>3, <2>3
    <3>2. Brings(c, k, y)
      BY <1>3, <2>3, <3>1
    <3>. QED
      BY <1>3, <2>3, <3>2 DEF Before, HasLine
  <2>. QED
    BY <1>5, <2>1, <2>2, <2>3 DEF Before
<1>. QED
  BY <1>4, <1>5

\* The window of c and what is on its way to it get no new line from the host.
Calm(c) ==
  /\ \A x : HasLine(c, x)' => HasLine(c, x)
  /\ \A x, y : Before(c, x, y)' => Before(c, x, y)

LEMMA CalmQuiet ==
  ASSUME ChatInv, NEW c \in Controllers,
         chat'[c] = chat[c] \/ \E x : chat'[c] = Append(chat[c], <<"Me", x>>),
         \/ answers'[c] = answers[c] \/ answers'[c] = <<>>
         \/ answers[c] # <<>> /\ answers'[c] = Tail(answers[c])
  PROVE  Calm(c)
<1>1. chat[c] \in Seq(Line) /\ answers[c] \in Seq(Response)
  BY DEF ChatInv, ChatTyped
<1>2. \A i, x : Shows(c, i, x)' => Shows(c, i, x)
  <2>1. CASE chat'[c] = chat[c]
    BY <2>1 DEF Shows
  <2>2. CASE \E x : chat'[c] = Append(chat[c], <<"Me", x>>)
    <3>1. PICK y : chat'[c] = Append(chat[c], <<"Me", y>>)
      BY <2>2
    <3>2. \A i \in DOMAIN chat'[c] : \/ i \in DOMAIN chat[c] /\ chat'[c][i] = chat[c][i]
                                     \/ chat'[c][i] = <<"Me", y>>
      BY <1>1, <3>1
    <3>3. \A x : <<"Me", y>> # <<"Host", x>>
      OBVIOUS
    <3>. QED
      BY <3>2, <3>3 DEF Shows
  <2>. QED
    BY <2>1, <2>2
<1>3. PICK n \in {0, 1} : \A k \in DOMAIN answers'[c] :
        k \in Nat /\ k + n \in DOMAIN answers[c] /\ answers'[c][k] = answers[c][k + n]
  <2>1. CASE answers'[c] = answers[c]
    BY <1>1, <2>1
  <2>2. CASE answers'[c] = <<>>
    BY <2>2
  <2>3. CASE answers[c] # <<>> /\ answers'[c] = Tail(answers[c])
    BY <1>1, <2>3
  <2>. QED
    BY <2>1, <2>2, <2>3
<1>4. \A k, x : Brings(c, k, x)' => k \in Nat /\ Brings(c, k + n, x)
  BY <1>3 DEF Brings
<1>. QED
  BY <1>2, <1>3, <1>4, LinesFrom DEF Calm

LEMMA CalmTold ==
  ASSUME ChatInv, NEW c \in Controllers, NEW a \in Response, a.kind # "CHAT_MESSAGE",
         chat' = chat, answers' = [answers EXCEPT ![c] = Append(@, a)]
  PROVE  /\ \A d \in Controllers : Calm(d)
         /\ answers' \in [Controllers -> Seq(Response)]
<1>1. answers \in [Controllers -> Seq(Response)]
  BY DEF ChatInv, ChatTyped
<1>2. /\ answers'[c] = Append(answers[c], a)
      /\ \A d \in Controllers \ {c} : answers'[d] = answers[d]
      /\ answers' \in [Controllers -> Seq(Response)]
  BY <1>1
<1>3. Calm(c)
  BY <1>2, LineSpoken DEF Calm
<1>4. \A d \in Controllers \ {c} : Calm(d)
  BY <1>2, CalmQuiet
<1>. QED
  BY <1>2, <1>3, <1>4

\* What the host may do to the answers when it reads a request.
LEMMA HostAnswers ==
  ASSUME ChatInv, NEW c \in Controllers, Desk!HostReads(c)
  PROVE  /\ orders[c] # <<>> /\ orders' = [orders EXCEPT ![c] = Tail(@)]
         /\ asks' = asks /\ chat' = chat
         /\ \/ answers' = answers
            \/ \E a \in Response : a.kind # "CHAT_MESSAGE"
                                 /\ answers' = [answers EXCEPT ![c] = Append(@, a)]
            \/ Desk!Chat(Head(orders[c]))
<1> DEFINE r == Head(orders[c])
<1>1. orders[c] # <<>> /\ orders' = [orders EXCEPT ![c] = Tail(@)] /\ asks' = asks /\ chat' = chat
  BY DEF Desk!HostReads
<1>2. r \in Request /\ r.id \in ChatIds
  <2>1. orders[c] \in Seq(Request)
    BY DEF ChatInv, ChatTyped
  <2>2. r \in Request
    BY <1>1, <2>1
  <2>. QED
    BY <2>2 DEF Request
<1>. HIDE DEF r
<1>3. ASSUME NEW kind \in AnswerKinds, kind # "CHAT_MESSAGE"
      PROVE  Desk!To(c, kind, r) = answers \/
             \E a \in Response : a.kind # "CHAT_MESSAGE"
                                /\ Desk!To(c, kind, r) = [answers EXCEPT ![c] = Append(@, a)]
  <2> DEFINE a == [kind |-> kind, id |-> r.id]
  <2>1. a \in Response /\ a.kind # "CHAT_MESSAGE"
    BY <1>2, <1>3 DEF Response
  <2>2. Desk!To(c, kind, r) = [answers EXCEPT ![c] = Append(@, a)]
    BY DEF Desk!To
  <2>. QED
    BY <2>1, <2>2
<1>4. CASE \/ Desk!Hear(r) \/ Desk!Switch(r) \/ Desk!Draw(r) \/ Desk!Power(r) \/ Desk!FeedShells(r)
  BY <1>1, <1>4 DEF Desk!Hear, Desk!Switch, Desk!Draw, Desk!Power, Desk!FeedShells
<1>5. CASE Desk!Refuse(c, r)
  BY <1>1, <1>3, <1>5 DEF Desk!Refuse, AnswerKinds
<1>6. CASE Desk!Answer(c, r)
  <2>1. \A k \in DOMAIN Desk!PlainAnswers :
          Desk!PlainAnswers[k] \in AnswerKinds /\ Desk!PlainAnswers[k] # "CHAT_MESSAGE"
    <3>1. \A k \in DOMAIN Desk!PlainAnswers : Desk!PlainAnswers[k] # "CHAT_MESSAGE"
      BY DEF Desk!PlainAnswers, Desk!NoteAnswers, Desk!DeskAnswers
    <3>. QED
      BY <3>1 DEF AnswerKinds
  <2>. QED
    BY <1>1, <1>3, <1>6, <2>1 DEF Desk!Answer
<1>7. CASE Desk!Screenshot(c, r)
  BY <1>1, <1>3, <1>7 DEF Desk!Screenshot, AnswerKinds
<1>8. CASE Desk!Record(c, r) \/ Desk!StopRecord(c, r)
  BY <1>1, <1>3, <1>8 DEF Desk!Record, Desk!StopRecord, AnswerKinds
<1>9. CASE Desk!StartShell(c, r)
  BY <1>1, <1>3, <1>9 DEF Desk!StartShell, Desk!Told, AnswerKinds
<1>10. CASE Desk!Chat(r)
  BY <1>1, <1>10 DEF r
<1>. QED
  BY <1>4, <1>5, <1>6, <1>7, <1>8, <1>9, <1>10 DEF Desk!HostReads, r

\* What a session says goes to every window, behind all that is on its way there.
LEMMA ChatSpoken ==
  ASSUME ChatInv, NEW c \in Controllers, Desk!HostReads(c), Desk!Chat(Head(orders[c]))
  PROVE  ChatInv'
<1> DEFINE r == Head(orders[c])
           x == r.id
           a == [kind |-> "CHAT_MESSAGE", id |-> x]
<1>1. /\ orders[c] # <<>> /\ orders' = [orders EXCEPT ![c] = Tail(@)]
      /\ asks' = asks /\ chat' = chat
  BY HostAnswers
<1>2. /\ orders \in [Controllers -> Seq(Request)] /\ answers \in [Controllers -> Seq(Response)]
      /\ chat \in [Controllers -> Seq(Line)] /\ asks \in Nat
  BY DEF ChatInv, ChatTyped
<1>3. orders[c] \in Seq(Request) /\ 1 \in DOMAIN orders[c] /\ r = orders[c][1]
  <2>1. orders[c] \in Seq(Request)
    BY <1>2
  <2>. QED
    BY <1>1, <2>1
<1>4. r \in Request /\ x \in ChatIds /\ x[2] <= asks
  <2>1. r \in Request
    BY <1>3
  <2>. QED
    BY <1>3, <2>1 DEF ChatInv, NumbersGrow, Request
<1>5. a \in Response /\ a.kind = "CHAT_MESSAGE" /\ a.id = x
  BY <1>4 DEF Response, AnswerKinds
<1>6. \A d \in Controllers : ~HasLine(d, x)
  BY <1>3 DEF ChatInv, LinesAgree
<1>7. \A d \in Controllers : answers'[d] = answers[d] \/ answers'[d] = Append(answers[d], a)
  BY DEF Desk!Chat
<1>. HIDE DEF a, x, r
<1>8. answers' \in [Controllers -> Seq(Response)]
  <2>1. ASSUME NEW d \in Controllers PROVE answers'[d] \in Seq(Response)
    <3>1. answers[d] \in Seq(Response) /\ a \in Response
      BY <1>2, <1>5
    <3>2. Append(answers[d], a) \in Seq(Response)
      BY <3>1
    <3>. QED
      BY <1>7, <3>1, <3>2
  <2>2. answers' = [d \in Controllers |-> answers'[d]]
    BY DEF Desk!Chat
  <2>. QED
    BY <2>1, <2>2
<1>9. ASSUME NEW d \in Controllers
      PROVE  /\ \A y : HasLine(d, y)' => HasLine(d, y) \/ y = x
             /\ \A y, z : Before(d, y, z)' => Before(d, y, z) \/ (z = x /\ HasLine(d, y))
  <2>1. CASE answers'[d] = answers[d]
    <3>1. Calm(d)
      BY <1>1, <2>1, CalmQuiet
    <3>. QED
      BY <3>1 DEF Calm
  <2>2. CASE answers'[d] = Append(answers[d], a)
    BY <1>1, <1>5, <2>2, LineSpoken
  <2>. QED
    BY <1>7, <2>1, <2>2
<1>10. NumbersGrow' /\ \A d \in Controllers : NumbersFrom(d)
  <2>1. orders'[c] = Tail(orders[c]) /\ \A d \in Controllers \ {c} : orders'[d] = orders[d]
    BY <1>1, <1>2
  <2>. QED
    BY <1>1, <2>1, NumbersTaken
<1>11. ASSUME NEW d \in Controllers, NEW e \in Controllers, NEW k \in DOMAIN orders'[d]
       PROVE  ~HasLine(e, orders[d][k].id)'
  <2> DEFINE y == orders'[d][k].id
  <2>1. /\ y # x
        /\ \E l \in DOMAIN orders[d] : orders'[d][k] = orders[d][l]
    <3>1. CASE d = c
      <4>1. k \in Nat \ {0} /\ k + 1 \in DOMAIN orders[c] /\ orders'[c][k] = orders[c][k + 1]
        <5>1. orders'[c] = Tail(orders[c])
          BY <1>1, <1>2
        <5>2. \A j \in DOMAIN Tail(orders[c]) :
                j \in Nat \ {0} /\ j + 1 \in DOMAIN orders[c] /\ Tail(orders[c])[j] = orders[c][j + 1]
          BY <1>1, <1>3
        <5>. QED
          BY <3>1, <5>1, <5>2
      <4>2. k + 1 # 1
        BY <4>1
      <4>. QED
        BY <1>3, <3>1, <4>1, <4>2 DEF x, ChatInv, NumbersGrow
    <3>2. CASE d # c
      <4>1. orders'[d] = orders[d]
        BY <1>1, <1>2, <3>2
      <4>. QED
        BY <1>3, <3>2, <4>1 DEF x, ChatInv, NumbersGrow
    <3>. QED
      BY <3>1, <3>2
  <2>2. ~HasLine(e, y)
    BY <2>1 DEF ChatInv, LinesAgree
  <2>3. \A u : HasLine(e, u)' => HasLine(e, u) \/ u = x
    BY <1>9
  <2>4. ASSUME NEW u, u = orders'[d][k].id PROVE ~HasLine(e, u)'
    BY <2>1, <2>2, <2>3, <2>4
  <2>. QED
    BY <2>4 DEF HasLine, Shows, Brings
<1>12. ASSUME NEW d \in Controllers, NEW y, HasLine(d, y)'
       PROVE  y \in ChatIds /\ y[2] <= asks'
  <2>1. HasLine(d, y) \/ y = x
    BY <1>9, <1>12
  <2>. QED
    BY <1>1, <1>4, <2>1 DEF ChatInv, LinesAgree
<1>13. ASSUME NEW d \in Controllers, NEW e \in Controllers, NEW y, NEW z,
              Before(d, y, z)', Before(e, z, y)'
       PROVE  FALSE
  <2>1. Before(d, y, z) \/ (z = x /\ HasLine(d, y))
    BY <1>9, <1>13
  <2>2. Before(e, z, y) \/ (y = x /\ HasLine(e, z))
    BY <1>9, <1>13
  <2>3. (Before(d, y, z) => HasLine(d, y)) /\ (Before(e, z, y) => HasLine(e, z))
    BY DEF Before, HasLine
  <2>4. y # x /\ z # x
    BY <1>6, <2>1, <2>2, <2>3
  <2>. QED
    BY <2>1, <2>2, <2>4 DEF ChatInv, LinesAgree
<1>14. LinesAgree'
  BY <1>11, <1>12, <1>13 DEF LinesAgree
<1>15. ChatTyped'
  <2>1. ASSUME NEW d \in Controllers PROVE orders'[d] \in Seq(Request)
    <3>1. orders[d] \in Seq(Request) /\ Tail(orders[c]) \in Seq(Request)
      BY <1>1, <1>2, <1>3
    <3>. QED
      BY <1>1, <1>2, <3>1
  <2>2. orders' \in [Controllers -> Seq(Request)]
    BY <1>1, <1>2, <2>1
  <2>. QED
    BY <1>1, <1>2, <1>8, <2>2 DEF ChatTyped
<1>. QED
  BY <1>10, <1>14, <1>15 DEF ChatInv

LEMMA CalmStep ==
  ASSUME ChatInv, ChatTyped', NumbersGrow', asks <= asks',
         \A c \in Controllers : NumbersFrom(c), \A c \in Controllers : Calm(c)
  PROVE  ChatInv'
BY LinesKept DEF ChatInv, Calm

LEMMA HostReadsChat ==
  ASSUME ChatInv, NEW c \in Controllers, Desk!HostReads(c)
  PROVE  ChatInv'
<1>1. /\ orders[c] # <<>> /\ orders' = [orders EXCEPT ![c] = Tail(@)]
      /\ asks' = asks /\ chat' = chat
  BY HostAnswers
<1>2. /\ orders \in [Controllers -> Seq(Request)] /\ answers \in [Controllers -> Seq(Response)]
      /\ chat \in [Controllers -> Seq(Line)] /\ asks \in Nat
  BY DEF ChatInv, ChatTyped
<1>3. orders' \in [Controllers -> Seq(Request)]
  <2>1. Tail(orders[c]) \in Seq(Request)
    BY <1>1, <1>2
  <2>. QED
    BY <1>1, <1>2, <2>1
<1>4. NumbersGrow' /\ \A d \in Controllers : NumbersFrom(d)
  <2>1. orders'[c] = Tail(orders[c]) /\ \A d \in Controllers \ {c} : orders'[d] = orders[d]
    BY <1>1, <1>2
  <2>. QED
    BY <1>1, <2>1, NumbersTaken
<1>5. CASE Desk!Chat(Head(orders[c]))
  BY <1>5, ChatSpoken
<1>6. ASSUME answers' = answers \/ \E a \in Response : a.kind # "CHAT_MESSAGE"
                                 /\ answers' = [answers EXCEPT ![c] = Append(@, a)]
      PROVE  ChatInv'
  <2>1. (\A d \in Controllers : Calm(d)) /\ answers' \in [Controllers -> Seq(Response)]
    <3>1. CASE answers' = answers
      BY <1>1, <1>2, <3>1, CalmQuiet
    <3>2. CASE \E a \in Response : a.kind # "CHAT_MESSAGE"
                                 /\ answers' = [answers EXCEPT ![c] = Append(@, a)]
      BY <1>1, <3>2, CalmTold
    <3>. QED
      BY <1>6, <3>1, <3>2
  <2>2. ChatTyped'
    BY <1>1, <1>2, <1>3, <2>1 DEF ChatTyped
  <2>. QED
    BY <1>1, <1>2, <1>4, <2>1, <2>2, CalmStep
<1>. QED
  BY <1>5, <1>6, HostAnswers

LEMMA AskChat ==
  ASSUME ChatInv, NEW c \in Controllers, NEW k \in Desk!Offered, NEW on \in BOOLEAN,
         Desk!Ask(c, k, on)
  PROVE  ChatInv'
<1> DEFINE r == [kind |-> k, id |-> Desk!Id(c), on |-> on]
<1>1. /\ answers' = answers /\ asks' = asks + 1
      /\ orders' = [orders EXCEPT ![c] = Append(@, r)]
      /\ chat' = chat \/ chat' = [chat EXCEPT ![c] = Append(@, <<"Me", Desk!Id(c)>>)]
  BY DEF Desk!Ask, Desk!Send, Desk!Shown
<1>2. /\ answers \in [Controllers -> Seq(Response)]
      /\ chat \in [Controllers -> Seq(Line)] /\ asks \in Nat
  BY DEF ChatInv, ChatTyped
<1>3. Desk!Id(c) \in ChatIds
  BY <1>2 DEF Desk!Id, ChatIds
<1>4. r \in Request /\ r.id = Desk!Id(c)
  BY <1>3 DEF Request
<1>. HIDE DEF r
<1>5. /\ NumbersGrow' /\ \A d \in Controllers : NumbersFrom(d)
      /\ orders' \in [Controllers -> Seq(Request)] /\ asks' \in Nat
  BY <1>1, <1>4, NumberGiven
<1>6. /\ chat' \in [Controllers -> Seq(Line)]
      /\ \A d \in Controllers : chat'[d] = chat[d] \/ chat'[d] = Append(chat[d], <<"Me", Desk!Id(c)>>)
  <2> DEFINE m == <<"Me", Desk!Id(c)>>
  <2>1. m \in Line
    BY <1>3 DEF Line
  <2>. HIDE DEF m
  <2>2. CASE chat' = chat
    BY <1>2, <2>2
  <2>3. CASE chat' = [chat EXCEPT ![c] = Append(@, m)]
    <3>1. Append(chat[c], m) \in Seq(Line)
      BY <1>2, <2>1
    <3>. QED
      BY <1>2, <2>3, <3>1 DEF m
  <2>. QED
    BY <1>1, <2>2, <2>3 DEF m
<1>7. \A d \in Controllers : Calm(d)
  BY <1>1, <1>6, CalmQuiet
<1>8. ChatTyped'
  BY <1>1, <1>2, <1>5, <1>6 DEF ChatTyped
<1>. QED
  BY <1>1, <1>2, <1>5, <1>7, <1>8, CalmStep

LEMMA ControllerReadsChat ==
  ASSUME ChatInv, NEW c \in Controllers, Desk!ControllerReads(c)
  PROVE  ChatInv'
<1> DEFINE a == Head(answers[c])
           r == [kind |-> "PROCESS_LIST_REQ", id |-> Desk!Id(c), on |-> TRUE]
<1>1. /\ answers[c] # <<>> /\ answers' = [answers EXCEPT ![c] = Tail(@)]
      /\ chat' = IF a.kind = "CHAT_MESSAGE"
                 THEN [chat EXCEPT ![c] = Append(@, <<"Host", a.id>>)] ELSE chat
      /\ \/ asks' = asks /\ orders' = orders
         \/ asks' = asks + 1 /\ orders' = [orders EXCEPT ![c] = Append(@, r)]
  BY DEF Desk!ControllerReads, Desk!Shown
<1>2. /\ orders \in [Controllers -> Seq(Request)] /\ answers \in [Controllers -> Seq(Response)]
      /\ chat \in [Controllers -> Seq(Line)] /\ asks \in Nat
  BY DEF ChatInv, ChatTyped
<1>3. /\ answers[c] \in Seq(Response) /\ 1 \in DOMAIN answers[c] /\ a = answers[c][1]
      /\ a \in Response
  <2>1. answers[c] \in Seq(Response)
    BY <1>2
  <2>. QED
    BY <1>1, <2>1
<1>4. a.id \in ChatIds /\ <<"Host", a.id>> \in Line
  BY <1>3 DEF Response, Line
<1>5. r \in Request /\ r.id = Desk!Id(c)
  BY <1>2 DEF Request, Desk!Id, ChatIds
<1>. HIDE DEF a, r
<1>6. /\ NumbersGrow' /\ \A d \in Controllers : NumbersFrom(d)
      /\ orders' \in [Controllers -> Seq(Request)] /\ asks' \in Nat /\ asks <= asks'
  <2>1. CASE asks' = asks /\ orders' = orders
    BY <1>2, <2>1, NumbersTaken
  <2>2. CASE asks' = asks + 1 /\ orders' = [orders EXCEPT ![c] = Append(@, r)]
    <3>1. /\ NumbersGrow' /\ \A d \in Controllers : NumbersFrom(d)
          /\ orders' \in [Controllers -> Seq(Request)] /\ asks' \in Nat
      BY <1>5, <2>2, NumberGiven
    <3>2. asks <= asks'
      BY <1>2, <2>2
    <3>. QED
      BY <3>1, <3>2
  <2>. QED
    BY <1>1, <2>1, <2>2
<1>7. /\ answers' \in [Controllers -> Seq(Response)] /\ answers'[c] = Tail(answers[c])
      /\ \A d \in Controllers \ {c} : answers'[d] = answers[d]
  <2>1. Tail(answers[c]) \in Seq(Response)
    BY <1>1, <1>3
  <2>. QED
    BY <1>1, <1>2, <2>1
<1>8. /\ chat' \in [Controllers -> Seq(Line)]
      /\ \A d \in Controllers \ {c} : chat'[d] = chat[d]
      /\ chat'[c] = IF a.kind = "CHAT_MESSAGE" THEN Append(chat[c], <<"Host", a.id>>) ELSE chat[c]
  BY <1>1, <1>2, <1>4
<1>9. Calm(c)
  <2>1. CASE a.kind = "CHAT_MESSAGE"
    <3>1. Brings(c, 1, a.id)
      BY <1>3, <2>1 DEF Brings
    <3>. QED
      BY <1>1, <1>7, <1>8, <2>1, <3>1, LineShown DEF Calm
  <2>2. CASE a.kind # "CHAT_MESSAGE"
    BY <1>1, <1>7, <1>8, <2>2, CalmQuiet
  <2>. QED
    BY <2>1, <2>2
<1>10. \A d \in Controllers \ {c} : Calm(d)
  BY <1>7, <1>8, CalmQuiet
<1>11. ChatTyped'
  BY <1>6, <1>7, <1>8 DEF ChatTyped
<1>. QED
  BY <1>6, <1>9, <1>10, <1>11, CalmStep

\* A session that ends takes what is on its way with it; a shell's end is no line of the chat.
LEMMA QuietChat ==
  ASSUME ChatInv, asks' = asks, chat' = chat,
         \/ orders' = orders /\ answers' = answers
         \/ \E c \in Controllers : Desk!Leave(c) \/ Desk!ShellEnds(c)
  PROVE  ChatInv'
<1>1. /\ orders \in [Controllers -> Seq(Request)] /\ answers \in [Controllers -> Seq(Response)]
      /\ chat \in [Controllers -> Seq(Line)] /\ asks \in Nat
  BY DEF ChatInv, ChatTyped
<1>2. /\ \A c \in Controllers : orders'[c] = orders[c] \/ orders'[c] = <<>>
      /\ orders' \in [Controllers -> Seq(Request)]
  <2>1. CASE orders' = orders
    BY <1>1, <2>1
  <2>2. ASSUME NEW c \in Controllers, orders' = [orders EXCEPT ![c] = <<>>]
        PROVE  /\ \A d \in Controllers : orders'[d] = orders[d] \/ orders'[d] = <<>>
               /\ orders' \in [Controllers -> Seq(Request)]
    <3>1. <<>> \in Seq(Request)
      OBVIOUS
    <3>. QED
      BY <1>1, <2>2, <3>1
  <2>. QED
    BY <2>1, <2>2 DEF Desk!Leave, Desk!ShellEnds
<1>3. NumbersGrow' /\ \A c \in Controllers : NumbersFrom(c)
  BY <1>2, NumbersTaken
<1>4. (\A d \in Controllers : Calm(d)) /\ answers' \in [Controllers -> Seq(Response)]
  <2>1. CASE orders' = orders /\ answers' = answers
    BY <1>1, <2>1, CalmQuiet
  <2>2. ASSUME NEW c \in Controllers, Desk!Leave(c)
        PROVE  (\A d \in Controllers : Calm(d)) /\ answers' \in [Controllers -> Seq(Response)]
    <3>1. /\ answers' \in [Controllers -> Seq(Response)]
          /\ \A d \in Controllers : answers'[d] = answers[d] \/ answers'[d] = <<>>
      BY <1>1, <2>2 DEF Desk!Leave
    <3>. QED
      BY <3>1, CalmQuiet
  <2>3. ASSUME NEW c \in Controllers, Desk!ShellEnds(c)
        PROVE  (\A d \in Controllers : Calm(d)) /\ answers' \in [Controllers -> Seq(Response)]
    <3> DEFINE a == [kind |-> "TERMINAL_OUTPUT", id |-> <<c, 0>>]
    <3>1. a \in Response /\ a.kind # "CHAT_MESSAGE"
      BY DEF Response, ChatIds, AnswerKinds
    <3>2. answers' = answers \/ answers' = [answers EXCEPT ![c] = Append(@, a)]
      BY <2>3 DEF Desk!ShellEnds, Desk!Told, Desk!To
    <3>. HIDE DEF a
    <3>3. CASE answers' = answers
      BY <1>1, <3>3, CalmQuiet
    <3>4. CASE answers' = [answers EXCEPT ![c] = Append(@, a)]
      BY <3>1, <3>4, CalmTold
    <3>. QED
      BY <3>2, <3>3, <3>4
  <2>. QED
    BY <2>1, <2>2, <2>3
<1>5. ChatTyped'
  BY <1>1, <1>2, <1>4 DEF ChatTyped
<1>. QED
  BY <1>1, <1>3, <1>4, <1>5, CalmStep

LEMMA ChatStepInv == ChatInv /\ [Desk!Step]_desk => ChatInv'
<1>. SUFFICES ASSUME ChatInv, [Desk!Step]_desk PROVE ChatInv'
  OBVIOUS
<1>1. CASE UNCHANGED desk
  BY <1>1, QuietChat DEF desk
<1>2. CASE Desk!Step
  <2>1. ASSUME NEW c \in Controllers, Desk!HostReads(c) PROVE ChatInv'
    BY <2>1, HostReadsChat
  <2>2. ASSUME NEW c \in Controllers, Desk!ControllerReads(c) PROVE ChatInv'
    BY <2>2, ControllerReadsChat
  <2>3. ASSUME NEW c \in Controllers, Desk!ShellEnds(c) \/ Desk!Leave(c) PROVE ChatInv'
    <3>1. asks' = asks /\ chat' = chat
      BY <2>3 DEF Desk!ShellEnds, Desk!Leave
    <3>. QED
      BY <2>3, <3>1, QuietChat
  <2>4. ASSUME NEW c \in Controllers, NEW k \in Desk!Offered, NEW on \in BOOLEAN,
               Desk!Ask(c, k, on)
        PROVE  ChatInv'
    BY <2>4, AskChat
  <2>5. ASSUME NEW cap \in Switchable, Desk!Recap(cap) PROVE ChatInv'
    <3>1. asks' = asks /\ chat' = chat /\ orders' = orders /\ answers' = answers
      BY <2>5 DEF Desk!Recap
    <3>. QED
      BY <3>1, QuietChat
  <2>6. CASE Desk!HostGoes
    <3>1. asks' = asks /\ chat' = chat /\ orders' = orders /\ answers' = answers
      BY <2>6 DEF Desk!HostGoes
    <3>. QED
      BY <3>1, QuietChat
  <2>. QED
    BY <1>2, <2>1, <2>2, <2>3, <2>4, <2>5, <2>6 DEF Desk!Step
<1>. QED
  BY <1>1, <1>2

(* Two windows that show the same two lines of the chat show them in the   *)
(* same order, for every number of sessions: Host::processClientMessage     *)
(* writes a line to all of them while it handles that one message, and a   *)
(* line still to be handled is nowhere yet.                                *)
THEOREM ChatsAgree == Spec => []ChatSameOrder
<1>1. Init => ChatInv
  <2>. SUFFICES ASSUME Desk!Init PROVE ChatInv
    BY DEF Init
  <2>1. /\ asks = 0 /\ orders = [c \in Controllers |-> <<>>]
        /\ answers = [c \in Controllers |-> <<>>] /\ chat = [c \in Controllers |-> <<>>]
    BY DEF Desk!Init
  <2>2. ChatTyped
    BY <2>1 DEF ChatTyped
  <2>3. \A c \in Controllers : \A x : ~HasLine(c, x)
    BY <2>1 DEF HasLine, Shows, Brings
  <2>4. \A c \in Controllers : \A x, y : Before(c, x, y) => HasLine(c, x)
    BY DEF Before, HasLine
  <2>5. \A c \in Controllers : DOMAIN orders[c] = {}
    BY <2>1
  <2>. QED
    BY <2>2, <2>3, <2>4, <2>5 DEF ChatInv, NumbersGrow, LinesAgree
<1>2. ChatInv /\ [Next]_vars => ChatInv'
  <2>. SUFFICES ASSUME ChatInv, [Next]_vars PROVE ChatInv'
    OBVIOUS
  <2>1. [Desk!Step]_desk
    BY DEF Next, vars, DeskStep, MailStep, KeysStep, TcpStep, ClipStep, FolderStep, ListingStep,
           InputStep, GatewayStep
  <2>. QED
    BY <2>1, ChatStepInv
<1>3. ChatInv => ChatSameOrder
  <2>. SUFFICES ASSUME ChatInv, NEW c \in Controllers, NEW d \in Controllers,
                       NEW i \in DOMAIN chat[c], NEW j \in DOMAIN chat[c],
                       NEW k \in DOMAIN chat[d], NEW l \in DOMAIN chat[d],
                       Desk!FromHost(chat[c][i]), chat[c][i] = chat[d][k],
                       Desk!FromHost(chat[c][j]), chat[c][j] = chat[d][l]
                PROVE  i < j <=> k < l
    BY DEF ChatSameOrder, Desk!ChatSameOrder
  <2>1. /\ chat[c] \in Seq(Line) /\ chat[d] \in Seq(Line)
    BY DEF ChatInv, ChatTyped
  <2>2. i \in Nat /\ j \in Nat /\ k \in Nat /\ l \in Nat
    BY <2>1
  <2>3. chat[c][i] \in Line /\ chat[c][j] \in Line
    BY <2>1
  <2>4. PICK x : chat[c][i] = <<"Host", x>>
    BY <2>3 DEF Line, Desk!FromHost
  <2>5. PICK y : chat[c][j] = <<"Host", y>>
    BY <2>3 DEF Line, Desk!FromHost
  <2>6. Shows(c, i, x) /\ Shows(c, j, y) /\ Shows(d, k, x) /\ Shows(d, l, y)
    BY <2>4, <2>5 DEF Shows
  <2>7. ~(i < j /\ l <= k)
    <3>. SUFFICES ASSUME i < j, l <= k PROVE FALSE
      OBVIOUS
    <3>1. Before(c, x, y)
      BY <2>6 DEF Before
    <3>2. CASE l < k
      BY <2>6, <3>1, <3>2 DEF Before, ChatInv, LinesAgree
    <3>3. CASE l = k
      <4>1. <<"Host", x>> = <<"Host", y>>
        BY <2>4, <2>5, <3>3
      <4>2. x = y
        BY <4>1
      <4>. QED
        BY <3>1, <4>2 DEF ChatInv, LinesAgree
    <3>. QED
      BY <2>2, <3>2, <3>3
  <2>8. ~(k < l /\ j <= i)
    <3>. SUFFICES ASSUME k < l, j <= i PROVE FALSE
      OBVIOUS
    <3>1. Before(d, x, y)
      BY <2>6 DEF Before
    <3>2. CASE j < i
      BY <2>6, <3>1, <3>2 DEF Before, ChatInv, LinesAgree
    <3>3. CASE j = i
      <4>1. <<"Host", x>> = <<"Host", y>>
        BY <2>4, <2>5, <3>3
      <4>2. x = y
        BY <4>1
      <4>. QED
        BY <3>1, <4>2 DEF ChatInv, LinesAgree
    <3>. QED
      BY <2>2, <3>2, <3>3
  <2>. QED
    BY <2>2, <2>7, <2>8
<1>. QED
  BY <1>1, <1>2, <1>3, PTL DEF Spec

-----------------------------------------------------------------------------
(* Functions defined by recursion, and sequences.                          *)

\* The least of a set of numbers.
LEMMA LeastOf ==
  ASSUME NEW T, T \subseteq Nat, T # {}
  PROVE  \E x \in T : \A y \in T : x <= y
<1>. DEFINE R == OpToRel(<, Nat)
<1>1. IsWellFoundedOn(R, Nat)
  BY NatLessThanWellFounded
<1>2. PICK x \in T : \A y \in T : <<y, x>> \notin R
  <2>. HIDE DEF R
  <2>. QED
    BY <1>1, WFMin
<1>3. ASSUME NEW y \in T PROVE x <= y
  <2>1. x \in Nat /\ y \in Nat
    OBVIOUS
  <2>2. ~(y < x)
    BY <1>2, <2>1 DEF OpToRel
  <2>. QED
    BY <2>1, <2>2
<1>. QED
  BY <1>3

\* What a recursive function is defined by: where to stop and with what, and
\* what else to look at, which has to come to an end.
Recursive(S, V, rank, base, a, rest, comb) ==
  /\ rank \in [S -> Nat] /\ base \in SUBSET S
  /\ a \in [base -> V] /\ rest \in [S \ base -> S] /\ comb \in [(S \ base) \X V -> V]
  /\ \A s \in S \ base : rank[rest[s]] < rank[s]
Solution(S, V, base, a, rest, comb) ==
  {f \in [S -> V] : \A s \in S :
     f[s] = IF s \in base THEN a[s] ELSE comb[<<s, f[rest[s]]>>]}

LEMMA Recursion ==
  ASSUME NEW S, NEW V, NEW rank, NEW base, NEW a, NEW rest, NEW comb,
         Recursive(S, V, rank, base, a, rest, comb)
  PROVE  Solution(S, V, base, a, rest, comb) # {}
<1>. USE DEF Recursive
<1>. DEFINE Below(n) == {s \in S : rank[s] < n}
            Value(f, s) == IF s \in base THEN a[s] ELSE comb[<<s, f[rest[s]]>>]
            Solves(n) == {g \in [Below(n) -> V] : \A s \in Below(n) : g[s] = Value(g, s)}
<1>1. ASSUME NEW m \in Nat, NEW n \in Nat, NEW g \in Solves(m), NEW h \in Solves(n)
      PROVE  \A s \in Below(m) \cap Below(n) : g[s] = h[s]
  <2>. DEFINE differ == {s \in Below(m) \cap Below(n) : g[s] # h[s]}
  <2>. SUFFICES ASSUME differ # {} PROVE FALSE
    OBVIOUS
  <2>1. PICK k \in {rank[s] : s \in differ} : \A y \in {rank[s] : s \in differ} : k <= y
    <3>0. differ \subseteq S
      OBVIOUS
    <3>1. {rank[s] : s \in differ} \subseteq Nat /\ {rank[s] : s \in differ} # {}
      <4>. HIDE DEF differ
      <4>. QED
        BY <3>0
    <3>. HIDE DEF differ
    <3>. QED
      BY <3>1, LeastOf
  <2>2. PICK s \in differ : rank[s] = k
    <3>. HIDE DEF differ
    <3>. QED
      BY <2>1
  <2>a. s \in Below(m) /\ s \in Below(n) /\ g[s] # h[s]
    BY <2>2
  <2>3. s \notin base
    <3>2. g[s] = Value(g, s) /\ h[s] = Value(h, s)
      BY <2>a
    <3>. QED
      BY <2>a, <3>2
  <2>4. rest[s] \in S /\ rank[rest[s]] < rank[s] /\ rank[rest[s]] \in Nat /\ rank[s] \in Nat
    BY <2>3
  <2>5. rest[s] \notin differ
    <3>1. ASSUME rest[s] \in differ PROVE FALSE
      <4>1. rank[rest[s]] \in {rank[x] : x \in differ}
        BY <3>1
      <4>2. k <= rank[rest[s]]
        BY <4>1, <2>1
      <4>. QED
        BY <4>2, <2>2, <2>4
    <3>. QED
      BY <3>1
  <2>6. g[rest[s]] = h[rest[s]]
    BY <2>4, <2>5
  <2>8. g[s] = Value(g, s) /\ h[s] = Value(h, s)
    BY <2>a
  <2>. QED
    BY <2>3, <2>6, <2>a, <2>8
<1>2. ASSUME NEW n \in Nat PROVE Solves(n) # {}
  <2>. DEFINE bad == {i \in Nat : Solves(i) = {}}
  <2>. SUFFICES ASSUME bad # {} PROVE FALSE
    OBVIOUS
  <2>1. PICK k \in bad : \A y \in bad : k <= y
    <3>1. bad \subseteq Nat
      OBVIOUS
    <3>. HIDE DEF bad
    <3>. QED
      BY <3>1, LeastOf
  <2>2. CASE k = 0
    <3>1. Below(k) = {}
      <4>1. \A s \in S : rank[s] \in Nat
        OBVIOUS
      <4>. QED
        BY <2>2, <4>1
    <3>2. [s \in Below(k) |-> a[s]] \in Solves(k)
      BY <3>1
    <3>. QED
      BY <3>2
  <2>3. CASE k # 0
    <3>1. k - 1 \in Nat /\ k - 1 \notin bad
      <4>1. k \in Nat
        OBVIOUS
      <4>. HIDE DEF bad
      <4>. QED
        BY <2>1, <2>3, <4>1
    <3>2. PICK g : g \in Solves(k - 1)
      BY <3>1
    <3> DEFINE h == [s \in Below(k) |-> Value(g, s)]
    <3>3. ASSUME NEW s \in Below(k), s \notin base PROVE rest[s] \in Below(k - 1) /\ rest[s] \in Below(k)
      <4>1. rest[s] \in S /\ rank[rest[s]] < rank[s] /\ rank[rest[s]] \in Nat /\ rank[s] \in Nat
        BY <3>3
      <4>. QED
        BY <4>1, <3>1
    <3>4. h \in [Below(k) -> V]
      <4>1. ASSUME NEW s \in Below(k) PROVE Value(g, s) \in V
        <5>1. CASE s \in base
          BY <5>1
        <5>2. CASE s \notin base
          BY <5>2, <3>3, <3>2
        <5>. QED
          BY <5>1, <5>2
      <4>. QED
        BY <4>1
    <3>5. ASSUME NEW s \in Below(k) PROVE h[s] = Value(h, s)
      <4>1. CASE s \in base
        BY <4>1
      <4>2. CASE s \notin base
        BY <4>2, <3>3, <3>2
      <4>. QED
        BY <4>1, <4>2
    <3>6. h \in Solves(k)
      BY <3>4, <3>5
    <3>. QED
      BY <3>6
  <2>. QED
    BY <2>2, <2>3
<1>. DEFINE the(s) == CHOOSE g : g \in Solves(rank[s] + 1)
            f == [s \in S |-> the(s)[s]]
<1>3. ASSUME NEW s \in S PROVE the(s) \in Solves(rank[s] + 1) /\ s \in Below(rank[s] + 1)
  <2>1. rank[s] + 1 \in Nat /\ rank[s] < rank[s] + 1
    OBVIOUS
  <2>2. Solves(rank[s] + 1) # {}
    BY <2>1, <1>2
  <2>. HIDE DEF Solves
  <2>. QED
    BY <2>1, <2>2
<1>4. f \in [S -> V]
  BY <1>3
<1>5. ASSUME NEW s \in S PROVE f[s] = Value(f, s)
  <2>1. f[s] = Value(the(s), s)
    BY <1>3
  <2>2. CASE s \in base
    BY <2>1, <2>2
  <2>3. CASE s \notin base
    <3> DEFINE r == rest[s]
    <3>1. r \in S /\ rank[r] < rank[s] /\ rank[r] \in Nat /\ rank[s] \in Nat
      BY <2>3
    <3>2. r \in Below(rank[s] + 1) /\ r \in Below(rank[r] + 1)
      BY <3>1
    <3>3. rank[s] + 1 \in Nat /\ rank[r] + 1 \in Nat
      BY <3>1
    <3>4. the(s) \in Solves(rank[s] + 1) /\ the(r) \in Solves(rank[r] + 1)
      BY <3>1, <1>3
    <3>5. the(s)[r] = the(r)[r]
      <4>. HIDE DEF the, Solves, Below, r
      <4>. QED
        BY <3>2, <3>3, <3>4, <1>1
    <3>6. f[r] = the(r)[r]
      BY <3>1
    <3>7. Value(the(s), s) = comb[<<s, the(s)[r]>>] /\ Value(f, s) = comb[<<s, f[r]>>]
      BY <2>3
    <3>. HIDE DEF f, the, Value, r
    <3>. QED
      BY <2>1, <3>5, <3>6, <3>7
  <2>. QED
    BY <2>2, <2>3
<1>. QED
  BY <1>4, <1>5 DEF Solution

\* One sequence behind another.
LEMMA Joined ==
  ASSUME NEW S, NEW s \in Seq(S), NEW t \in Seq(S)
  PROVE  /\ s \o t \in Seq(S) /\ Len(s \o t) = Len(s) + Len(t)
         /\ Len(s) \in Nat /\ Len(t) \in Nat
         /\ DOMAIN s = 1 .. Len(s) /\ DOMAIN t = 1 .. Len(t)
         /\ DOMAIN (s \o t) = 1 .. Len(s) + Len(t)
         /\ \A i \in DOMAIN s : i \in DOMAIN (s \o t) /\ (s \o t)[i] = s[i]
         /\ \A i \in DOMAIN t : Len(s) + i \in DOMAIN (s \o t) /\ (s \o t)[Len(s) + i] = t[i]
         /\ \A i \in DOMAIN (s \o t) :
              i \in DOMAIN s \/ \E j \in DOMAIN t : i = Len(s) + j
<1>. DEFINE l == Len(s)
            m == Len(t)
            w == s \o t
<1>1. l \in Nat /\ m \in Nat /\ DOMAIN s = 1 .. l /\ DOMAIN t = 1 .. m
  BY LenProperties
<1>2. /\ w \in Seq(S) /\ Len(w) = l + m
      /\ \A i \in 1 .. l + m : w[i] = IF i <= l THEN s[i] ELSE t[i - l]
  BY ConcatProperties
<1>3. DOMAIN w = 1 .. l + m
  BY <1>2, LenProperties
<1>. HIDE DEF l, m, w
<1>4. ASSUME NEW i \in 1 .. l PROVE i \in 1 .. l + m /\ w[i] = s[i]
  BY <1>1, <1>2
<1>5. ASSUME NEW i \in 1 .. m PROVE l + i \in 1 .. l + m /\ w[l + i] = t[i]
  <2>1. l + i \in 1 .. l + m /\ ~(l + i <= l) /\ (l + i) - l = i
    BY <1>1
  <2>. QED
    BY <2>1, <1>2
<1>6. ASSUME NEW i \in 1 .. l + m PROVE i \in 1 .. l \/ \E j \in 1 .. m : i = l + j
  <2>1. i \notin 1 .. l => i - l \in 1 .. m /\ i = l + (i - l)
    BY <1>1
  <2>. QED
    BY <2>1
<1>. QED
  BY <1>1, <1>2, <1>3, <1>4, <1>5, <1>6 DEF l, m, w

\* The first n of a sequence, and what is behind them.
LEMMA FrontOf ==
  ASSUME NEW S, NEW s \in Seq(S), NEW n \in 0 .. Len(s)
  PROVE  /\ SubSeq(s, 1, n) \in Seq(S) /\ Len(SubSeq(s, 1, n)) = n
         /\ \A i \in 1 .. n : SubSeq(s, 1, n)[i] = s[i]
<1>. DEFINE w == SubSeq(s, 1, n)
<1>1. /\ Len(s) \in Nat /\ n \in Nat /\ n <= Len(s) /\ n \in Int /\ 1 \in Int
      /\ \A i \in 1 .. n : s[i] \in S
  <2>1. Len(s) \in Nat
    BY LenProperties
  <2>2. n \in Nat /\ n <= Len(s)
    BY <2>1
  <2>3. ASSUME NEW i \in 1 .. n PROVE s[i] \in S
    <3>1. i \in 1 .. Len(s)
      BY <2>1, <2>2
    <3>. QED
      BY <3>1, ElementOfSeq
  <2>. QED
    BY <2>1, <2>2, <2>3
<1>2. w \in Seq(S)
  BY <1>1, SubSeqProperties
<1>3. Len(w) = n
  <2>1. Len(w) = IF 1 <= n THEN n - 1 + 1 ELSE 0
    BY <1>1, SubSeqProperties
  <2>. HIDE DEF w
  <2>. QED
    BY <2>1, <1>1
<1>4. ASSUME NEW i \in 1 .. n PROVE w[i] = s[i]
  <2>1. i \in 1 .. n - 1 + 1 /\ 1 + i - 1 = i
    BY <1>1
  <2>2. w[i] = s[1 + i - 1]
    BY <1>1, <2>1, SubSeqProperties
  <2>. QED
    BY <2>1, <2>2
<1>. QED
  BY <1>2, <1>3, <1>4

LEMMA BehindOf ==
  ASSUME NEW S, NEW s \in Seq(S), NEW n \in 0 .. Len(s)
  PROVE  /\ SubSeq(s, n + 1, Len(s)) \in Seq(S) /\ Len(SubSeq(s, n + 1, Len(s))) = Len(s) - n
         /\ \A i \in 1 .. Len(s) - n : SubSeq(s, n + 1, Len(s))[i] = s[n + i]
<1>. DEFINE l == Len(s)
            w == SubSeq(s, n + 1, l)
<1>1. /\ l \in Nat /\ n \in Nat /\ n <= l /\ n + 1 \in Int /\ l \in Int
      /\ \A i \in n + 1 .. l : s[i] \in S
  <2>1. l \in Nat
    BY LenProperties
  <2>2. n \in Nat /\ n <= l
    BY <2>1
  <2>3. ASSUME NEW i \in n + 1 .. l PROVE s[i] \in S
    <3>1. i \in 1 .. l
      BY <2>1, <2>2
    <3>. QED
      BY <3>1, ElementOfSeq
  <2>. HIDE DEF l
  <2>. QED
    BY <2>1, <2>2, <2>3
<1>. HIDE DEF l
<1>2. w \in Seq(S)
  BY <1>1, SubSeqProperties
<1>3. Len(w) = l - n
  <2>1. Len(w) = IF n + 1 <= l THEN l - (n + 1) + 1 ELSE 0
    BY <1>1, SubSeqProperties
  <2>. HIDE DEF w
  <2>. QED
    BY <2>1, <1>1
<1>4. ASSUME NEW i \in 1 .. l - n PROVE w[i] = s[n + i]
  <2>1. i \in 1 .. l - (n + 1) + 1 /\ (n + 1) + i - 1 = n + i
    BY <1>1
  <2>2. w[i] = s[(n + 1) + i - 1]
    BY <1>1, <2>1, SubSeqProperties
  <2>. QED
    BY <2>1, <2>2
<1>. QED
  BY <1>2, <1>3, <1>4 DEF l

\* Cut in two, a sequence is the two parts.
LEMMA FrontAndBehind ==
  ASSUME NEW S, NEW s \in Seq(S), NEW n \in 0 .. Len(s)
  PROVE  SubSeq(s, 1, n) \o SubSeq(s, n + 1, Len(s)) = s
<1>. DEFINE u == SubSeq(s, 1, n)
            v == SubSeq(s, n + 1, Len(s))
            l == Len(s)
<1>1. l \in Nat /\ n \in Nat /\ n <= l
  BY LenProperties
<1>2. u \in Seq(S) /\ Len(u) = n /\ \A i \in 1 .. n : u[i] = s[i]
  BY FrontOf
<1>3. v \in Seq(S) /\ Len(v) = l - n /\ \A i \in 1 .. l - n : v[i] = s[n + i]
  BY BehindOf
<1>. HIDE DEF u, v, l
<1>4. /\ u \o v \in Seq(S) /\ Len(u \o v) = n + (l - n)
      /\ \A i \in 1 .. n + (l - n) : (u \o v)[i] = IF i <= n THEN u[i] ELSE v[i - n]
  <2>1. /\ u \o v \in Seq(S) /\ Len(u \o v) = Len(u) + Len(v)
        /\ \A i \in 1 .. Len(u) + Len(v) :
             (u \o v)[i] = IF i <= Len(u) THEN u[i] ELSE v[i - Len(u)]
    BY <1>2, <1>3, ConcatProperties
  <2>. QED
    BY <2>1, <1>2, <1>3
<1>5. ASSUME NEW i \in 1 .. l PROVE (u \o v)[i] = s[i]
  <2>1. i \in 1 .. n + (l - n) /\ i \in Nat
    BY <1>1
  <2>2. CASE i <= n
    BY <2>1, <2>2, <1>1, <1>2, <1>4
  <2>3. CASE ~(i <= n)
    <3>1. i - n \in 1 .. l - n /\ n + (i - n) = i
      BY <2>1, <2>3, <1>1
    <3>. QED
      BY <2>1, <2>3, <3>1, <1>3, <1>4
  <2>. QED
    BY <2>2, <2>3
<1>6. Len(u \o v) = l
  BY <1>1, <1>4
<1>. QED
  BY <1>4, <1>5, <1>6, SeqEqual DEF u, v, l

-----------------------------------------------------------------------------
(* TcpConnection.                                                          *)

\* Streams of parts, and what processBuffer makes of one.
TcpPart == [message : Nat, part : {1, 2}]
Parts == Seq(TcpPart)
Processed == [buffer : Parts, messages : Seq(Parts)]
Waits(b) == Len(b) < 2 \/ b[1].part = 2

LEMMA BehindTwo ==
  ASSUME NEW M, NEW b \in Seq(M), Len(b) >= 2
  PROVE  /\ SubSeq(b, 3, Len(b)) \in Seq(M) /\ Len(SubSeq(b, 3, Len(b))) = Len(b) - 2
         /\ \A i \in 1 .. Len(b) - 2 : SubSeq(b, 3, Len(b))[i] = b[2 + i]
         /\ SubSeq(b, 1, 2) \in Seq(M) /\ Len(SubSeq(b, 1, 2)) = 2
         /\ SubSeq(b, 1, 2)[1] = b[1] /\ SubSeq(b, 1, 2)[2] = b[2]
<1>1. Len(b) \in Nat /\ \A i \in 1 .. Len(b) : b[i] \in M
  OBVIOUS
<1>2. SubSeq(b, 3, Len(b)) \in Seq(M)
  BY <1>1, SubSeqProperties
<1>3. Len(SubSeq(b, 3, Len(b))) = Len(b) - 2
  <2>1. Len(SubSeq(b, 3, Len(b))) = IF 3 <= Len(b) THEN Len(b) - 3 + 1 ELSE 0
    BY <1>1, SubSeqProperties
  <2>2. \A n \in Nat : n >= 2 => n - 3 + 1 = n - 2 /\ (~(3 <= n) => n - 2 = 0)
    OBVIOUS
  <2>. QED
    BY <1>1, <2>1, <2>2
<1>4. ASSUME NEW i \in 1 .. Len(b) - 2 PROVE SubSeq(b, 3, Len(b))[i] = b[2 + i]
  <2>1. i \in 1 .. Len(b) - 3 + 1 /\ 3 + i - 1 = 2 + i
    BY <1>1
  <2>2. SubSeq(b, 3, Len(b))[i] = b[3 + i - 1]
    BY <1>1, <2>1, SubSeqProperties
  <2>. QED
    BY <2>1, <2>2
<1>5. SubSeq(b, 1, 2) \in Seq(M) /\ Len(SubSeq(b, 1, 2)) = 2
  BY <1>1, SubSeqProperties
<1>6. SubSeq(b, 1, 2)[1] = b[1] /\ SubSeq(b, 1, 2)[2] = b[2]
  BY <1>1, SubSeqProperties
<1>. QED
  BY <1>2, <1>3, <1>4, <1>5, <1>6

LEMMA ProcessIs ==
  ASSUME NEW whole \in Parts
  PROVE  LET rest == Tcp!ProcessBuffer(SubSeq(whole, 3, Len(whole)))
         IN  /\ Tcp!ProcessBuffer(whole) \in Processed
             /\ Tcp!ProcessBuffer(whole) =
                  IF Waits(whole) THEN [buffer |-> whole, messages |-> <<>>]
                  ELSE [buffer |-> rest.buffer,
                        messages |-> IF Tcp!Intact(whole)
                                     THEN <<SubSeq(whole, 1, 2)>> \o rest.messages
                                     ELSE rest.messages]
<1>. DEFINE Taken(b, r) ==
              [buffer |-> r.buffer,
               messages |-> IF Tcp!Intact(b) THEN <<SubSeq(b, 1, 2)>> \o r.messages
                            ELSE r.messages]
            Body(f, b) == IF Waits(b) THEN [buffer |-> b, messages |-> <<>>]
                          ELSE Taken(b, f[SubSeq(b, 3, Len(b))])
            base == {b \in Parts : Waits(b)}
            rank == [b \in Parts |-> Len(b)]
            a == [b \in base |-> [buffer |-> b, messages |-> <<>>]]
            rest == [b \in Parts \ base |-> SubSeq(b, 3, Len(b))]
            comb == [x \in (Parts \ base) \X Processed |-> Taken(x[1], x[2])]
            process == CHOOSE f : f = [b \in Parts |-> Body(f, b)]
<1>1. ASSUME NEW b \in Parts \ base
      PROVE  /\ SubSeq(b, 3, Len(b)) \in Parts /\ Len(SubSeq(b, 3, Len(b))) < Len(b)
             /\ SubSeq(b, 1, 2) \in Parts
  <2>1. Len(b) \in Nat /\ Len(b) >= 2
    BY DEF Waits, Parts
  <2>2. /\ SubSeq(b, 3, Len(b)) \in Parts /\ Len(SubSeq(b, 3, Len(b))) = Len(b) - 2
        /\ SubSeq(b, 1, 2) \in Parts
    BY <2>1, BehindTwo, Zenon DEF Parts
  <2>. QED
    BY <2>1, <2>2
<1>2. ASSUME NEW b \in Parts \ base, NEW r \in Processed PROVE Taken(b, r) \in Processed
  <2>1. <<SubSeq(b, 1, 2)>> \o r.messages \in Seq(Parts)
    BY <1>1 DEF Processed
  <2>. QED
    BY <2>1 DEF Processed
<1>3. Solution(Parts, Processed, base, a, rest, comb) # {}
  <2>1. rank \in [Parts -> Nat] /\ base \in SUBSET Parts
    BY DEF Parts
  <2>2. a \in [base -> Processed]
    BY DEF Processed
  <2>3. rest \in [Parts \ base -> Parts]
    BY <1>1
  <2>4. comb \in [(Parts \ base) \X Processed -> Processed]
    BY <1>2
  <2>5. \A b \in Parts \ base : rank[rest[b]] < rank[b]
    BY <1>1
  <2>. HIDE DEF rank, base, a, rest, comb
  <2>6. Recursive(Parts, Processed, rank, base, a, rest, comb)
    BY <2>1, <2>2, <2>3, <2>4, <2>5 DEF Recursive
  <2>. QED
    BY <2>6, Recursion
<1>4. PICK f \in [Parts -> Processed] : \A b \in Parts :
        f[b] = IF b \in base THEN a[b] ELSE comb[<<b, f[rest[b]]>>]
  <2>. HIDE DEF base, a, rest, comb
  <2>. QED
    BY <1>3 DEF Solution
<1>5. ASSUME NEW b \in Parts PROVE f[b] = Body(f, b)
  <2>1. CASE Waits(b)
    <3>1. b \in base
      BY <2>1
    <3>2. f[b] = a[b]
      BY <3>1, <1>4
    <3>. QED
      BY <2>1, <3>1, <3>2
  <2>2. CASE ~Waits(b)
    <3>1. b \in Parts \ base
      BY <2>2
    <3>2. rest[b] \in Parts /\ rest[b] = SubSeq(b, 3, Len(b)) /\ f[rest[b]] \in Processed
      BY <3>1, <1>1
    <3>3. f[b] = comb[<<b, f[rest[b]]>>]
      BY <3>1, <1>4
    <3>4. <<b, f[rest[b]]>> \in (Parts \ base) \X Processed
      BY <3>1, <3>2
    <3>5. f[b] = Taken(b, f[rest[b]])
      <4> DEFINE x == <<b, f[rest[b]]>>
      <4>1. x[1] = b /\ x[2] = f[rest[b]]
        OBVIOUS
      <4>2. comb[x] = Taken(x[1], x[2])
        BY <3>4
      <4>. HIDE DEF Taken, comb, rest, x
      <4>. QED
        BY <4>1, <4>2, <3>3 DEF x
    <3>. QED
      BY <2>2, <3>2, <3>5
  <2>. QED
    BY <2>1, <2>2
<1>6. f = [b \in Parts |-> Body(f, b)]
  <2>. HIDE DEF Body
  <2>. QED
    BY <1>5
<1>7. process = [b \in Parts |-> Body(process, b)]
  <2>. HIDE DEF Body
  <2>. QED
    BY <1>6
<1>8. Tcp!ProcessBuffer(whole) = process[whole]
  BY DEF Tcp!ProcessBuffer, TcpPart, Parts, Waits
<1>9. ASSUME NEW b \in Parts PROVE process[b] = Body(process, b)
  <2>. HIDE DEF Body, process
  <2>. QED
    BY <1>7
<1>10. ASSUME NEW b \in Parts PROVE process[b] \in Processed
  <2>. DEFINE strange == {x \in Parts : process[x] \notin Processed}
              sizes == {Len(x) : x \in strange}
  <2>. SUFFICES ASSUME strange # {} PROVE FALSE
    OBVIOUS
  <2>1. sizes \subseteq Nat /\ sizes # {}
    <3>1. \A x \in Parts : Len(x) \in Nat
      BY DEF Parts
    <3>2. strange \subseteq Parts
      OBVIOUS
    <3>. HIDE DEF strange
    <3>. QED
      BY <3>1, <3>2
  <2>2. PICK n \in sizes : \A k \in sizes : n <= k
    <3>. HIDE DEF sizes
    <3>. QED
      BY <2>1, LeastOf
  <2>3. PICK x \in strange : Len(x) = n
    OBVIOUS
  <2>4. x \in Parts /\ process[x] \notin Processed
    BY <2>3
  <2>. HIDE DEF process, Taken
  <2>5. CASE Waits(x)
    <3>1. process[x] = [buffer |-> x, messages |-> <<>>]
      BY <2>4, <2>5, <1>9
    <3>. QED
      BY <3>1, <2>4 DEF Processed
  <2>6. CASE ~Waits(x)
    <3> DEFINE y == SubSeq(x, 3, Len(x))
    <3>1. x \in Parts \ base /\ y \in Parts /\ Len(y) < Len(x)
      BY <2>4, <2>6, <1>1
    <3>2. y \notin strange
      <4>1. ASSUME y \in strange PROVE FALSE
        <5>1. Len(y) \in sizes /\ Len(y) \in Nat /\ Len(x) \in Nat
          <6>1. Len(y) \in Nat /\ Len(x) \in Nat
            BY <2>4, <3>1 DEF Parts
          <6>. HIDE DEF strange, y
          <6>. QED
            BY <4>1, <6>1
        <5>. QED
          BY <5>1, <2>2, <2>3, <3>1
      <4>. QED
        BY <4>1
    <3>3. process[y] \in Processed
      BY <3>1, <3>2
    <3>4. process[x] = Taken(x, process[y])
      BY <2>4, <2>6, <1>9
    <3>. QED
      BY <3>1, <3>3, <3>4, <2>4, <1>2
  <2>. QED
    BY <2>5, <2>6
<1>. DEFINE more == SubSeq(whole, 3, Len(whole))
<1>11. ~Waits(whole) => Tcp!ProcessBuffer(more) = process[more]
  <2>1. ~Waits(whole) => more \in Parts
    BY <1>1
  <2>. QED
    BY <2>1 DEF Tcp!ProcessBuffer, TcpPart, Parts, Waits
<1>12. process[whole] \in Processed /\ process[whole] = Body(process, whole)
  <2>. HIDE DEF process, Body
  <2>. QED
    BY <1>9, <1>10
<1>. HIDE DEF process
<1>. QED
  BY <1>8, <1>11, <1>12

\* The order parts are sent in; a stream, and messages, in it.
Early(u, v) == u.message < v.message \/ (u.message = v.message /\ u.part < v.part)
Rising(b) == \A i, j \in DOMAIN b : i < j => Early(b[i], b[j])
WholeInOrder(ms) ==
  /\ \A i \in DOMAIN ms : ms[i][1].message \in Nat /\ ms[i][1].message = ms[i][2].message
  /\ \A i, j \in DOMAIN ms : i < j => ms[i][1].message < ms[j][1].message

\* What processBuffer does to b: it takes k parts from the front, and every message it
\* gives ends among them.
Split(b, p, k) ==
  /\ Len(p.buffer) = Len(b) - k /\ \A i \in 1 .. Len(b) - k : p.buffer[i] = b[k + i]
  /\ WholeInOrder(p.messages)
  /\ \A i \in DOMAIN p.messages : \E j \in 1 .. k :
       b[j].message = p.messages[i][1].message /\ b[j].part = 2
SplitsWell(b) == \E k \in 0 .. Len(b) : Split(b, Tcp!ProcessBuffer(b), k)

LEMMA SplitMore ==
  ASSUME NEW b \in Parts, Rising(b), ~Waits(b),
         NEW k \in 0 .. Len(b) - 2,
         Split(SubSeq(b, 3, Len(b)), Tcp!ProcessBuffer(SubSeq(b, 3, Len(b))), k)
  PROVE  SplitsWell(b)
<1>. DEFINE y == SubSeq(b, 3, Len(b))
            q == Tcp!ProcessBuffer(y)
            p == Tcp!ProcessBuffer(b)
            one == SubSeq(b, 1, 2)
<1>1. /\ Len(b) \in Nat /\ Len(b) >= 2 /\ y \in Parts /\ Len(y) = Len(b) - 2 /\ one \in Parts
      /\ \A i \in 1 .. Len(b) - 2 : y[i] = b[2 + i]
      /\ one[1] = b[1] /\ one[2] = b[2]
  <2>1. Len(b) \in Nat /\ Len(b) >= 2
    BY DEF Waits, Parts
  <2>. QED
    BY <2>1, BehindTwo, Zenon DEF Parts
<1>2. \A i \in 1 .. Len(b) : b[i] \in TcpPart
  BY DEF Parts
<1>3. /\ q \in Processed /\ p \in Processed
      /\ p = [buffer |-> q.buffer,
              messages |-> IF Tcp!Intact(b) THEN <<one>> \o q.messages ELSE q.messages]
  BY <1>1, ProcessIs
<1>4. k + 2 \in 0 .. Len(b)
  BY <1>1
<1>. HIDE DEF y, q, p, one
<1>5. Len(p.buffer) = Len(b) - (k + 2) /\ \A i \in 1 .. Len(b) - (k + 2) : p.buffer[i] = b[(k + 2) + i]
  <2>1. Len(q.buffer) = Len(y) - k /\ \A i \in 1 .. Len(y) - k : q.buffer[i] = y[k + i]
    BY DEF Split, y, q
  <2>2. p.buffer = q.buffer
    BY <1>3
  <2>3. ASSUME NEW i \in 1 .. Len(b) - (k + 2) PROVE p.buffer[i] = b[(k + 2) + i]
    <3>1. i \in 1 .. Len(y) - k /\ k + i \in 1 .. Len(b) - 2 /\ 2 + (k + i) = (k + 2) + i
      BY <1>1
    <3>. QED
      BY <2>1, <2>2, <3>1, <1>1
  <2>4. Len(y) - k = Len(b) - (k + 2)
    BY <1>1
  <2>. QED
    BY <2>1, <2>2, <2>3, <2>4
<1>6. /\ q.messages \in Seq(Parts) /\ WholeInOrder(q.messages)
      /\ \A i \in DOMAIN q.messages : \E j \in 1 .. k :
           y[j].message = q.messages[i][1].message /\ y[j].part = 2
  BY <1>3 DEF Split, Processed, y, q
<1>7. ASSUME NEW i \in DOMAIN q.messages
      PROVE  \E j \in 3 .. k + 2 : b[j].message = q.messages[i][1].message /\ b[j].part = 2
  <2>1. PICK j \in 1 .. k : y[j].message = q.messages[i][1].message /\ y[j].part = 2
    BY <1>6
  <2>2. j + 2 \in 3 .. k + 2 /\ j \in 1 .. Len(b) - 2 /\ 2 + j = j + 2
    BY <1>1
  <2>. QED
    BY <1>1, <2>1, <2>2
<1>8. CASE ~Tcp!Intact(b)
  <2>1. p.messages = q.messages
    BY <1>3, <1>8
  <2>2. \A i \in DOMAIN p.messages : \E j \in 1 .. k + 2 :
          b[j].message = p.messages[i][1].message /\ b[j].part = 2
    BY <2>1, <1>7
  <2>3. Split(b, p, k + 2)
    BY <1>5, <1>6, <2>1, <2>2 DEF Split
  <2>. QED
    BY <2>3, <1>4 DEF SplitsWell, p
<1>9. CASE Tcp!Intact(b)
  <2>1. p.messages = <<one>> \o q.messages
    BY <1>3, <1>9
  <2>2. /\ DOMAIN p.messages = 1 .. Len(q.messages) + 1 /\ Len(q.messages) \in Nat
        /\ DOMAIN q.messages = 1 .. Len(q.messages)
        /\ p.messages[1] = one
        /\ \A i \in 1 .. Len(q.messages) : p.messages[i + 1] = q.messages[i]
    BY <2>1, <1>1, <1>6
  <2>3. /\ b[1].message = b[2].message /\ b[2].part = 2 /\ b[2] \in TcpPart
    BY <1>1, <1>2, <1>9 DEF Tcp!Intact
  <2>4. ASSUME NEW i \in 1 .. Len(q.messages) PROVE one[1].message < q.messages[i][1].message
    <3>1. PICK j \in 3 .. k + 2 : b[j].message = q.messages[i][1].message /\ b[j].part = 2
      BY <1>7, <2>2
    <3>2. j \in 1 .. Len(b) /\ 2 \in 1 .. Len(b) /\ 2 < j /\ DOMAIN b = 1 .. Len(b)
      BY <1>1 DEF Parts
    <3>3. Early(b[2], b[j])
      BY <3>2 DEF Rising
    <3>4. b[2].message < b[j].message
      BY <2>3, <3>1, <3>3 DEF Early
    <3>. QED
      BY <2>3, <3>1, <3>4, <1>1
  <2>5. ASSUME NEW i \in 1 .. Len(q.messages) + 1
        PROVE  i = 1 \/ \E l \in 1 .. Len(q.messages) : i = l + 1
    <3>1. i # 1 => i - 1 \in 1 .. Len(q.messages) /\ i = (i - 1) + 1
      BY <2>2
    <3>. QED
      BY <3>1
  <2>6. ASSUME NEW i \in DOMAIN p.messages
        PROVE  /\ p.messages[i][1].message \in Nat
               /\ p.messages[i][1].message = p.messages[i][2].message
               /\ \E j \in 1 .. k + 2 :
                    b[j].message = p.messages[i][1].message /\ b[j].part = 2
    <3>1. CASE i = 1
      <4>1. 2 \in 1 .. k + 2
        OBVIOUS
      <4>. QED
        BY <3>1, <4>1, <2>2, <2>3, <1>1 DEF TcpPart
    <3>2. ASSUME NEW l \in 1 .. Len(q.messages), i = l + 1
          PROVE  /\ p.messages[i][1].message \in Nat
                 /\ p.messages[i][1].message = p.messages[i][2].message
                 /\ \E j \in 1 .. k + 2 :
                      b[j].message = p.messages[i][1].message /\ b[j].part = 2
      <4>1. p.messages[i] = q.messages[l] /\ l \in DOMAIN q.messages
        BY <3>2, <2>2
      <4>2. 3 .. k + 2 \subseteq 1 .. k + 2
        OBVIOUS
      <4>. QED
        BY <4>1, <4>2, <1>6, <1>7 DEF WholeInOrder
    <3>. QED
      BY <3>1, <3>2, <2>2, <2>5
  <2>7. ASSUME NEW i \in DOMAIN p.messages, NEW j \in DOMAIN p.messages, i < j
        PROVE  p.messages[i][1].message < p.messages[j][1].message
    <3>1. i \in Nat /\ j \in Nat /\ j # 1
      BY <2>2, <2>7
    <3>2. PICK l \in 1 .. Len(q.messages) : j = l + 1
      BY <3>1, <2>2, <2>5
    <3>3. p.messages[j] = q.messages[l] /\ l \in DOMAIN q.messages
      BY <3>2, <2>2
    <3>4. CASE i = 1
      BY <3>3, <3>4, <2>2, <2>4
    <3>5. CASE i # 1
      <4>1. PICK m \in 1 .. Len(q.messages) : i = m + 1
        BY <3>5, <2>2, <2>5
      <4>2. m < l /\ m \in DOMAIN q.messages /\ p.messages[i] = q.messages[m]
        BY <4>1, <3>2, <2>2, <2>7
      <4>. QED
        BY <4>2, <3>3, <1>6 DEF WholeInOrder
    <3>. QED
      BY <3>4, <3>5
  <2>8. Split(b, p, k + 2)
    BY <1>5, <2>6, <2>7 DEF Split, WholeInOrder
  <2>. QED
    BY <2>8, <1>4 DEF SplitsWell, p
<1>. QED
  BY <1>8, <1>9

\* Every stream in order is cut well: a shortest one that is not is no longer than two parts.
LEMMA SplitAll == \A b \in Parts : Rising(b) => SplitsWell(b)
<1>. DEFINE wrong == {b \in Parts : Rising(b) /\ ~SplitsWell(b)}
            sizes == {Len(b) : b \in wrong}
<1>. SUFFICES ASSUME wrong # {} PROVE FALSE
  OBVIOUS
<1>0. wrong \subseteq Parts /\ \A b \in Parts : Len(b) \in Nat
  BY DEF Parts
<1>1. sizes \subseteq Nat /\ sizes # {}
  <2>. HIDE DEF wrong
  <2>. QED
    BY <1>0
<1>2. PICK n \in sizes : \A i \in sizes : n <= i
  <2>. HIDE DEF sizes
  <2>. QED
    BY <1>1, LeastOf
<1>3. PICK b \in wrong : Len(b) = n
  <2>. HIDE DEF wrong
  <2>. QED
    BY <1>2
<1>4. b \in Parts /\ Rising(b) /\ ~SplitsWell(b) /\ Len(b) \in Nat
  BY <1>0, <1>3
<1>5. CASE Waits(b)
  <2>1. Tcp!ProcessBuffer(b) = [buffer |-> b, messages |-> <<>>]
    BY <1>4, <1>5, ProcessIs
  <2>2. Split(b, Tcp!ProcessBuffer(b), 0)
    BY <2>1, <1>4 DEF Split, WholeInOrder
  <2>3. 0 \in 0 .. Len(b)
    BY <1>4
  <2>. QED
    BY <2>2, <2>3, <1>4 DEF SplitsWell
<1>6. CASE ~Waits(b)
  <2>. DEFINE y == SubSeq(b, 3, Len(b))
  <2>1. /\ Len(b) >= 2 /\ y \in Parts /\ Len(y) = Len(b) - 2
        /\ \A i \in 1 .. Len(b) - 2 : y[i] = b[2 + i]
    <3>1. Len(b) >= 2
      BY <1>4, <1>6 DEF Waits
    <3>. QED
      BY <3>1, <1>4, BehindTwo, Zenon DEF Parts
  <2>. HIDE DEF y
  <2>2. Rising(y)
    <3>1. ASSUME NEW i \in DOMAIN y, NEW j \in DOMAIN y, i < j PROVE Early(y[i], y[j])
      <4>1. DOMAIN y = 1 .. Len(b) - 2 /\ DOMAIN b = 1 .. Len(b)
        BY <2>1, <1>4 DEF Parts
      <4>2. 2 + i \in DOMAIN b /\ 2 + j \in DOMAIN b /\ 2 + i < 2 + j
        BY <4>1, <3>1, <1>4
      <4>. QED
        BY <4>1, <4>2, <2>1, <1>4 DEF Rising
    <3>. QED
      BY <3>1 DEF Rising
  <2>3. y \notin wrong
    <3>1. ASSUME y \in wrong PROVE FALSE
      <4>1. Len(y) \in sizes
        BY <3>1
      <4>. QED
        BY <4>1, <1>2, <1>3, <1>4, <2>1
    <3>. QED
      BY <3>1
  <2>4. PICK k \in 0 .. Len(y) : Split(y, Tcp!ProcessBuffer(y), k)
    BY <2>1, <2>2, <2>3 DEF SplitsWell
  <2>. QED
    BY <2>1, <2>4, <1>4, <1>6, SplitMore DEF y
<1>. QED
  BY <1>5, <1>6

\* The parts of what is kept and of what is under way are in the order sent, behind
\* every message given to the receiver and before what comes next.
TcpInv ==
  /\ buffer \in Parts /\ stream \in Parts /\ received \in Seq(Parts) /\ next \in TcpPart
  /\ Rising(buffer) /\ Rising(stream)
  /\ \A i \in DOMAIN buffer, j \in DOMAIN stream : Early(buffer[i], stream[j])
  /\ \A i \in DOMAIN buffer : Early(buffer[i], next)
  /\ \A i \in DOMAIN stream : Early(stream[i], next)
  /\ WholeInOrder(received)
  /\ \A i \in DOMAIN received :
       /\ received[i][1].message < next.message
       /\ \A j \in DOMAIN buffer : received[i][1].message < buffer[j].message
       /\ \A j \in DOMAIN stream : received[i][1].message < stream[j].message

\* A part with the next number goes behind the stream.
LEMMA WriteKeepsOrder == TcpInv /\ Tcp!PeerWrites => TcpInv'
<1>. SUFFICES ASSUME TcpInv, Tcp!PeerWrites PROVE TcpInv'
  OBVIOUS
<1>1. /\ next \in TcpPart /\ next' \in TcpPart /\ Early(next, next')
      /\ next.message <= next'.message
  <2>1. next \in TcpPart
    BY DEF TcpInv
  <2>2. next' = IF next.part = 1 THEN [message |-> next.message, part |-> 2]
                ELSE [message |-> next.message + 1, part |-> 1]
    BY DEF Tcp!PeerWrites, Tcp!Part
  <2>3. next.message \in Nat /\ next.part \in {1, 2}
    BY <2>1 DEF TcpPart
  <2>4. CASE next.part = 1
    <3>1. next'.message = next.message /\ next'.part = 2 /\ next' \in TcpPart
      BY <2>2, <2>3, <2>4 DEF TcpPart
    <3>. QED
      BY <2>1, <2>3, <2>4, <3>1 DEF Early
  <2>5. CASE next.part = 2
    <3>1. next'.message = next.message + 1 /\ next'.part = 1 /\ next' \in TcpPart
      BY <2>2, <2>3, <2>5 DEF TcpPart
    <3>2. next.message < next'.message
      BY <2>3, <3>1
    <3>3. Early(next, next') /\ next.message <= next'.message
      <4>1. next'.message \in Nat
        BY <2>3, <3>1
      <4>. QED
        BY <2>3, <3>2, <4>1 DEF Early
    <3>. QED
      BY <2>1, <3>1, <3>3
  <2>. QED
    BY <2>3, <2>4, <2>5
<1>2. /\ stream' = Append(stream, next) /\ stream \in Parts /\ stream' \in Parts
      /\ buffer' = buffer /\ received' = received
  BY <1>1 DEF TcpInv, Tcp!PeerWrites, Parts
<1>3. /\ DOMAIN stream = 1 .. Len(stream) /\ Len(stream) \in Nat
      /\ DOMAIN stream' = 1 .. Len(stream) + 1
      /\ stream'[Len(stream) + 1] = next
      /\ \A i \in 1 .. Len(stream) : stream'[i] = stream[i]
  <2>1. stream \in Seq(TcpPart) /\ stream' \in Seq(TcpPart)
    BY <1>2 DEF Parts
  <2>2. Len(stream') = Len(stream) + 1
    BY <1>1, <1>2, <2>1, AppendProperties
  <2>3. stream'[Len(stream) + 1] = next /\ \A i \in 1 .. Len(stream) : stream'[i] = stream[i]
    BY <1>1, <1>2, <2>1, AppendProperties
  <2>. QED
    BY <2>1, <2>2, <2>3
<1>4. ASSUME NEW i \in DOMAIN stream'
      PROVE  \/ i \in DOMAIN stream /\ stream'[i] = stream[i]
             \/ i = Len(stream) + 1 /\ stream'[i] = next
  <2>1. i \in 1 .. Len(stream) \/ i = Len(stream) + 1
    <3>1. i \in 1 .. Len(stream) + 1 /\ Len(stream) \in Nat
      BY <1>3
    <3>. QED
      BY <3>1
  <2>. QED
    BY <2>1, <1>3
<1>5. ASSUME NEW u \in TcpPart, Early(u, next) PROVE Early(u, next')
  BY <1>1, <1>5 DEF Early, TcpPart
<1>6. /\ \A i \in DOMAIN buffer : buffer[i] \in TcpPart
      /\ \A i \in DOMAIN stream : stream[i] \in TcpPart
  BY <1>2, <1>3 DEF TcpInv, Parts
<1>7. Rising(stream')
  <2>1. ASSUME NEW i \in DOMAIN stream', NEW j \in DOMAIN stream', i < j
        PROVE  Early(stream'[i], stream'[j])
    <3>1. i \in DOMAIN stream /\ stream'[i] = stream[i]
      BY <2>1, <1>3
    <3>. QED
      BY <3>1, <2>1, <1>4 DEF TcpInv, Rising
  <2>. QED
    BY <2>1 DEF Rising
<1>8. \A i \in DOMAIN buffer, j \in DOMAIN stream' : Early(buffer[i], stream'[j])
  BY <1>4 DEF TcpInv
<1>9. /\ \A i \in DOMAIN buffer : Early(buffer[i], next')
      /\ \A i \in DOMAIN stream' : Early(stream'[i], next')
  BY <1>1, <1>4, <1>5, <1>6 DEF TcpInv
<1>10. ASSUME NEW i \in DOMAIN received
       PROVE  /\ received[i][1].message < next'.message
              /\ \A j \in DOMAIN stream' : received[i][1].message < stream'[j].message
  <2>1. /\ received[i][1].message < next.message
        /\ \A j \in DOMAIN stream : received[i][1].message < stream[j].message
        /\ received[i][1].message \in Nat
    BY DEF TcpInv, WholeInOrder
  <2>2. received[i][1].message < next'.message
    <3>1. next.message \in Nat /\ next'.message \in Nat
      BY <1>1 DEF TcpPart
    <3>. QED
      BY <2>1, <3>1, <1>1
  <2>. QED
    BY <2>1, <2>2, <1>4
<1>. QED
  BY <1>1, <1>2, <1>7, <1>8, <1>9, <1>10 DEF TcpInv

\* What is read is put behind what was kept, and cut.
LEMMA ReadKeepsOrder ==
  ASSUME TcpInv, NEW n \in 1 .. Len(stream),
         LET p == Tcp!ProcessBuffer(buffer \o SubSeq(stream, 1, n))
         IN  /\ buffer' = p.buffer /\ received' = received \o p.messages
             /\ stream' = SubSeq(stream, n + 1, Len(stream)),
         next' = next
  PROVE  TcpInv'
<1>. DEFINE b == buffer \o SubSeq(stream, 1, n)
            p == Tcp!ProcessBuffer(b)
            l == Len(buffer)
<1>1. /\ buffer \in Parts /\ stream \in Parts /\ l \in Nat /\ Len(stream) \in Nat
      /\ DOMAIN buffer = 1 .. l /\ DOMAIN stream = 1 .. Len(stream)
      /\ \A i \in 1 .. l : buffer[i] \in TcpPart
      /\ \A i \in 1 .. Len(stream) : stream[i] \in TcpPart
  BY DEF TcpInv, Parts
<1>2. /\ SubSeq(stream, 1, n) \in Parts /\ Len(SubSeq(stream, 1, n)) = n
      /\ \A i \in 1 .. n : SubSeq(stream, 1, n)[i] = stream[i]
      /\ stream' \in Parts /\ Len(stream') = Len(stream) - n
      /\ \A i \in 1 .. Len(stream) - n : stream'[i] = stream[n + i]
  <2>1. n \in 0 .. Len(stream)
    BY <1>1
  <2>. QED
    BY <1>1, <2>1, FrontOf, BehindOf, Zenon DEF Parts
<1>3. /\ DOMAIN stream' = 1 .. Len(stream) - n /\ n \in Nat /\ n <= Len(stream)
  <2>1. n \in Nat /\ n <= Len(stream)
    BY <1>1
  <2>2. stream' \in Seq(TcpPart)
    BY <1>2 DEF Parts
  <2>3. DOMAIN stream' = 1 .. Len(stream')
    BY <2>2
  <2>. QED
    BY <1>2, <2>1, <2>3
<1>4. /\ b \in Parts /\ DOMAIN b = 1 .. l + n /\ Len(b) \in Nat /\ Len(b) = l + n
      /\ \A i \in 1 .. l : b[i] = buffer[i]
      /\ \A i \in 1 .. n : b[l + i] = stream[i]
  <2>. DEFINE s == SubSeq(stream, 1, n)
  <2>1. s \in Seq(TcpPart) /\ Len(s) = n /\ \A i \in 1 .. n : s[i] = stream[i]
    BY <1>2 DEF Parts
  <2>2. buffer \in Seq(TcpPart)
    BY <1>1 DEF Parts
  <2>. HIDE DEF s, b, p, l
  <2>3. /\ buffer \o s \in Seq(TcpPart) /\ Len(buffer \o s) = Len(buffer) + Len(s)
        /\ DOMAIN s = 1 .. Len(s) /\ DOMAIN (buffer \o s) = 1 .. Len(buffer) + Len(s)
        /\ \A i \in DOMAIN buffer : (buffer \o s)[i] = buffer[i]
        /\ \A i \in DOMAIN s : (buffer \o s)[Len(buffer) + i] = s[i]
    <3>1. ASSUME NEW u \in Seq(TcpPart), NEW v \in Seq(TcpPart)
          PROVE  /\ u \o v \in Seq(TcpPart) /\ Len(u \o v) = Len(u) + Len(v)
                 /\ DOMAIN v = 1 .. Len(v) /\ DOMAIN (u \o v) = 1 .. Len(u) + Len(v)
                 /\ \A i \in DOMAIN u : (u \o v)[i] = u[i]
                 /\ \A i \in DOMAIN v : (u \o v)[Len(u) + i] = v[i]
      BY Joined
    <3>. QED
      BY <2>1, <2>2, <3>1, Zenon
  <2>4. \A i \in 1 .. n : (buffer \o s)[l + i] = stream[i]
    BY <2>1, <2>3 DEF l
  <2>5. l + n \in Nat
    BY <1>1, <1>3
  <2>. QED
    BY <1>1, <2>1, <2>3, <2>4, <2>5 DEF Parts, s, b, l
<1>. HIDE DEF b, l
<1>5. ASSUME NEW i \in DOMAIN b
      PROVE  \/ i \in DOMAIN buffer /\ b[i] = buffer[i]
             \/ \E j \in 1 .. n : i = l + j /\ b[i] = stream[j] /\ j \in DOMAIN stream
  <2>1. CASE i \in 1 .. l
    BY <2>1, <1>1, <1>4
  <2>2. CASE i \notin 1 .. l
    <3>1. i - l \in 1 .. n /\ i = l + (i - l)
      BY <2>2, <1>1, <1>4
    <3>. QED
      BY <3>1, <1>1, <1>4
  <2>. QED
    BY <2>1, <2>2
<1>6. Rising(b)
  <2>1. ASSUME NEW i \in DOMAIN b, NEW j \in DOMAIN b, i < j PROVE Early(b[i], b[j])
    <3>1. i \in Nat /\ j \in Nat
      BY <1>1, <1>4
    <3>2. CASE i \in DOMAIN buffer /\ b[i] = buffer[i]
      BY <3>2, <2>1, <1>5 DEF TcpInv, Rising
    <3>3. ASSUME NEW g \in 1 .. n, i = l + g, b[i] = stream[g], g \in DOMAIN stream
          PROVE  Early(b[i], b[j])
      <4>1. j \notin DOMAIN buffer
        BY <3>1, <3>3, <2>1, <1>1
      <4>2. PICK h \in 1 .. n : j = l + h /\ b[j] = stream[h] /\ h \in DOMAIN stream
        BY <4>1, <1>5
      <4>3. g < h
        BY <3>3, <4>2, <2>1, <1>1
      <4>. QED
        BY <3>3, <4>2, <4>3 DEF TcpInv, Rising
    <3>. QED
      BY <3>2, <3>3, <1>5
  <2>. QED
    BY <2>1 DEF Rising
<1>7. \A i \in DOMAIN b : Early(b[i], next)
  BY <1>5 DEF TcpInv
<1>8. ASSUME NEW j \in DOMAIN stream'
      PROVE  /\ n + j \in DOMAIN stream /\ stream'[j] = stream[n + j]
             /\ \A i \in DOMAIN b : Early(b[i], stream'[j])
  <2>1. j \in 1 .. Len(stream) - n
    BY <1>3
  <2>2. n + j \in DOMAIN stream /\ stream'[j] = stream[n + j]
    <3>1. n + j \in 1 .. Len(stream) /\ j \in 1 .. Len(stream) - n
      BY <2>1, <1>1, <1>3
    <3>. QED
      BY <3>1, <1>1, <1>2
  <2>3. ASSUME NEW i \in DOMAIN b PROVE Early(b[i], stream[n + j])
    <3>1. ASSUME NEW g \in 1 .. n, b[i] = stream[g], g \in DOMAIN stream
          PROVE  Early(b[i], stream[n + j])
      <4>1. g < n + j
        BY <2>1, <1>1
      <4>. QED
        BY <3>1, <4>1, <2>2 DEF TcpInv, Rising
    <3>. QED
      BY <3>1, <1>5, <2>2 DEF TcpInv
  <2>. QED
    BY <2>2, <2>3
<1>9. PICK k \in 0 .. Len(b) : Split(b, p, k)
  BY <1>4, <1>6, SplitAll DEF SplitsWell
<1>10. p \in Processed /\ buffer' = p.buffer /\ received' = received \o p.messages
  BY <1>4, ProcessIs DEF b
<1>. HIDE DEF p
<1>11. ASSUME NEW i \in DOMAIN buffer'
       PROVE  k + i \in DOMAIN b /\ i \in Nat /\ buffer'[i] = b[k + i]
  <2>1. i \in 1 .. Len(b) - k
    BY <1>9, <1>10 DEF Split, Processed, Parts
  <2>2. k + i \in DOMAIN b
    BY <2>1, <1>1, <1>4
  <2>3. p.buffer[i] = b[k + i]
    BY <2>1, <1>9 DEF Split
  <2>4. i \in Nat
    BY <2>1, <1>4
  <2>. QED
    BY <2>2, <2>3, <2>4, <1>10
<1>12. /\ Rising(buffer')
       /\ \A i \in DOMAIN buffer', j \in DOMAIN stream' : Early(buffer'[i], stream'[j])
       /\ \A i \in DOMAIN buffer' : Early(buffer'[i], next)
  <2>1. ASSUME NEW i \in DOMAIN buffer', NEW j \in DOMAIN buffer', i < j
        PROVE  Early(buffer'[i], buffer'[j])
    <3>1. k + i < k + j
      BY <2>1, <1>11
    <3>. QED
      BY <3>1, <1>11, <1>6 DEF Rising
  <2>. QED
    BY <2>1, <1>7, <1>8, <1>11 DEF Rising
<1>13. /\ Rising(stream') /\ \A i \in DOMAIN stream' : Early(stream'[i], next)
  <2>1. ASSUME NEW i \in DOMAIN stream', NEW j \in DOMAIN stream', i < j
        PROVE  Early(stream'[i], stream'[j])
    <3>1. n + i < n + j
      BY <2>1, <1>3 DEF Parts
    <3>. QED
      BY <3>1, <1>8 DEF TcpInv, Rising
  <2>. QED
    BY <2>1, <1>8 DEF TcpInv, Rising
\* What is given now ends among the parts taken: before all others, and behind what
\* was given before.
<1>14. ASSUME NEW i \in DOMAIN p.messages
       PROVE  /\ p.messages[i][1].message \in Nat
              /\ p.messages[i][1].message = p.messages[i][2].message
              /\ p.messages[i][1].message < next.message
              /\ \A j \in DOMAIN buffer' : p.messages[i][1].message < buffer'[j].message
              /\ \A j \in DOMAIN stream' : p.messages[i][1].message < stream'[j].message
              /\ \A j \in DOMAIN received : received[j][1].message < p.messages[i][1].message
  <2>1. PICK g \in 1 .. k : b[g].message = p.messages[i][1].message /\ b[g].part = 2
    BY <1>9 DEF Split
  <2>2. g \in DOMAIN b /\ b[g] \in TcpPart
    BY <1>1, <1>4 DEF Parts
  <2>3. ASSUME NEW v \in TcpPart, Early(b[g], v) PROVE b[g].message < v.message
    BY <2>1, <2>2, <2>3 DEF Early, TcpPart
  <2>4. next \in TcpPart
    BY DEF TcpInv
  <2>5. ASSUME NEW j \in DOMAIN buffer' PROVE b[g].message < buffer'[j].message
    <3>1. g < k + j /\ k + j \in DOMAIN b
      <4>1. j \in Nat /\ j >= 1
        BY <1>11, <1>10 DEF Processed, Parts
      <4>. QED
        BY <1>11, <4>1
    <3>a. b[k + j] \in TcpPart
      BY <3>1, <1>4 DEF Parts
    <3>. QED
      BY <3>1, <3>a, <2>2, <2>3, <1>6, <1>11 DEF Rising
  <2>6. ASSUME NEW j \in DOMAIN stream' PROVE b[g].message < stream'[j].message
    <3>1. stream'[j] \in TcpPart
      BY <1>8, <1>1
    <3>. QED
      BY <3>1, <2>2, <2>3, <1>8
  <2>7. \A j \in DOMAIN received : received[j][1].message < b[g].message
    BY <2>2, <1>5 DEF TcpInv
  <2>8. p.messages[i][1].message \in Nat /\ p.messages[i][1].message = p.messages[i][2].message
    BY <1>9 DEF Split, WholeInOrder
  <2>. QED
    BY <2>1, <2>2, <2>3, <2>4, <2>5, <2>6, <2>7, <2>8, <1>7
<1>15. ASSUME NEW j \in DOMAIN received
       PROVE  /\ \A i \in DOMAIN buffer' : received[j][1].message < buffer'[i].message
              /\ \A i \in DOMAIN stream' : received[j][1].message < stream'[i].message
  <2>1. \A i \in DOMAIN b : received[j][1].message < b[i].message
    BY <1>5 DEF TcpInv
  <2>. QED
    BY <2>1, <1>8, <1>11 DEF TcpInv
<1>. DEFINE r == Len(received)
<1>16. /\ received \in Seq(Parts) /\ p.messages \in Seq(Parts)
       /\ r \in Nat /\ Len(p.messages) \in Nat
       /\ DOMAIN received = 1 .. r /\ DOMAIN p.messages = 1 .. Len(p.messages)
       /\ received' \in Seq(Parts) /\ DOMAIN received' = 1 .. r + Len(p.messages)
       /\ \A i \in 1 .. r : received'[i] = received[i]
       /\ \A i \in 1 .. Len(p.messages) : received'[r + i] = p.messages[i]
  <2>1. received \in Seq(Parts) /\ p.messages \in Seq(Parts)
    BY <1>10 DEF TcpInv, Processed
  <2>. DEFINE m == p.messages
  <2>2. received' = received \o m
    BY <1>10
  <2>. HIDE DEF m
  <2>3. m \in Seq(Parts) /\ received \in Seq(Parts)
    BY <2>1 DEF m
  <2>4. /\ Len(received) \in Nat /\ Len(m) \in Nat
        /\ DOMAIN received = 1 .. Len(received) /\ DOMAIN m = 1 .. Len(m)
        /\ received \o m \in Seq(Parts)
        /\ DOMAIN (received \o m) = 1 .. Len(received) + Len(m)
        /\ \A i \in DOMAIN received : (received \o m)[i] = received[i]
        /\ \A i \in DOMAIN m : (received \o m)[Len(received) + i] = m[i]
    BY <2>3, Joined
  <2>. QED
    BY <2>2, <2>3, <2>4 DEF m
<1>. HIDE DEF r
<1>17. ASSUME NEW i \in DOMAIN received'
       PROVE  \/ i \in DOMAIN received /\ received'[i] = received[i]
              \/ \E j \in DOMAIN p.messages : i = r + j /\ received'[i] = p.messages[j]
  <2>1. CASE i \in 1 .. r
    BY <2>1, <1>16
  <2>2. CASE i \notin 1 .. r
    <3>1. i - r \in 1 .. Len(p.messages) /\ i = r + (i - r)
      BY <2>2, <1>16
    <3>. QED
      BY <3>1, <1>16
  <2>. QED
    BY <2>1, <2>2
<1>18. ASSUME NEW i \in DOMAIN received'
       PROVE  /\ received'[i][1].message \in Nat
              /\ received'[i][1].message = received'[i][2].message
              /\ received'[i][1].message < next.message
              /\ \A j \in DOMAIN buffer' : received'[i][1].message < buffer'[j].message
              /\ \A j \in DOMAIN stream' : received'[i][1].message < stream'[j].message
  BY <1>14, <1>15, <1>17 DEF TcpInv, WholeInOrder
<1>19. ASSUME NEW i \in DOMAIN received', NEW j \in DOMAIN received', i < j
       PROVE  received'[i][1].message < received'[j][1].message
  <2>1. CASE i \in DOMAIN received /\ received'[i] = received[i]
    BY <2>1, <1>14, <1>17, <1>19 DEF TcpInv, WholeInOrder
  <2>2. ASSUME NEW g \in DOMAIN p.messages, i = r + g, received'[i] = p.messages[g]
        PROVE  received'[i][1].message < received'[j][1].message
    <3>1. j \notin DOMAIN received
      BY <1>16, <1>19, <2>2
    <3>2. PICK h \in DOMAIN p.messages : j = r + h /\ received'[j] = p.messages[h]
      BY <3>1, <1>17
    <3>3. g < h
      BY <3>2, <2>2, <1>16, <1>19
    <3>. QED
      BY <2>2, <3>2, <3>3, <1>9 DEF Split, WholeInOrder
  <2>. QED
    BY <2>1, <2>2, <1>17
<1>20. buffer' \in Parts /\ next' = next /\ next \in TcpPart
  BY <1>10 DEF Processed, TcpInv
<1>. QED
  BY <1>2, <1>12, <1>13, <1>16, <1>18, <1>19, <1>20 DEF TcpInv, WholeInOrder

\* With a connection goes what is under way on it; the next message is a whole one.
LEMMA LossKeepsOrder ==
  TcpInv /\ Tcp!Lost /\ buffer' = buffer /\ received' = received => TcpInv'
<1>. SUFFICES ASSUME TcpInv, Tcp!Lost, buffer' = buffer, received' = received PROVE TcpInv'
  OBVIOUS
<1>1. next \in TcpPart /\ next.message \in Nat /\ next.part \in {1, 2}
  BY DEF TcpInv, TcpPart
<1>2. next' = next \/ next' = [message |-> next.message + 1, part |-> 1]
  BY DEF Tcp!Lost, Tcp!Part
<1>3. next' \in TcpPart /\ next'.message \in Nat /\ next.message <= next'.message
  BY <1>1, <1>2 DEF TcpPart
<1>4. stream' = <<>> /\ stream' \in Parts /\ DOMAIN stream' = {}
  BY DEF Tcp!Lost, Parts
<1>5. ASSUME NEW u \in TcpPart, Early(u, next) PROVE Early(u, next')
  <2>1. CASE next' = next
    BY <2>1, <1>5
  <2>2. CASE next' = [message |-> next.message + 1, part |-> 1]
    BY <2>2, <1>1, <1>5 DEF Early, TcpPart
  <2>. QED
    BY <2>1, <2>2, <1>2
<1>6. \A i \in DOMAIN buffer : buffer[i] \in TcpPart
  BY DEF TcpInv, Parts
<1>7. \A i \in DOMAIN buffer : Early(buffer[i], next')
  BY <1>5, <1>6 DEF TcpInv
<1>8. ASSUME NEW i \in DOMAIN received PROVE received[i][1].message < next'.message
  <2>1. received[i][1].message \in Nat /\ received[i][1].message < next.message
    BY DEF TcpInv, WholeInOrder
  <2>. QED
    BY <2>1, <1>1, <1>3
<1>. QED
  BY <1>3, <1>4, <1>7, <1>8 DEF TcpInv, Rising

LEMMA TcpStepInv == TcpInv /\ [Tcp!Next]_tcp => TcpInv'
<1>. SUFFICES ASSUME TcpInv, [Tcp!Next]_tcp PROVE TcpInv'
  OBVIOUS
<1>. DEFINE Rests == UNCHANGED <<buffer, stream, received, next>>
<1>1. CASE Tcp!PeerWrites
  BY <1>1, WriteKeepsOrder
<1>2. CASE Tcp!ReadyRead
  <2>1. PICK n \in 1 .. Len(stream) :
          LET p == Tcp!ProcessBuffer(buffer \o SubSeq(stream, 1, n))
          IN  /\ buffer' = p.buffer /\ received' = received \o p.messages
              /\ stream' = SubSeq(stream, n + 1, Len(stream))
    BY <1>2 DEF Tcp!ReadyRead
  <2>2. next' = next
    BY <1>2 DEF Tcp!ReadyRead
  <2>. QED
    BY <2>1, <2>2, ReadKeepsOrder
<1>3. CASE Tcp!ConnectionEnds
  BY <1>3, LossKeepsOrder DEF Tcp!ConnectionEnds
<1>4. CASE Tcp!DisconnectFromHost
  BY <1>4, LossKeepsOrder DEF Tcp!DisconnectFromHost
<1>5. ASSUME Rests PROVE TcpInv'
  BY <1>5 DEF TcpInv
<1>6. CASE Tcp!ReconnectTimer \/ Tcp!AttemptSucceeds \/ Tcp!SetReconnectEnabled
  BY <1>5, <1>6 DEF Tcp!ReconnectTimer, Tcp!AttemptSucceeds, Tcp!SetReconnectEnabled
<1>7. CASE \E error \in Tcp!Errors : Tcp!AttemptFails(error)
  BY <1>5, <1>7 DEF Tcp!AttemptFails
<1>8. CASE UNCHANGED tcp
  BY <1>5, <1>8 DEF tcp
<1>. QED
  BY <1>1, <1>2, <1>3, <1>4, <1>6, <1>7, <1>8 DEF Tcp!Next

LEMMA TcpInitInv == Tcp!Init => TcpInv
<1>. SUFFICES ASSUME Tcp!Init PROVE TcpInv
  OBVIOUS
<1>1. buffer = <<>> /\ stream = <<>> /\ received = <<>> /\ next = [message |-> 1, part |-> 1]
  BY DEF Tcp!Init, Tcp!Part
<1>. QED
  BY <1>1 DEF TcpInv, Rising, WholeInOrder, TcpPart, Parts

LEMMA TcpOrder == TcpInv => Tcp!NoMixedMessages
<1>. SUFFICES ASSUME TcpInv, NEW i \in DOMAIN received, NEW j \in 1 .. i - 1
              PROVE  received[j][1].message < received[i][1].message
  BY DEF TcpInv, WholeInOrder, Tcp!NoMixedMessages
<1>1. /\ received \in Seq(Parts) /\ DOMAIN received = 1 .. Len(received)
      /\ Len(received) \in Nat
  BY DEF TcpInv
<1>2. j \in DOMAIN received /\ j < i
  BY <1>1
<1>. QED
  BY <1>2 DEF TcpInv, WholeInOrder

-----------------------------------------------------------------------------
(* WebGateway.                                                             *)

Units == Seq(Gateway!Unit)
\* What is cut out of a stream.
Pieces == [messages : Seq(Units), rest : Units]
\* A buffer with no whole message at its front.
Stuck(b) == b = <<>> \/ ~Gateway!Starts(Head(b)) \/ Len(b) < Head(b).length

\* The message at the front of a buffer, and what is behind it.
LEMMA FrontMessage ==
  ASSUME NEW b \in Units, ~Stuck(b)
  PROVE  LET n == Head(b).length
         IN  /\ Head(b) = b[1] /\ b[1] \in Gateway!Unit /\ b[1].at = 1
             /\ n \in Nat /\ n >= 1 /\ n <= Len(b) /\ Len(b) \in Nat /\ n \in 0 .. Len(b)
             /\ SubSeq(b, 1, n) \in Units /\ Len(SubSeq(b, 1, n)) = n
             /\ \A i \in 1 .. n : SubSeq(b, 1, n)[i] = b[i]
             /\ SubSeq(b, n + 1, Len(b)) \in Units /\ Len(SubSeq(b, n + 1, Len(b))) = Len(b) - n
             /\ \A i \in 1 .. Len(b) - n : SubSeq(b, n + 1, Len(b))[i] = b[n + i]
             /\ SubSeq(b, 1, n) \o SubSeq(b, n + 1, Len(b)) = b
<1>. DEFINE n == Head(b).length
<1>1. b \in Seq(Gateway!Unit) /\ b # <<>> /\ Gateway!Starts(Head(b)) /\ ~(Len(b) < Head(b).length)
  BY DEF Stuck, Units
<1>2. Len(b) \in Nat /\ Len(b) # 0 /\ Head(b) = b[1] /\ b[1] \in Gateway!Unit
  BY <1>1
<1>3. n \in Nat /\ n >= 1 /\ b[1].at = 1
  BY <1>1, <1>2 DEF Gateway!Unit, Gateway!Starts
<1>4. n <= Len(b) /\ n \in 0 .. Len(b)
  BY <1>1, <1>2, <1>3
<1>. HIDE DEF n
<1>5. /\ SubSeq(b, 1, n) \in Units /\ Len(SubSeq(b, 1, n)) = n
      /\ \A i \in 1 .. n : SubSeq(b, 1, n)[i] = b[i]
  BY <1>1, <1>4, FrontOf, Zenon DEF Units
<1>6. /\ SubSeq(b, n + 1, Len(b)) \in Units /\ Len(SubSeq(b, n + 1, Len(b))) = Len(b) - n
      /\ \A i \in 1 .. Len(b) - n : SubSeq(b, n + 1, Len(b))[i] = b[n + i]
  BY <1>1, <1>4, BehindOf, Zenon DEF Units
<1>7. SubSeq(b, 1, n) \o SubSeq(b, n + 1, Len(b)) = b
  BY <1>1, <1>4, FrontAndBehind, Zenon
<1>. QED
  BY <1>2, <1>3, <1>4, <1>5, <1>6, <1>7 DEF n

\* What Cut gives, unfolded once.
LEMMA CutIs ==
  ASSUME NEW whole \in Units
  PROVE  LET n == Head(whole).length
             more == Gateway!Cut(SubSeq(whole, n + 1, Len(whole)))
         IN  /\ Gateway!Cut(whole) \in Pieces
             /\ Gateway!Cut(whole) =
                  IF Stuck(whole) THEN [messages |-> <<>>, rest |-> whole]
                  ELSE [messages |-> <<SubSeq(whole, 1, n)>> \o more.messages,
                        rest |-> more.rest]
<1>. DEFINE Behind(b) == SubSeq(b, Head(b).length + 1, Len(b))
            Taken(b, r) == [messages |-> <<SubSeq(b, 1, Head(b).length)>> \o r.messages,
                            rest |-> r.rest]
            Body(f, b) == IF Stuck(b) THEN [messages |-> <<>>, rest |-> b]
                          ELSE Taken(b, f[Behind(b)])
            base == {b \in Units : Stuck(b)}
            rank == [b \in Units |-> Len(b)]
            a == [b \in base |-> [messages |-> <<>>, rest |-> b]]
            rest == [b \in Units \ base |-> Behind(b)]
            comb == [x \in (Units \ base) \X Pieces |-> Taken(x[1], x[2])]
            cut == CHOOSE f : f = [b \in Units |-> Body(f, b)]
<1>1. ASSUME NEW b \in Units, ~Stuck(b)
      PROVE  /\ Behind(b) \in Units /\ Len(Behind(b)) < Len(b)
             /\ SubSeq(b, 1, Head(b).length) \in Units
  <2>. DEFINE n == Head(b).length
  <2>1. /\ n \in Nat /\ n >= 1 /\ Len(b) \in Nat /\ SubSeq(b, 1, n) \in Units
        /\ SubSeq(b, n + 1, Len(b)) \in Units /\ Len(SubSeq(b, n + 1, Len(b))) = Len(b) - n
    BY <1>1, FrontMessage, Zenon
  <2>2. Len(b) - n < Len(b)
    <3>. HIDE DEF n
    <3>. QED
      BY <2>1
  <2>. QED
    BY <2>1, <2>2
<1>2. ASSUME NEW b \in Units, ~Stuck(b), NEW r \in Pieces PROVE Taken(b, r) \in Pieces
  <2>. DEFINE one == SubSeq(b, 1, Head(b).length)
  <2>1. one \in Units
    BY <1>1, <1>2
  <2>. HIDE DEF one
  <2>2. <<one>> \o r.messages \in Seq(Units)
    BY <2>1 DEF Pieces
  <2>. QED
    BY <2>2 DEF Pieces, one
<1>. HIDE DEF Behind, Taken
<1>3. Solution(Units, Pieces, base, a, rest, comb) # {}
  <2>1. rank \in [Units -> Nat] /\ base \in SUBSET Units
    BY DEF Units
  <2>2. a \in [base -> Pieces]
    BY DEF Pieces, Units
  <2>3. rest \in [Units \ base -> Units]
    BY <1>1
  <2>4. comb \in [(Units \ base) \X Pieces -> Pieces]
    BY <1>2
  <2>5. \A b \in Units \ base : rank[rest[b]] < rank[b]
    BY <1>1
  <2>. HIDE DEF rank, base, a, rest, comb
  <2>6. Recursive(Units, Pieces, rank, base, a, rest, comb)
    BY <2>1, <2>2, <2>3, <2>4, <2>5 DEF Recursive
  <2>. QED
    BY <2>6, Recursion
<1>4. PICK f \in [Units -> Pieces] : \A b \in Units :
        f[b] = IF b \in base THEN a[b] ELSE comb[<<b, f[rest[b]]>>]
  <2>. HIDE DEF base, a, rest, comb
  <2>. QED
    BY <1>3 DEF Solution
<1>5. ASSUME NEW b \in Units PROVE f[b] = Body(f, b)
  <2>1. CASE Stuck(b)
    <3>1. b \in base
      BY <2>1
    <3>2. f[b] = a[b]
      BY <3>1, <1>4
    <3>. QED
      BY <2>1, <3>1, <3>2
  <2>2. CASE ~Stuck(b)
    <3>1. b \in Units \ base
      BY <2>2
    <3>2. rest[b] \in Units /\ rest[b] = Behind(b) /\ f[rest[b]] \in Pieces
      BY <3>1, <2>2, <1>1
    <3>3. f[b] = comb[<<b, f[rest[b]]>>]
      BY <3>1, <1>4
    <3>4. <<b, f[rest[b]]>> \in (Units \ base) \X Pieces
      BY <3>1, <3>2
    <3>5. f[b] = Taken(b, f[rest[b]])
      <4> DEFINE x == <<b, f[rest[b]]>>
      <4>1. x[1] = b /\ x[2] = f[rest[b]]
        OBVIOUS
      <4>2. comb[x] = Taken(x[1], x[2])
        BY <3>4
      <4>. HIDE DEF comb, rest, x
      <4>. QED
        BY <4>1, <4>2, <3>3 DEF x
    <3>. QED
      BY <2>2, <3>2, <3>5
  <2>. QED
    BY <2>1, <2>2
<1>6. f = [b \in Units |-> Body(f, b)]
  <2>. HIDE DEF Body
  <2>. QED
    BY <1>5
<1>7. cut = [b \in Units |-> Body(cut, b)]
  <2>. HIDE DEF Body
  <2>. QED
    BY <1>6
<1>8. ASSUME NEW b PROVE Gateway!Cut(b) = cut[b]
  BY DEF Gateway!Cut, Units, Stuck, Behind, Taken
<1>9. ASSUME NEW b \in Units PROVE cut[b] = Body(cut, b)
  <2>. HIDE DEF Body, cut
  <2>. QED
    BY <1>7
<1>10. ASSUME NEW b \in Units PROVE cut[b] \in Pieces
  <2>. DEFINE strange == {x \in Units : cut[x] \notin Pieces}
              sizes == {Len(x) : x \in strange}
  <2>. SUFFICES ASSUME strange # {} PROVE FALSE
    OBVIOUS
  <2>1. sizes \subseteq Nat /\ sizes # {}
    <3>1. \A x \in Units : Len(x) \in Nat
      BY DEF Units
    <3>2. strange \subseteq Units
      OBVIOUS
    <3>. HIDE DEF strange
    <3>. QED
      BY <3>1, <3>2
  <2>2. PICK n \in sizes : \A k \in sizes : n <= k
    <3>. HIDE DEF sizes
    <3>. QED
      BY <2>1, LeastOf
  <2>3. PICK x \in strange : Len(x) = n
    OBVIOUS
  <2>4. x \in Units /\ cut[x] \notin Pieces
    BY <2>3
  <2>. HIDE DEF cut
  <2>5. CASE Stuck(x)
    <3>1. cut[x] = [messages |-> <<>>, rest |-> x]
      BY <2>4, <2>5, <1>9
    <3>. QED
      BY <3>1, <2>4 DEF Pieces
  <2>6. CASE ~Stuck(x)
    <3> DEFINE y == Behind(x)
    <3>1. y \in Units /\ Len(y) < Len(x)
      BY <2>4, <2>6, <1>1
    <3>2. y \notin strange
      <4>1. ASSUME y \in strange PROVE FALSE
        <5>1. Len(y) \in sizes /\ Len(y) \in Nat /\ Len(x) \in Nat
          <6>1. Len(y) \in Nat /\ Len(x) \in Nat
            BY <2>4, <3>1 DEF Units
          <6>. HIDE DEF strange, y
          <6>. QED
            BY <4>1, <6>1
        <5>. QED
          BY <5>1, <2>2, <2>3, <3>1
      <4>. QED
        BY <4>1
    <3>3. cut[y] \in Pieces
      BY <3>1, <3>2
    <3>4. cut[x] = Taken(x, cut[y])
      BY <2>4, <2>6, <1>9
    <3>. QED
      BY <3>3, <3>4, <2>4, <2>6, <1>2
  <2>. QED
    BY <2>5, <2>6
<1>11. cut[whole] \in Pieces /\ cut[whole] = Body(cut, whole)
  <2>. HIDE DEF cut, Body
  <2>. QED
    BY <1>9, <1>10
<1>. HIDE DEF cut
<1>. QED
  BY <1>8, <1>11 DEF Behind, Taken

Mark == Gateway!Signal[1]
\* The last part of a message n.
Ahead(n) == [of |-> n, at |-> 1, length |-> 1]
Ends(u) == u.at = u.length
\* What may come behind a part: the message's next one; or, after the last, the next
\* message or a text message; after that, any message.
Follows(u, v) ==
  \/ u.at >= 1 /\ u.at < u.length /\ v = [of |-> u.of, at |-> u.at + 1, length |-> u.length]
  \/ Ends(u) /\ v.at = 1 /\ v.of = u.of + 1
  \/ Ends(u) /\ v = Mark
  \/ u = Mark /\ v.at = 1
\* A stream behind u, and its last part.
Linked(u, s) == s \in Units /\ \A i \in DOMAIN s : Follows(IF i = 1 THEN u ELSE s[i - 1], s[i])
EndOf(u, s) == IF s = <<>> THEN u ELSE s[Len(s)]
\* Parts that the same may follow.
Alike(u, v) == u = v \/ (Ends(u) /\ Ends(v) /\ u.of = v.of)
Unmarked(s) == \A i \in DOMAIN s : s[i] # Mark

LEMMA MarkIs ==
  /\ Mark = [of |-> 0, at |-> 0, length |-> 1] /\ Mark \in Gateway!Unit /\ ~Ends(Mark)
  /\ \A n \in Nat : Ahead(n) \in Gateway!Unit /\ Ends(Ahead(n)) /\ Ahead(n) # Mark
<1>1. Mark = [of |-> 0, at |-> 0, length |-> 1]
  BY DEF Mark, Gateway!Signal
<1>2. ASSUME NEW n \in Nat PROVE Ahead(n) # Mark
  <2>1. Ahead(n).at = 1 /\ Mark.at = 0
    BY <1>1 DEF Ahead
  <2>. QED
    BY <2>1
<1>. QED
  BY <1>1, <1>2 DEF Gateway!Unit, Ends, Ahead

LEMMA UnitsTyped ==
  ASSUME NEW s \in Units
  PROVE  /\ Len(s) \in Nat /\ DOMAIN s = 1 .. Len(s) /\ (s = <<>> <=> Len(s) = 0)
         /\ \A i \in 1 .. Len(s) : s[i] \in Gateway!Unit
         /\ s # <<>> => Head(s) = s[1] /\ 1 \in DOMAIN s /\ Len(s) \in DOMAIN s
BY DEF Units

LEMMA EndIsUnit ==
  ASSUME NEW s \in Units, NEW u \in Gateway!Unit
  PROVE  EndOf(u, s) \in Gateway!Unit
BY UnitsTyped DEF EndOf

\* The links of one stream behind another.
LEMMA LinkedBehind ==
  ASSUME NEW s \in Units, NEW t \in Units, NEW u
  PROVE  /\ s \o t \in Units
         /\ Linked(u, s \o t) <=> Linked(u, s) /\ Linked(EndOf(u, s), t)
         /\ EndOf(u, s \o t) = EndOf(EndOf(u, s), t)
         /\ Unmarked(s \o t) <=> Unmarked(s) /\ Unmarked(t)
<1>. DEFINE w == s \o t
            l == Len(s)
            m == Len(t)
<1>1. /\ w \in Units /\ Len(w) = l + m /\ l \in Nat /\ m \in Nat
      /\ DOMAIN s = 1 .. l /\ DOMAIN t = 1 .. m /\ DOMAIN w = 1 .. l + m
      /\ \A i \in 1 .. l : i \in 1 .. l + m /\ w[i] = s[i]
      /\ \A i \in 1 .. m : l + i \in 1 .. l + m /\ w[l + i] = t[i]
      /\ \A i \in 1 .. l + m : i \in 1 .. l \/ \E j \in 1 .. m : i = l + j
  <2>1. s \in Seq(Gateway!Unit) /\ t \in Seq(Gateway!Unit)
    BY DEF Units
  <2>. HIDE DEF Units
  <2>2. w \in Seq(Gateway!Unit) /\ Len(w) = l + m /\ l \in Nat /\ m \in Nat
    BY <2>1, Joined
  <2>3. DOMAIN s = 1 .. l /\ DOMAIN t = 1 .. m /\ DOMAIN w = 1 .. l + m
    BY <2>1, Joined
  <2>4. /\ \A i \in DOMAIN s : i \in DOMAIN w /\ w[i] = s[i]
        /\ \A i \in DOMAIN t : l + i \in DOMAIN w /\ w[l + i] = t[i]
        /\ \A i \in DOMAIN w : i \in DOMAIN s \/ \E j \in DOMAIN t : i = l + j
    BY <2>1, Joined
  <2>. HIDE DEF w, l, m
  <2>. QED
    BY <2>2, <2>3, <2>4 DEF Units
<1>2. (s = <<>> <=> l = 0) /\ (t = <<>> <=> m = 0) /\ (w = <<>> <=> l + m = 0)
  BY <1>1, UnitsTyped
<1>. HIDE DEF w, l, m
<1>3. EndOf(u, w) = EndOf(EndOf(u, s), t)
  <2>1. CASE m = 0
    <3>1. CASE l = 0
      BY <2>1, <3>1, <1>1, <1>2 DEF EndOf
    <3>2. CASE l # 0
      <4>1. l \in 1 .. l /\ l + m = l
        BY <3>2, <2>1, <1>1
      <4>. QED
        BY <2>1, <3>2, <4>1, <1>1, <1>2 DEF EndOf, l
    <3>. QED
      BY <3>1, <3>2
  <2>2. CASE m # 0
    <3>1. m \in 1 .. m /\ l + m # 0
      BY <2>2, <1>1
    <3>. QED
      BY <2>2, <3>1, <1>1, <1>2 DEF EndOf, m
  <2>. QED
    BY <2>1, <2>2
<1>. DEFINE At(x, q, i) == Follows(IF i = 1 THEN x ELSE q[i - 1], q[i])
<1>4. ASSUME NEW i \in 1 .. l PROVE At(u, w, i) <=> At(u, s, i)
  <2>1. CASE i = 1
    BY <2>1, <1>1
  <2>2. CASE i # 1
    <3>1. i - 1 \in 1 .. l
      BY <2>2, <1>1
    <3>. QED
      BY <2>2, <3>1, <1>1
  <2>. QED
    BY <2>1, <2>2
<1>5. ASSUME NEW i \in 1 .. m PROVE At(u, w, l + i) <=> At(EndOf(u, s), t, i)
  <2>1. CASE i = 1 /\ l = 0
    <3>1. EndOf(u, s) = u /\ l + i = 1
      BY <2>1, <1>2 DEF EndOf
    <3>. QED
      BY <2>1, <3>1, <1>1
  <2>2. CASE i = 1 /\ l # 0
    <3>1. EndOf(u, s) = s[l] /\ l + i # 1 /\ (l + i) - 1 = l /\ l \in 1 .. l
      BY <2>2, <1>1, <1>2 DEF EndOf, l
    <3>2. w[(l + i) - 1] = s[l] /\ w[l + i] = t[i]
      BY <3>1, <1>1
    <3>. QED
      BY <2>2, <3>1, <3>2
  <2>3. CASE i # 1
    <3>1. i - 1 \in 1 .. m /\ l + i # 1 /\ (l + i) - 1 = l + (i - 1)
      BY <2>3, <1>1
    <3>2. w[(l + i) - 1] = t[i - 1] /\ w[l + i] = t[i]
      BY <3>1, <1>1
    <3>. QED
      BY <2>3, <3>1, <3>2
  <2>. QED
    BY <2>1, <2>2, <2>3
<1>6. (\A i \in 1 .. l + m : At(u, w, i))
        <=> (\A i \in 1 .. l : At(u, s, i)) /\ (\A i \in 1 .. m : At(EndOf(u, s), t, i))
  <2>. HIDE DEF At
  <2>1. ASSUME \A i \in 1 .. l + m : At(u, w, i)
        PROVE  (\A i \in 1 .. l : At(u, s, i)) /\ (\A i \in 1 .. m : At(EndOf(u, s), t, i))
    BY <2>1, <1>1, <1>4, <1>5
  <2>2. ASSUME \A i \in 1 .. l : At(u, s, i), \A i \in 1 .. m : At(EndOf(u, s), t, i),
               NEW i \in 1 .. l + m
        PROVE  At(u, w, i)
    <3>1. CASE i \in 1 .. l
      BY <3>1, <2>2, <1>4
    <3>2. ASSUME NEW j \in 1 .. m, i = l + j PROVE At(u, w, i)
      BY <3>2, <2>2, <1>5
    <3>. QED
      BY <3>1, <3>2, <1>1
  <2>. QED
    BY <2>1, <2>2
<1>7. Linked(u, w) <=> Linked(u, s) /\ Linked(EndOf(u, s), t)
  BY <1>1, <1>6 DEF Linked
<1>8. Unmarked(w) <=> Unmarked(s) /\ Unmarked(t)
  <2>1. ASSUME Unmarked(w) PROVE Unmarked(s) /\ Unmarked(t)
    BY <2>1, <1>1 DEF Unmarked
  <2>2. ASSUME Unmarked(s), Unmarked(t), NEW i \in 1 .. l + m PROVE w[i] # Mark
    <3>1. CASE i \in 1 .. l
      BY <3>1, <2>2, <1>1 DEF Unmarked
    <3>2. ASSUME NEW j \in 1 .. m, i = l + j PROVE w[i] # Mark
      BY <3>2, <2>2, <1>1 DEF Unmarked
    <3>. QED
      BY <3>1, <3>2, <1>1
  <2>. QED
    BY <2>1, <2>2, <1>1 DEF Unmarked
<1>. QED
  BY <1>1, <1>3, <1>7, <1>8 DEF w

\* What follows a part follows one like it.
LEMMA FollowsAlike ==
  ASSUME NEW u \in Gateway!Unit, NEW v \in Gateway!Unit, NEW x, Alike(u, v), Follows(u, x)
  PROVE  Follows(v, x)
<1>1. CASE u = v
  BY <1>1
<1>2. CASE Ends(u) /\ Ends(v) /\ u.of = v.of
  <2>1. u # Mark
    BY <1>2, MarkIs
  <2>2. ~(u.at < u.length)
    BY <1>2 DEF Ends, Gateway!Unit
  <2>. QED
    BY <1>2, <2>1, <2>2 DEF Follows
<1>. QED
  BY <1>1, <1>2 DEF Alike

LEMMA LinkedAlike ==
  ASSUME NEW u \in Gateway!Unit, NEW v \in Gateway!Unit, NEW s \in Units,
         Alike(u, v)
  PROVE  /\ Linked(u, s) => Linked(v, s)
         /\ Alike(EndOf(u, s), EndOf(v, s))
<1>1. Linked(u, s) => Linked(v, s)
  BY FollowsAlike DEF Linked
<1>. QED
  BY <1>1 DEF EndOf, Alike

\* A stream that starts with a message goes on with it.
LEMMA MessageGoesOn ==
  ASSUME NEW n \in Nat, NEW b \in Units, Linked(Ahead(n), b), b # <<>>, b[1].at = 1,
         NEW i \in 1 .. Len(b), i <= b[1].length
  PROVE  b[i] = [of |-> n + 1, at |-> i, length |-> b[1].length]
<1>. DEFINE n1 == b[1].length
            Right(j) == b[j] = [of |-> n + 1, at |-> j, length |-> n1]
            wrong == {j \in 1 .. Len(b) : j <= n1 /\ ~Right(j)}
<1>1. Len(b) \in Nat /\ DOMAIN b = 1 .. Len(b) /\ \A j \in 1 .. Len(b) : b[j] \in Gateway!Unit
  BY UnitsTyped
<1>2. 1 \in 1 .. Len(b) /\ b[1] \in Gateway!Unit /\ n1 \in Nat /\ n1 >= 1
  BY <1>1, UnitsTyped DEF Gateway!Unit
<1>3. Right(1)
  <2>1. Follows(Ahead(n), b[1])
    BY <1>1, <1>2 DEF Linked
  <2>2. b[1] # Mark /\ Ahead(n) # Mark /\ ~(Ahead(n).at < Ahead(n).length) /\ Ahead(n).of = n
    <3>1. b[1] # Mark
      <4>1. Mark.at = 0
        BY MarkIs
      <4>. QED
        BY <4>1
    <3>. QED
      BY <3>1, MarkIs DEF Ahead
  <2>3. b[1].at = 1 /\ b[1].of = n + 1
    BY <2>1, <2>2 DEF Follows
  <2>. QED
    BY <2>3, <1>2 DEF Gateway!Unit
<1>. HIDE DEF n1, Right
<1>4. SUFFICES ASSUME wrong # {} PROVE FALSE
  BY DEF Right, n1
<1>5. PICK j \in wrong : \A k \in wrong : j <= k
  <2>1. wrong \subseteq Nat
    OBVIOUS
  <2>. HIDE DEF wrong
  <2>. QED
    BY <1>4, <2>1, LeastOf
<1>6. j \in 1 .. Len(b) /\ j <= n1 /\ ~Right(j) /\ j # 1
  BY <1>3, <1>5
<1>7. j - 1 \in 1 .. Len(b) /\ j - 1 <= n1 /\ ~(j <= j - 1) /\ j \in Nat /\ j - 1 < n1
  BY <1>1, <1>2, <1>6
<1>8. j - 1 \notin wrong
  <2>. HIDE DEF wrong
  <2>. QED
    BY <1>5, <1>7
<1>9. Right(j - 1)
  BY <1>7, <1>8
<1>10. Follows(b[j - 1], b[j])
  BY <1>1, <1>6 DEF Linked
<1>11. b[j - 1].at = j - 1 /\ b[j - 1].length = n1 /\ b[j - 1].of = n + 1
  BY <1>9 DEF Right
<1>12. b[j - 1] # Mark /\ b[j - 1].at < b[j - 1].length /\ ~Ends(b[j - 1])
  <2>1. Mark.at = 0
    BY MarkIs
  <2>. QED
    BY <2>1, <1>7, <1>11, <1>2 DEF Ends
<1>13. b[j] = [of |-> n + 1, at |-> (j - 1) + 1, length |-> n1]
  BY <1>10, <1>11, <1>12 DEF Follows
<1>14. (j - 1) + 1 = j
  BY <1>7
<1>. QED
  BY <1>6, <1>13, <1>14 DEF Right

\* The messages of a session, in order, behind n others.
WholeFrom(n, ms) ==
  \A k \in DOMAIN ms : ms[k] = Gateway!Message(n + k, Head(ms[k]).length)

\* What Cut makes of a stream that is linked behind message n.
CutOf(n, b, c) ==
  LET m == n + Len(c.messages)
  IN  /\ Stuck(c.rest) /\ WholeFrom(n, c.messages)
      /\ Linked(Ahead(m), c.rest) /\ Alike(EndOf(Ahead(n), b), EndOf(Ahead(m), c.rest))
      /\ Unmarked(b) => Unmarked(c.rest)
CutsWell(b) == \A n \in Nat : Linked(Ahead(n), b) => CutOf(n, b, Gateway!Cut(b))

LEMMA AlikeAlso ==
  ASSUME NEW u, NEW v, NEW w, Alike(u, v), Alike(v, w)
  PROVE  Alike(u, w)
BY DEF Alike

\* The message at the front of a stream is the next one, and the rest is behind it.
LEMMA NextMessage ==
  ASSUME NEW n \in Nat, NEW b \in Units, Linked(Ahead(n), b), ~Stuck(b)
  PROVE  LET l == Head(b).length
             front == SubSeq(b, 1, l)
             behind == SubSeq(b, l + 1, Len(b))
         IN  /\ l \in Nat /\ front \in Units /\ behind \in Units /\ Len(behind) < Len(b)
             /\ front = Gateway!Message(n + 1, l) /\ Head(front).length = l
             /\ Linked(Ahead(n + 1), behind)
             /\ Alike(EndOf(Ahead(n), b), EndOf(Ahead(n + 1), behind))
             /\ Unmarked(b) => Unmarked(behind)
<1>. DEFINE l == Head(b).length
            front == SubSeq(b, 1, l)
            behind == SubSeq(b, l + 1, Len(b))
<1>1. /\ Head(b) = b[1] /\ b[1].at = 1 /\ l \in Nat /\ l >= 1 /\ l <= Len(b) /\ Len(b) \in Nat
      /\ front \in Units /\ Len(front) = l /\ \A i \in 1 .. l : front[i] = b[i]
      /\ behind \in Units /\ Len(behind) = Len(b) - l /\ front \o behind = b
      /\ b[1].length = l
  BY FrontMessage, Zenon
<1>. HIDE DEF l, front, behind
<1>2. b # <<>> /\ Len(behind) < Len(b)
  BY <1>1 DEF Stuck
<1>3. ASSUME NEW i \in 1 .. l PROVE front[i] = [of |-> n + 1, at |-> i, length |-> l]
  <2>1. i \in 1 .. Len(b) /\ i <= b[1].length
    BY <1>1
  <2>2. b[i] = [of |-> n + 1, at |-> i, length |-> b[1].length]
    BY <2>1, <1>1, <1>2, MessageGoesOn
  <2>. QED
    BY <2>2, <1>1
<1>4. front = Gateway!Message(n + 1, l)
  <2>1. DOMAIN front = 1 .. l /\ front \in Seq(Gateway!Unit)
    BY <1>1 DEF Units
  <2>2. front = [i \in 1 .. l |-> front[i]]
    BY <2>1
  <2>. QED
    BY <2>2, <1>3 DEF Gateway!Message
<1>5. Head(front).length = l /\ EndOf(Ahead(n), front) = front[l] /\ front[l].of = n + 1 /\ Ends(front[l])
  <2>1. front # <<>> /\ 1 \in 1 .. l /\ l \in 1 .. l
    BY <1>1, UnitsTyped
  <2>2. Head(front) = front[1]
    BY <2>1, <1>1, UnitsTyped
  <2>3. front[1].length = l /\ front[l].of = n + 1 /\ front[l].at = l /\ front[l].length = l
    <3>1. front[1] = [of |-> n + 1, at |-> 1, length |-> l]
      BY <2>1, <1>3
    <3>2. front[l] = [of |-> n + 1, at |-> l, length |-> l]
      BY <2>1, <1>3
    <3>. QED
      BY <3>1, <3>2
  <2>. QED
    BY <2>1, <2>2, <2>3, <1>1 DEF EndOf, Ends
<1>6. Alike(front[l], Ahead(n + 1)) /\ front[l] \in Gateway!Unit /\ Ahead(n + 1) \in Gateway!Unit
  <2>1. n + 1 \in Nat /\ l \in 1 .. Len(front)
    BY <1>1
  <2>2. front[l] \in Gateway!Unit
    BY <2>1, <1>1, UnitsTyped
  <2>3. Ends(Ahead(n + 1)) /\ Ahead(n + 1).of = n + 1
    BY <2>1, MarkIs DEF Ahead
  <2>. QED
    BY <2>1, <2>2, <2>3, <1>5, MarkIs DEF Alike
<1>7. /\ Linked(EndOf(Ahead(n), front), behind)
      /\ EndOf(Ahead(n), b) = EndOf(EndOf(Ahead(n), front), behind)
      /\ Unmarked(b) => Unmarked(behind)
  BY <1>1, LinkedBehind
<1>8. /\ Linked(Ahead(n + 1), behind)
      /\ Alike(EndOf(Ahead(n), b), EndOf(Ahead(n + 1), behind))
  BY <1>1, <1>5, <1>6, <1>7, LinkedAlike
<1>. QED
  BY <1>1, <1>2, <1>4, <1>5, <1>7, <1>8 DEF l, front, behind

LEMMA CutMore ==
  ASSUME NEW n \in Nat, NEW b \in Units, Linked(Ahead(n), b), ~Stuck(b),
         CutsWell(SubSeq(b, Head(b).length + 1, Len(b)))
  PROVE  CutOf(n, b, Gateway!Cut(b))
<1>. DEFINE l == Head(b).length
            front == SubSeq(b, 1, l)
            behind == SubSeq(b, l + 1, Len(b))
            d == Gateway!Cut(behind)
            c == Gateway!Cut(b)
            m == (n + 1) + Len(d.messages)
<1>1. /\ front \in Units /\ behind \in Units
      /\ front = Gateway!Message(n + 1, l) /\ Head(front).length = l
      /\ Linked(Ahead(n + 1), behind)
      /\ Alike(EndOf(Ahead(n), b), EndOf(Ahead(n + 1), behind))
      /\ Unmarked(b) => Unmarked(behind)
  BY NextMessage, Zenon
<1>2. /\ d \in Pieces /\ c \in Pieces
      /\ c = [messages |-> <<front>> \o d.messages, rest |-> d.rest]
  BY <1>1, CutIs
<1>3. CutOf(n + 1, behind, d)
  BY <1>1 DEF CutsWell
<1>. HIDE DEF l, front, behind, d, c
<1>4. /\ d.messages \in Seq(Units) /\ c.messages = <<front>> \o d.messages /\ c.rest = d.rest
      /\ Len(d.messages) \in Nat
  BY <1>2 DEF Pieces
<1>5. /\ Len(c.messages) = Len(d.messages) + 1 /\ DOMAIN c.messages = 1 .. Len(d.messages) + 1
      /\ DOMAIN d.messages = 1 .. Len(d.messages)
      /\ c.messages[1] = front
      /\ \A k \in 1 .. Len(d.messages) : c.messages[k + 1] = d.messages[k]
  BY <1>1, <1>4
<1>6. n + Len(c.messages) = m /\ m \in Nat
  <2>1. \A q \in Nat : n + (q + 1) = (n + 1) + q /\ (n + 1) + q \in Nat
    OBVIOUS
  <2>. QED
    BY <2>1, <1>4, <1>5
<1>7. WholeFrom(n, c.messages)
  <2>. SUFFICES ASSUME NEW k \in DOMAIN c.messages
                PROVE  c.messages[k] = Gateway!Message(n + k, Head(c.messages[k]).length)
    BY DEF WholeFrom
  <2>1. CASE k = 1
    BY <2>1, <1>1, <1>5
  <2>2. CASE k # 1
    <3>1. k - 1 \in 1 .. Len(d.messages) /\ (k - 1) + 1 = k /\ (n + 1) + (k - 1) = n + k
      <4>1. k \in 1 .. Len(d.messages) + 1
        BY <1>5
      <4>2. \A q \in Nat : \A j \in 1 .. q + 1 : j # 1 =>
              j - 1 \in 1 .. q /\ (j - 1) + 1 = j /\ (n + 1) + (j - 1) = n + j
        OBVIOUS
      <4>. HIDE DEF m
      <4>. QED
        BY <4>1, <4>2, <2>2, <1>4
    <3>2. d.messages[k - 1] = Gateway!Message((n + 1) + (k - 1), Head(d.messages[k - 1]).length)
      BY <3>1, <1>3, <1>5 DEF CutOf, WholeFrom
    <3>3. c.messages[k] = d.messages[k - 1]
      BY <3>1, <1>5
    <3>. QED
      BY <3>1, <3>2, <3>3
  <2>. QED
    BY <2>1, <2>2
<1>8. /\ Stuck(c.rest) /\ Linked(Ahead(m), c.rest)
      /\ Alike(EndOf(Ahead(n + 1), behind), EndOf(Ahead(m), c.rest))
      /\ Unmarked(behind) => Unmarked(c.rest)
  BY <1>3, <1>4 DEF CutOf
<1>9. Alike(EndOf(Ahead(n), b), EndOf(Ahead(m), c.rest))
  BY <1>1, <1>8, AlikeAlso
<1>. HIDE DEF m
<1>. QED
  BY <1>1, <1>6, <1>7, <1>8, <1>9 DEF CutOf, c

\* Every stream of messages is cut well: the shortest that is not has none at its front.
LEMMA CutAll == \A b \in Units : CutsWell(b)
<1>. DEFINE wrong == {b \in Units : ~CutsWell(b)}
            sizes == {Len(b) : b \in wrong}
<1>. SUFFICES ASSUME wrong # {} PROVE FALSE
  OBVIOUS
<1>0. wrong \subseteq Units /\ \A b \in Units : Len(b) \in Nat
  BY UnitsTyped
<1>1. sizes \subseteq Nat /\ sizes # {}
  <2>. HIDE DEF wrong
  <2>. QED
    BY <1>0
<1>2. PICK i \in sizes : \A j \in sizes : i <= j
  <2>. HIDE DEF sizes
  <2>. QED
    BY <1>1, LeastOf
<1>3. PICK b \in wrong : Len(b) = i
  <2>. HIDE DEF wrong
  <2>. QED
    BY <1>2
<1>4. b \in Units /\ ~CutsWell(b) /\ Len(b) \in Nat
  BY <1>0, <1>3
<1>5. PICK n \in Nat : Linked(Ahead(n), b) /\ ~CutOf(n, b, Gateway!Cut(b))
  BY <1>4 DEF CutsWell
<1>6. CASE Stuck(b)
  <2>1. Gateway!Cut(b) = [messages |-> <<>>, rest |-> b]
    BY <1>4, <1>6, CutIs
  <2>2. n + Len(Gateway!Cut(b).messages) = n
    BY <2>1
  <2>3. CutOf(n, b, Gateway!Cut(b))
    BY <2>1, <2>2, <1>5, <1>6 DEF CutOf, WholeFrom, Alike
  <2>. QED
    BY <2>3, <1>5
<1>7. CASE ~Stuck(b)
  <2>. DEFINE behind == SubSeq(b, Head(b).length + 1, Len(b))
  <2>1. behind \in Units /\ Len(behind) < Len(b) /\ Len(behind) \in Nat
    <3>1. behind \in Units /\ Len(behind) < Len(b)
      BY <1>4, <1>5, <1>7, NextMessage, Zenon
    <3>. QED
      BY <3>1, UnitsTyped
  <2>. HIDE DEF behind
  <2>2. behind \notin wrong
    <3>1. ASSUME behind \in wrong PROVE FALSE
      <4>1. Len(behind) \in sizes
        BY <3>1
      <4>. QED
        BY <4>1, <1>2, <1>3, <1>4, <2>1
    <3>. QED
      BY <3>1
  <2>3. CutsWell(behind)
    BY <2>1, <2>2
  <2>. QED
    BY <2>3, <1>4, <1>5, <1>7, CutMore DEF behind
<1>. QED
  BY <1>6, <1>7

\* What is read is put behind what was kept, and cut; the rest of the stream is linked to
\* what is kept now.
LEMMA ReadIsLinked ==
  ASSUME NEW n \in Nat, NEW kept \in Units, NEW s \in Units, NEW k \in 1 .. Len(s),
         Linked(Ahead(n), kept), Linked(EndOf(Ahead(n), kept), s)
  PROVE  LET c == Gateway!Cut(kept \o SubSeq(s, 1, k))
             behind == SubSeq(s, k + 1, Len(s))
             m == n + Len(c.messages)
         IN  /\ c \in Pieces /\ behind \in Units /\ m \in Nat
             /\ Stuck(c.rest) /\ WholeFrom(n, c.messages)
             /\ Linked(Ahead(m), c.rest) /\ Linked(EndOf(Ahead(m), c.rest), behind)
             /\ Alike(EndOf(EndOf(Ahead(n), kept), s), EndOf(EndOf(Ahead(m), c.rest), behind))
             /\ Unmarked(kept) /\ Unmarked(s) => Unmarked(c.rest) /\ Unmarked(behind)
<1>. DEFINE front == SubSeq(s, 1, k)
            behind == SubSeq(s, k + 1, Len(s))
            b == kept \o front
            c == Gateway!Cut(b)
            m == n + Len(c.messages)
            u == EndOf(Ahead(n), kept)
<1>1. front \in Units /\ behind \in Units /\ front \o behind = s
  <2>1. s \in Seq(Gateway!Unit) /\ k \in 0 .. Len(s)
    BY DEF Units
  <2>. QED
    BY <2>1, FrontOf, BehindOf, FrontAndBehind, Zenon DEF Units
<1>. HIDE DEF front, behind
<1>2. /\ Linked(u, front) /\ Linked(EndOf(u, front), behind)
      /\ EndOf(u, s) = EndOf(EndOf(u, front), behind)
      /\ Unmarked(s) => Unmarked(front) /\ Unmarked(behind)
  <2>. HIDE DEF u
  <2>1. Linked(u, s)
    BY DEF u
  <2>. QED
    BY <2>1, <1>1, LinkedBehind
<1>3. /\ b \in Units /\ Linked(Ahead(n), b) /\ EndOf(Ahead(n), b) = EndOf(u, front)
      /\ Unmarked(kept) /\ Unmarked(front) => Unmarked(b)
  BY <1>1, <1>2, LinkedBehind
<1>. HIDE DEF b, u
<1>4. c \in Pieces
  BY <1>3, CutIs
<1>5. CutOf(n, b, c)
  BY <1>3, CutAll DEF CutsWell
<1>. HIDE DEF c
<1>6. Len(c.messages) \in Nat /\ m \in Nat /\ c.rest \in Units
  BY <1>4 DEF Pieces
<1>7. /\ Stuck(c.rest) /\ WholeFrom(n, c.messages) /\ Linked(Ahead(m), c.rest)
      /\ Alike(EndOf(u, front), EndOf(Ahead(m), c.rest))
      /\ Unmarked(b) => Unmarked(c.rest)
  BY <1>3, <1>5 DEF CutOf
<1>. HIDE DEF m
<1>8. EndOf(u, front) \in Gateway!Unit /\ EndOf(Ahead(m), c.rest) \in Gateway!Unit
  <2>1. u \in Gateway!Unit
    BY EndIsUnit, MarkIs DEF u
  <2>. QED
    BY <2>1, <1>1, <1>6, EndIsUnit, MarkIs
<1>9. /\ Linked(EndOf(Ahead(m), c.rest), behind)
      /\ Alike(EndOf(EndOf(u, front), behind), EndOf(EndOf(Ahead(m), c.rest), behind))
  BY <1>1, <1>2, <1>7, <1>8, LinkedAlike
<1>. QED
  BY <1>1, <1>2, <1>3, <1>4, <1>6, <1>7, <1>9 DEF front, behind, b, c, m, u

\* Messages behind messages.
LEMMA WholeAlso ==
  ASSUME NEW old \in Seq(Units), NEW more \in Seq(Units),
         WholeFrom(0, old), WholeFrom(Len(old), more)
  PROVE  /\ old \o more \in Seq(Units) /\ Len(old \o more) = Len(old) + Len(more)
         /\ Len(old) \in Nat
         /\ WholeFrom(0, old \o more)
<1>. DEFINE all == old \o more
<1>1. /\ all \in Seq(Units) /\ Len(all) = Len(old) + Len(more) /\ Len(old) \in Nat
      /\ DOMAIN more = 1 .. Len(more)
      /\ \A k \in DOMAIN old : all[k] = old[k]
      /\ \A k \in DOMAIN more : all[Len(old) + k] = more[k]
      /\ \A k \in DOMAIN all : k \in DOMAIN old \/ \E j \in DOMAIN more : k = Len(old) + j
  BY Joined
<1>. HIDE DEF all
<1>2. ASSUME NEW k \in DOMAIN all
      PROVE  all[k] = Gateway!Message(0 + k, Head(all[k]).length)
  <2>1. CASE k \in DOMAIN old
    BY <2>1, <1>1 DEF WholeFrom
  <2>2. ASSUME NEW j \in DOMAIN more, k = Len(old) + j
        PROVE  all[k] = Gateway!Message(0 + k, Head(all[k]).length)
    <3>1. more[j] = Gateway!Message(Len(old) + j, Head(more[j]).length)
      BY DEF WholeFrom
    <3>2. 0 + k = Len(old) + j
      BY <2>2, <1>1
    <3>. QED
      BY <2>2, <3>1, <3>2, <1>1
  <2>. QED
    BY <2>1, <2>2, <1>1
<1>. QED
  BY <1>1, <1>2 DEF WholeFrom, all

\* The end of what was sent: a text message, or the last part of the last message.
SentUpTo(u, n) == u = Mark \/ (Ends(u) /\ u.of = n)

LEMMA SentAlike ==
  ASSUME NEW u, NEW v, NEW n, SentUpTo(u, n), Alike(u, v)
  PROVE  SentUpTo(v, n)
BY MarkIs DEF SentUpTo, Alike

\* A message, or text, and what may be ahead of it.
IsWhole(m) == m = Gateway!Signal \/ \E i \in Nat, l \in Nat \ {0} : m = Gateway!Message(i, l)

LEMMA WholeIsLinked ==
  ASSUME NEW m, IsWhole(m)
  PROVE  /\ m \in Units /\ m # <<>> /\ m[1] \in Gateway!Unit /\ m[Len(m)] \in Gateway!Unit
         /\ \A u : Follows(u, m[1]) => Linked(u, m)
         /\ \A u : EndOf(u, m) = m[Len(m)]
         /\ m = Gateway!Signal <=> ~Unmarked(m)
<1>1. CASE m = Gateway!Signal
  <2>1. m = <<Mark>>
    BY <1>1 DEF Mark, Gateway!Signal
  <2>2. m \in Units /\ Len(m) = 1 /\ m[1] = Mark /\ DOMAIN m = {1} /\ m # <<>>
    BY <2>1, MarkIs DEF Units
  <2>. QED
    BY <1>1, <2>2, MarkIs DEF Linked, EndOf, Unmarked
<1>2. ASSUME NEW i \in Nat, NEW l \in Nat \ {0}, m = Gateway!Message(i, l)
      PROVE  /\ m \in Units /\ m # <<>> /\ m[1] \in Gateway!Unit /\ m[Len(m)] \in Gateway!Unit
             /\ \A u : Follows(u, m[1]) => Linked(u, m)
             /\ \A u : EndOf(u, m) = m[Len(m)]
             /\ Unmarked(m) /\ m # Gateway!Signal
  <2>1. m = [k \in 1 .. l |-> [of |-> i, at |-> k, length |-> l]]
    BY <1>2 DEF Gateway!Message
  <2>2. \A k \in 1 .. l : [of |-> i, at |-> k, length |-> l] \in Gateway!Unit
    BY DEF Gateway!Unit
  <2>3. m \in Seq(Gateway!Unit) /\ Len(m) = l /\ DOMAIN m = 1 .. l
    BY <2>1, <2>2
  <2>4. \A k \in 1 .. l : m[k] = [of |-> i, at |-> k, length |-> l]
    BY <2>1
  <2>5. 1 \in 1 .. l /\ l \in 1 .. l /\ m # <<>>
    BY <2>3
  <2>6. ASSUME NEW k \in 1 .. l, k # 1 PROVE Follows(m[k - 1], m[k])
    <3>1. k - 1 \in 1 .. l /\ (k - 1) + 1 = k /\ k - 1 >= 1 /\ k - 1 < l
      BY <2>6
    <3>2. m[k - 1] = [of |-> i, at |-> k - 1, length |-> l] /\ m[k] = [of |-> i, at |-> k, length |-> l]
      BY <3>1, <2>4
    <3>. QED
      BY <3>1, <3>2 DEF Follows
  <2>7. ASSUME NEW u, Follows(u, m[1]) PROVE Linked(u, m)
    BY <2>3, <2>6, <2>7 DEF Linked, Units
  <2>8. Unmarked(m)
    <3>. SUFFICES ASSUME NEW k \in 1 .. l PROVE m[k] # Mark
      BY <2>3 DEF Unmarked
    <3>0. m[k] = [of |-> i, at |-> k, length |-> l]
      BY <2>4
    <3>1. m[k].at = k
      BY <3>0
    <3>2. Mark.at = 0
      BY MarkIs
    <3>. QED
      BY <3>1, <3>2
  <2>9. m # Gateway!Signal
    <3>1. Gateway!Signal[1] = Mark /\ m[1] # Mark
      BY <2>3, <2>5, <2>8 DEF Mark, Unmarked
    <3>. QED
      BY <3>1
  <2>10. m[1] \in Gateway!Unit /\ m[Len(m)] \in Gateway!Unit
    BY <2>2, <2>3, <2>4, <2>5
  <2>. QED
    BY <2>3, <2>5, <2>7, <2>8, <2>9, <2>10 DEF Units, EndOf
<1>. QED
  BY <1>1, <1>2 DEF IsWhole

\* Messages the gateway has not read, behind u.
Waiting(u, pg) ==
  /\ pg \in Seq(Units)
  /\ \A k \in DOMAIN pg :
       IsWhole(pg[k]) /\ Follows(IF k = 1 THEN u ELSE pg[k - 1][Len(pg[k - 1])], pg[k][1])
WaitingEnd(u, pg) == IF pg = <<>> THEN u ELSE pg[Len(pg)][Len(pg[Len(pg)])]

LEMMA WaitingMore ==
  ASSUME NEW u, NEW pg, NEW m, Waiting(u, pg), IsWhole(m), Follows(WaitingEnd(u, pg), m[1])
  PROVE  /\ Waiting(u, Append(pg, m)) /\ WaitingEnd(u, Append(pg, m)) = m[Len(m)]
         /\ \A k \in DOMAIN Append(pg, m) : \/ k \in DOMAIN pg /\ Append(pg, m)[k] = pg[k]
                                            \/ Append(pg, m)[k] = m
<1>. DEFINE more == Append(pg, m)
            l == Len(pg)
<1>1. pg \in Seq(Units) /\ m \in Units /\ l \in Nat /\ DOMAIN pg = 1 .. l
  BY WholeIsLinked DEF Waiting
<1>2. /\ more \in Seq(Units) /\ Len(more) = l + 1 /\ more[l + 1] = m
      /\ \A k \in 1 .. l : more[k] = pg[k]
  BY <1>1, AppendProperties
<1>3. DOMAIN more = 1 .. l + 1 /\ more # <<>> /\ (pg = <<>> <=> l = 0)
  BY <1>1, <1>2
<1>. HIDE DEF more, l
<1>4. ASSUME NEW k \in 1 .. l + 1
      PROVE  IsWhole(more[k]) /\ Follows(IF k = 1 THEN u ELSE more[k - 1][Len(more[k - 1])], more[k][1])
  <2>1. CASE k \in 1 .. l
    <3>1. CASE k = 1
      BY <2>1, <3>1, <1>1, <1>2 DEF Waiting
    <3>2. CASE k # 1
      <4>1. k - 1 \in 1 .. l
        BY <2>1, <3>2, <1>1
      <4>. QED
        BY <2>1, <3>2, <4>1, <1>1, <1>2 DEF Waiting
    <3>. QED
      BY <3>1, <3>2
  <2>2. CASE k = l + 1
    <3>1. CASE l = 0
      BY <2>2, <3>1, <1>2, <1>3 DEF WaitingEnd
    <3>2. CASE l # 0
      <4>1. k # 1 /\ k - 1 = l /\ l \in 1 .. l
        BY <2>2, <3>2, <1>1
      <4>2. WaitingEnd(u, pg) = pg[l][Len(pg[l])]
        BY <3>2, <1>3 DEF WaitingEnd, l
      <4>. QED
        BY <2>2, <4>1, <4>2, <1>2
    <3>. QED
      BY <3>1, <3>2
  <2>. QED
    BY <2>1, <2>2, <1>1
<1>5. Waiting(u, more)
  BY <1>2, <1>3, <1>4 DEF Waiting
<1>6. WaitingEnd(u, more) = m[Len(m)]
  BY <1>2, <1>3 DEF WaitingEnd
<1>7. \A k \in 1 .. l + 1 : (k \in 1 .. l /\ more[k] = pg[k]) \/ more[k] = m
  <2>1. \A k \in 1 .. l + 1 : k \in 1 .. l \/ k = l + 1
    BY <1>1
  <2>. QED
    BY <2>1, <1>2
<1>. QED
  BY <1>1, <1>3, <1>5, <1>6, <1>7 DEF more

LEMMA WaitingLess ==
  ASSUME NEW u, NEW pg, Waiting(u, pg), pg # <<>>
  PROVE  LET m == Head(pg)
         IN  /\ IsWhole(m) /\ Follows(u, m[1]) /\ 1 \in DOMAIN pg /\ m = pg[1]
             /\ Waiting(m[Len(m)], Tail(pg))
             /\ WaitingEnd(m[Len(m)], Tail(pg)) = WaitingEnd(u, pg)
             /\ \A k \in DOMAIN Tail(pg) : k + 1 \in DOMAIN pg /\ Tail(pg)[k] = pg[k + 1]
<1>. DEFINE m == Head(pg)
            less == Tail(pg)
            l == Len(pg)
<1>1. /\ pg \in Seq(Units) /\ l \in Nat /\ l # 0 /\ DOMAIN pg = 1 .. l /\ m = pg[1]
      /\ 1 \in 1 .. l
  BY DEF Waiting
<1>2. less \in Seq(Units) /\ Len(less) = l - 1 /\ \A k \in 1 .. l - 1 : less[k] = pg[k + 1]
  BY <1>1, HeadTailProperties
<1>3. DOMAIN less = 1 .. l - 1 /\ (less = <<>> <=> l = 1)
  <2>. HIDE DEF less, l
  <2>1. DOMAIN less = 1 .. Len(less) /\ (less = <<>> <=> Len(less) = 0)
    <3>1. \A w \in Seq(Units) : DOMAIN w = 1 .. Len(w) /\ (w = <<>> <=> Len(w) = 0)
      OBVIOUS
    <3>. QED
      BY <3>1, <1>2, Zenon
  <2>. QED
    BY <2>1, <1>1, <1>2
<1>4. IsWhole(m) /\ Follows(u, m[1])
  BY <1>1 DEF Waiting
<1>. HIDE DEF m, less, l
<1>5. ASSUME NEW k \in 1 .. l - 1
      PROVE  /\ k + 1 \in 1 .. l
             /\ IsWhole(less[k])
             /\ Follows(IF k = 1 THEN m[Len(m)] ELSE less[k - 1][Len(less[k - 1])], less[k][1])
  <2>1. k + 1 \in 1 .. l /\ k + 1 # 1 /\ (k + 1) - 1 = k
    BY <1>1
  <2>2. /\ IsWhole(pg[k + 1]) /\ Follows(pg[k][Len(pg[k])], pg[k + 1][1])
    BY <2>1, <1>1 DEF Waiting
  <2>3. CASE k = 1
    BY <2>1, <2>2, <2>3, <1>1, <1>2
  <2>4. CASE k # 1
    <3>1. k - 1 \in 1 .. l - 1 /\ (k - 1) + 1 = k
      BY <2>4, <1>1
    <3>. QED
      BY <2>1, <2>2, <2>4, <3>1, <1>2
  <2>. QED
    BY <2>3, <2>4
<1>6. Waiting(m[Len(m)], less)
  BY <1>2, <1>3, <1>5 DEF Waiting
<1>7. WaitingEnd(m[Len(m)], less) = WaitingEnd(u, pg)
  <2>1. WaitingEnd(u, pg) = pg[l][Len(pg[l])]
    BY <1>1 DEF WaitingEnd, l
  <2>2. CASE l = 1
    BY <2>1, <2>2, <1>1, <1>3 DEF WaitingEnd
  <2>3. CASE l # 1
    <3>1. l - 1 \in 1 .. l - 1 /\ (l - 1) + 1 = l
      BY <2>3, <1>1
    <3>2. less[Len(less)] = pg[l]
      BY <3>1, <1>2
    <3>. QED
      BY <2>1, <2>3, <3>2, <1>3 DEF WaitingEnd
  <2>. QED
    BY <2>2, <2>3
<1>. QED
  BY <1>1, <1>2, <1>3, <1>4, <1>5, <1>6, <1>7 DEF m, less

LEMMA WaitingAlike ==
  ASSUME NEW u \in Gateway!Unit, NEW v \in Gateway!Unit, NEW pg, Alike(u, v), Waiting(u, pg)
  PROVE  Waiting(v, pg) /\ Alike(WaitingEnd(u, pg), WaitingEnd(v, pg))
<1>1. Waiting(v, pg)
  BY FollowsAlike DEF Waiting
<1>. QED
  BY <1>1 DEF WaitingEnd, Alike

\* What the host has taken, what is on the way to it, and what the gateway has not read
\* are the browser's messages in their order, up to the last one sent.
Up1 == EndOf(Ahead(Len(heard)), hostBuffer)
Up2 == EndOf(Up1, upstream)
Up3 == EndOf(Up2, pendingOut)
UpLine ==
  /\ Stuck(hostBuffer)
  /\ Linked(Ahead(Len(heard)), hostBuffer) /\ Linked(Up1, upstream) /\ Linked(Up2, pendingOut)
  /\ Waiting(Up3, page) /\ SentUpTo(WaitingEnd(Up3, page), typed)
  /\ ~offered =>
       /\ Unmarked(hostBuffer) /\ Unmarked(upstream) /\ Unmarked(pendingOut)
       /\ \A k \in DOMAIN page : page[k] # Gateway!Signal
       /\ WaitingEnd(Up3, page) # Mark
\* The same of the host's messages; it sends no text.
Down1 == EndOf(Ahead(Len(painted)), tcpBuffer)
Down2 == EndOf(Down1, downstream)
DownLine ==
  /\ Stuck(tcpBuffer)
  /\ Linked(Ahead(Len(painted)), tcpBuffer) /\ Linked(Down1, downstream)
  /\ Unmarked(tcpBuffer) /\ Unmarked(downstream)
  /\ Ends(Down2) /\ Down2.of = drawn
Nothing ==
  /\ page = <<>> /\ pendingOut = <<>> /\ upstream = <<>> /\ downstream = <<>>
  /\ tcpBuffer = <<>> /\ hostBuffer = <<>>
GatewayInv ==
  /\ gate \in {"none", "connecting", "open"} /\ offered \in BOOLEAN
  /\ typed \in Nat /\ drawn \in Nat
  /\ heard \in Seq(Units) /\ WholeFrom(0, heard)
  /\ painted \in Seq(Units) /\ WholeFrom(0, painted)
  /\ gate = "none" => Nothing
  /\ gate # "none" => UpLine /\ DownLine
  /\ gate = "open" => pendingOut = <<>>

LEMMA NothingIsLinked ==
  ASSUME NEW u
  PROVE  /\ Linked(u, <<>>) /\ EndOf(u, <<>>) = u /\ Unmarked(<<>>) /\ Stuck(<<>>)
         /\ Waiting(u, <<>>) /\ WaitingEnd(u, <<>>) = u
BY DEF Linked, EndOf, Unmarked, Stuck, Waiting, WaitingEnd, Units

\* The ends of the streams are parts.
LEMMA LineTyped ==
  ASSUME GatewayInv, gate # "none"
  PROVE  /\ hostBuffer \in Units /\ upstream \in Units /\ pendingOut \in Units
         /\ page \in Seq(Units) /\ tcpBuffer \in Units /\ downstream \in Units
         /\ Len(heard) \in Nat /\ Len(painted) \in Nat
         /\ Up1 \in Gateway!Unit /\ Up2 \in Gateway!Unit /\ Up3 \in Gateway!Unit
         /\ Down1 \in Gateway!Unit /\ Down2 \in Gateway!Unit
<1>1. /\ hostBuffer \in Units /\ upstream \in Units /\ pendingOut \in Units
      /\ page \in Seq(Units) /\ tcpBuffer \in Units /\ downstream \in Units
  BY DEF GatewayInv, UpLine, DownLine, Linked, Waiting
<1>2. Len(heard) \in Nat /\ Len(painted) \in Nat
  BY DEF GatewayInv
<1>3. Up1 \in Gateway!Unit /\ Down1 \in Gateway!Unit
  BY <1>1, <1>2, EndIsUnit, MarkIs DEF Up1, Down1
<1>4. Up2 \in Gateway!Unit /\ Down2 \in Gateway!Unit
  BY <1>1, <1>3, EndIsUnit DEF Up2, Down2
<1>5. Up3 \in Gateway!Unit
  BY <1>1, <1>4, EndIsUnit DEF Up3
<1>. QED
  BY <1>1, <1>2, <1>3, <1>4, <1>5

\* The host's side of a step that leaves it alone.
LEMMA DownKept ==
  ASSUME GatewayInv, gate # "none",
         UNCHANGED <<painted, tcpBuffer, downstream, drawn>>
  PROVE  DownLine'
BY DEF GatewayInv, DownLine, Down1, Down2
LEMMA UpKept ==
  ASSUME GatewayInv, gate # "none",
         UNCHANGED <<heard, hostBuffer, upstream, pendingOut, page, typed, offered>>
  PROVE  UpLine'
BY DEF GatewayInv, UpLine, Up1, Up2, Up3

LEMMA VisitInv == GatewayInv /\ Gateway!Visit => GatewayInv'
<1>. SUFFICES ASSUME GatewayInv, Gateway!Visit PROVE GatewayInv'
  OBVIOUS
<1>1. /\ gate' = "connecting" /\ heard' = <<>> /\ painted' = <<>> /\ typed' = 0 /\ drawn' = 0
      /\ offered' = FALSE
      /\ page' = <<>> /\ pendingOut' = <<>> /\ upstream' = <<>> /\ downstream' = <<>>
      /\ tcpBuffer' = <<>> /\ hostBuffer' = <<>>
  BY DEF Gateway!Visit, GatewayInv, Nothing
<1>2. Len(heard') = 0 /\ Len(painted') = 0
  BY <1>1
<1>3. /\ Ends(Ahead(0)) /\ Ahead(0).of = 0 /\ Ahead(0) # Mark
  BY MarkIs DEF Ahead
<1>4. /\ Up1' = Ahead(0) /\ Up2' = Ahead(0) /\ Up3' = Ahead(0)
      /\ Down1' = Ahead(0) /\ Down2' = Ahead(0)
  BY <1>1, <1>2, NothingIsLinked DEF Up1, Up2, Up3, Down1, Down2
<1>5. UpLine'
  BY <1>1, <1>2, <1>3, <1>4, NothingIsLinked DEF UpLine, SentUpTo
<1>6. DownLine'
  BY <1>1, <1>2, <1>3, <1>4, NothingIsLinked DEF DownLine
<1>7. heard' \in Seq(Units) /\ WholeFrom(0, heard') /\ painted' \in Seq(Units) /\ WholeFrom(0, painted')
  BY <1>1 DEF WholeFrom
<1>. QED
  BY <1>1, <1>5, <1>6, <1>7 DEF GatewayInv

LEMMA CloseInv == GatewayInv /\ Gateway!CloseSession => GatewayInv'
BY DEF GatewayInv, Gateway!CloseSession, Nothing

LEMMA ConnectedInv == GatewayInv /\ Gateway!TcpConnected => GatewayInv'
<1>. SUFFICES ASSUME GatewayInv, Gateway!TcpConnected PROVE GatewayInv'
  OBVIOUS
<1>. USE DEF Gateway!TcpConnected
<1>1. gate # "none" /\ UpLine
  BY DEF GatewayInv
<1>2. /\ upstream \in Units /\ pendingOut \in Units
  BY <1>1, LineTyped
<1>3. /\ upstream' = upstream \o pendingOut /\ pendingOut' = <<>>
      /\ hostBuffer' = hostBuffer /\ heard' = heard /\ page' = page /\ typed' = typed
      /\ offered' = offered
  OBVIOUS
<1>4. Linked(Up1, upstream') /\ EndOf(Up1, upstream') = Up3
  BY <1>1, <1>2, <1>3, LinkedBehind DEF UpLine, Up2, Up3
<1>5. Unmarked(upstream) /\ Unmarked(pendingOut) => Unmarked(upstream')
  BY <1>2, <1>3, LinkedBehind
<1>6. Up1' = Up1 /\ Up2' = Up3 /\ Up3' = Up3
  BY <1>3, <1>4, NothingIsLinked DEF Up1, Up2, Up3
<1>7. UpLine'
  BY <1>1, <1>3, <1>4, <1>5, <1>6, NothingIsLinked DEF UpLine
<1>8. DownLine'
  BY <1>1, DownKept
<1>. QED
  BY <1>3, <1>7, <1>8 DEF GatewayInv

LEMMA BrowserSendsInv ==
  ASSUME NEW length \in Lengths, GatewayInv, Gateway!BrowserSends(length)
  PROVE  GatewayInv'
<1>. USE DEF Gateway!BrowserSends
<1>. DEFINE m == Gateway!Message(typed', length)
<1>1. gate # "none" /\ UpLine /\ typed \in Nat /\ typed' = typed + 1 /\ length \in Nat \ {0}
  BY LengthsAssumption DEF GatewayInv
<1>2. /\ m[1] = [of |-> typed + 1, at |-> 1, length |-> length]
      /\ m[Len(m)] = [of |-> typed + 1, at |-> length, length |-> length]
      /\ IsWhole(m) /\ m # Gateway!Signal
  <2>1. m = [k \in 1 .. length |-> [of |-> typed', at |-> k, length |-> length]]
    BY DEF Gateway!Message
  <2>2. \A k \in 1 .. length : m[k] = [of |-> typed', at |-> k, length |-> length]
    BY <2>1
  <2>3. Len(m) = length /\ 1 \in 1 .. length /\ length \in 1 .. length
    BY <2>1, <1>1
  <2>4. IsWhole(m)
    BY <1>1 DEF IsWhole
  <2>5. m[1].at = 1 /\ Gateway!Signal[1].at = 0
    <3>1. m[1] = [of |-> typed', at |-> 1, length |-> length]
      BY <2>2, <2>3
    <3>2. Gateway!Signal[1] = [of |-> 0, at |-> 0, length |-> 1]
      BY DEF Gateway!Signal
    <3>. HIDE DEF m
    <3>. QED
      BY <3>1, <3>2
  <2>. QED
    BY <1>1, <2>2, <2>3, <2>4, <2>5
<1>. HIDE DEF m
<1>3. Follows(WaitingEnd(Up3, page), m[1])
  <2>1. m[1].at = 1 /\ m[1].of = typed + 1
    BY <1>2
  <2>. QED
    BY <1>1, <2>1 DEF UpLine, SentUpTo, Follows
<1>4. page' = Append(page, m)
  BY DEF m
<1>5. /\ Waiting(Up3, page') /\ WaitingEnd(Up3, page') = m[Len(m)]
      /\ \A k \in DOMAIN page' : \/ k \in DOMAIN page /\ page'[k] = page[k]
                                \/ page'[k] = m
  BY <1>1, <1>2, <1>3, <1>4, WaitingMore DEF UpLine
<1>6. SentUpTo(m[Len(m)], typed') /\ m[Len(m)] # Mark
  <2>1. Ends(m[Len(m)]) /\ m[Len(m)].of = typed'
    BY <1>1, <1>2 DEF Ends
  <2>. QED
    BY <2>1, MarkIs DEF SentUpTo
<1>7. Up1' = Up1 /\ Up2' = Up2 /\ Up3' = Up3
  BY DEF Up1, Up2, Up3
<1>8. UpLine'
  BY <1>1, <1>2, <1>5, <1>6, <1>7 DEF UpLine
<1>9. DownLine'
  BY <1>1, DownKept
<1>. QED
  BY <1>1, <1>8, <1>9 DEF GatewayInv

LEMMA BrowserSignalsInv == GatewayInv /\ Gateway!BrowserSignals => GatewayInv'
<1>. SUFFICES ASSUME GatewayInv, Gateway!BrowserSignals PROVE GatewayInv'
  OBVIOUS
<1>. USE DEF Gateway!BrowserSignals
<1>. DEFINE m == Gateway!Signal
<1>1. gate # "none" /\ UpLine /\ ~offered /\ offered'
  BY DEF GatewayInv
<1>2. m[1] = Mark /\ m[Len(m)] = Mark /\ IsWhole(m)
  BY DEF Mark, IsWhole, Gateway!Signal
<1>. HIDE DEF m
<1>3. Follows(WaitingEnd(Up3, page), m[1])
  BY <1>1, <1>2 DEF UpLine, SentUpTo, Follows
<1>4. page' = Append(page, m)
  BY DEF m
<1>5. /\ Waiting(Up3, page') /\ WaitingEnd(Up3, page') = m[Len(m)]
  BY <1>1, <1>2, <1>3, <1>4, WaitingMore DEF UpLine
<1>6. SentUpTo(m[Len(m)], typed')
  BY <1>2 DEF SentUpTo
<1>7. Up1' = Up1 /\ Up2' = Up2 /\ Up3' = Up3
  BY DEF Up1, Up2, Up3
<1>8. UpLine'
  BY <1>1, <1>5, <1>6, <1>7 DEF UpLine
<1>9. DownLine'
  BY <1>1, DownKept
<1>. QED
  BY <1>1, <1>8, <1>9 DEF GatewayInv

\* The message read goes behind what is on the way, or behind what is kept until the host
\* is connected.
LEMMA ForwardInv == GatewayInv /\ Gateway!Forward => GatewayInv'
<1>. SUFFICES ASSUME GatewayInv, Gateway!Forward PROVE GatewayInv'
  OBVIOUS
<1>. USE DEF Gateway!Forward
<1>. DEFINE m == Head(page)
            e == m[Len(m)]
<1>1. gate # "none" /\ UpLine
  BY DEF GatewayInv, Nothing
<1>2. /\ hostBuffer \in Units /\ upstream \in Units /\ pendingOut \in Units
  BY <1>1, LineTyped
<1>3. /\ IsWhole(m) /\ Follows(Up3, m[1]) /\ 1 \in DOMAIN page /\ m = page[1]
      /\ Waiting(e, Tail(page)) /\ WaitingEnd(e, Tail(page)) = WaitingEnd(Up3, page)
      /\ \A k \in DOMAIN Tail(page) : k + 1 \in DOMAIN page /\ Tail(page)[k] = page[k + 1]
  BY <1>1, WaitingLess, Zenon DEF UpLine
<1>. HIDE DEF m
<1>4. /\ m \in Units /\ Linked(Up3, m) /\ EndOf(Up3, m) = e
      /\ m # Gateway!Signal => Unmarked(m)
  BY <1>3, WholeIsLinked
<1>. HIDE DEF e
<1>5. /\ page' = Tail(page) /\ hostBuffer' = hostBuffer /\ heard' = heard /\ typed' = typed
      /\ offered' = offered /\ gate' = gate
  OBVIOUS
<1>6. \/ gate = "open" /\ upstream' = upstream \o m /\ pendingOut' = pendingOut
      \/ gate # "open" /\ pendingOut' = pendingOut \o m /\ upstream' = upstream
  BY DEF m
<1>7. Up1' = Up1
  BY <1>5 DEF Up1
<1>8. /\ Up3' = e /\ Linked(Up1, upstream') /\ Linked(Up2', pendingOut')
      /\ ~offered => Unmarked(upstream') /\ Unmarked(pendingOut')
  <2>0. ~offered => Unmarked(m) /\ Unmarked(upstream) /\ Unmarked(pendingOut)
    BY <1>1, <1>3, <1>4 DEF UpLine
  <2>1. CASE gate = "open"
    <3>1. pendingOut = <<>> /\ pendingOut' = <<>> /\ upstream' = upstream \o m
      BY <1>6, <2>1 DEF GatewayInv
    <3>2. Up3 = Up2
      BY <3>1, NothingIsLinked DEF Up3
    <3>3. /\ Linked(Up1, upstream') /\ EndOf(Up1, upstream') = e
          /\ Unmarked(upstream) /\ Unmarked(m) => Unmarked(upstream')
      BY <1>1, <1>2, <1>4, <3>1, <3>2, LinkedBehind DEF UpLine, Up2
    <3>4. Up2' = e
      BY <1>7, <3>3 DEF Up2
    <3>. QED
      BY <2>0, <3>1, <3>3, <3>4, NothingIsLinked DEF Up3
  <2>2. CASE gate # "open"
    <3>1. pendingOut' = pendingOut \o m /\ upstream' = upstream
      BY <1>6, <2>2
    <3>2. Up2' = Up2
      BY <1>7, <3>1 DEF Up2
    <3>3. /\ Linked(Up2, pendingOut') /\ EndOf(Up2, pendingOut') = e
          /\ Unmarked(pendingOut) /\ Unmarked(m) => Unmarked(pendingOut')
      BY <1>1, <1>2, <1>4, <3>1, LinkedBehind DEF UpLine, Up3
    <3>. QED
      BY <2>0, <1>1, <3>1, <3>2, <3>3 DEF UpLine, Up3
  <2>. QED
    BY <2>1, <2>2
<1>9. ~offered => \A k \in DOMAIN page' : page'[k] # Gateway!Signal
  BY <1>1, <1>3, <1>5 DEF UpLine
<1>10. UpLine'
  BY <1>1, <1>3, <1>5, <1>7, <1>8, <1>9 DEF UpLine
<1>11. DownLine'
  BY <1>1, DownKept
<1>12. gate = "open" => pendingOut' = <<>>
  BY <1>6 DEF GatewayInv
<1>. QED
  BY <1>1, <1>5, <1>10, <1>11, <1>12 DEF GatewayInv

LEMMA HostReadsInv ==
  ASSUME NEW n \in 1 .. Len(upstream), GatewayInv, Gateway!HostReads(n)
  PROVE  GatewayInv'
<1>. DEFINE c == Gateway!Cut(hostBuffer \o SubSeq(upstream, 1, n))
            behind == SubSeq(upstream, n + 1, Len(upstream))
            m == Len(heard) + Len(c.messages)
<1>1. /\ gate = "open" /\ gate' = gate /\ upstream' = behind /\ hostBuffer' = c.rest
      /\ heard' = heard \o c.messages
      /\ UNCHANGED <<page, pendingOut, typed, offered, downstream, tcpBuffer, painted, drawn>>
  BY DEF Gateway!HostReads
<1>2. gate # "none" /\ UpLine /\ pendingOut = <<>> /\ pendingOut' = <<>>
  BY <1>1 DEF GatewayInv
<1>3. /\ hostBuffer \in Units /\ upstream \in Units /\ Len(heard) \in Nat
      /\ Up1 \in Gateway!Unit /\ Up2 \in Gateway!Unit
  BY <1>2, LineTyped
<1>4. /\ Linked(Ahead(Len(heard)), hostBuffer) /\ Linked(EndOf(Ahead(Len(heard)), hostBuffer), upstream)
      /\ Up2 = EndOf(EndOf(Ahead(Len(heard)), hostBuffer), upstream)
  BY <1>2 DEF UpLine, Up1, Up2
<1>5. /\ c \in Pieces /\ behind \in Units /\ m \in Nat
      /\ Stuck(c.rest) /\ WholeFrom(Len(heard), c.messages)
      /\ Linked(Ahead(m), c.rest) /\ Linked(EndOf(Ahead(m), c.rest), behind)
      /\ Alike(Up2, EndOf(EndOf(Ahead(m), c.rest), behind))
      /\ Unmarked(hostBuffer) /\ Unmarked(upstream) => Unmarked(c.rest) /\ Unmarked(behind)
  BY <1>3, <1>4, ReadIsLinked
<1>. HIDE DEF c, behind
<1>6. /\ c.messages \in Seq(Units) /\ c.rest \in Units /\ heard \in Seq(Units)
      /\ WholeFrom(0, heard)
  BY <1>5 DEF Pieces, GatewayInv
<1>7. /\ heard' \in Seq(Units) /\ Len(heard') = m /\ WholeFrom(0, heard')
  BY <1>1, <1>5, <1>6, WholeAlso
<1>. HIDE DEF m
<1>8. /\ Up1' = EndOf(Ahead(m), c.rest) /\ Up2' = EndOf(EndOf(Ahead(m), c.rest), behind)
      /\ Up3' = Up2' /\ Up3 = Up2
  BY <1>1, <1>2, <1>7, NothingIsLinked DEF Up1, Up2, Up3
<1>9. Alike(Up3, Up3') /\ Up3 \in Gateway!Unit /\ Up3' \in Gateway!Unit
  BY <1>3, <1>5, <1>6, <1>8, EndIsUnit, MarkIs
<1>10. /\ Waiting(Up3', page) /\ Alike(WaitingEnd(Up3, page), WaitingEnd(Up3', page))
  BY <1>2, <1>9, WaitingAlike DEF UpLine
<1>11. SentUpTo(WaitingEnd(Up3', page), typed)
  BY <1>2, <1>10, SentAlike DEF UpLine
<1>12. ~offered => Unmarked(c.rest) /\ Unmarked(behind) /\ WaitingEnd(Up3', page) # Mark
  <2>1. ~offered => WaitingEnd(Up3, page) # Mark
    BY <1>2 DEF UpLine
  <2>2. WaitingEnd(Up3, page) # Mark => WaitingEnd(Up3', page) # Mark
    BY <1>10, MarkIs DEF Alike
  <2>3. ~offered => Unmarked(c.rest) /\ Unmarked(behind)
    BY <1>2, <1>5 DEF UpLine
  <2>. QED
    BY <2>1, <2>2, <2>3
<1>13. UpLine'
  BY <1>1, <1>2, <1>5, <1>7, <1>8, <1>10, <1>11, <1>12, NothingIsLinked DEF UpLine
<1>14. DownLine'
  BY <1>1, <1>2, DownKept
<1>. QED
  BY <1>1, <1>2, <1>7, <1>13, <1>14 DEF GatewayInv

LEMMA HostSendsInv ==
  ASSUME NEW length \in Lengths, GatewayInv, Gateway!HostSends(length)
  PROVE  GatewayInv'
<1>. USE DEF Gateway!HostSends
<1>. DEFINE m == Gateway!Message(drawn', length)
<1>1. gate # "none" /\ DownLine /\ drawn \in Nat /\ drawn' = drawn + 1 /\ length \in Nat \ {0}
  BY LengthsAssumption DEF GatewayInv
<1>2. /\ m[1] = [of |-> drawn + 1, at |-> 1, length |-> length]
      /\ m[Len(m)] = [of |-> drawn + 1, at |-> length, length |-> length]
      /\ IsWhole(m) /\ m # Gateway!Signal
  <2>1. m = [k \in 1 .. length |-> [of |-> drawn', at |-> k, length |-> length]]
    BY DEF Gateway!Message
  <2>2. \A k \in 1 .. length : m[k] = [of |-> drawn', at |-> k, length |-> length]
    BY <2>1
  <2>3. Len(m) = length /\ 1 \in 1 .. length /\ length \in 1 .. length
    BY <2>1, <1>1
  <2>4. IsWhole(m)
    BY <1>1 DEF IsWhole
  <2>5. m[1].at = 1 /\ Gateway!Signal[1].at = 0
    <3>1. m[1] = [of |-> drawn', at |-> 1, length |-> length]
      BY <2>2, <2>3
    <3>2. Gateway!Signal[1] = [of |-> 0, at |-> 0, length |-> 1]
      BY DEF Gateway!Signal
    <3>. HIDE DEF m
    <3>. QED
      BY <3>1, <3>2
  <2>. QED
    BY <1>1, <2>2, <2>3, <2>4, <2>5
<1>. HIDE DEF m
<1>3. Follows(Down2, m[1])
  <2>1. m[1].at = 1 /\ m[1].of = drawn + 1
    BY <1>2
  <2>. QED
    BY <1>1, <2>1 DEF DownLine, Follows
<1>4. m \in Units /\ Linked(Down2, m) /\ EndOf(Down2, m) = m[Len(m)] /\ Unmarked(m)
  BY <1>2, <1>3, WholeIsLinked
<1>5. downstream' = downstream \o m /\ downstream \in Units /\ tcpBuffer' = tcpBuffer /\ painted' = painted
  BY <1>1, LineTyped DEF m
<1>6. /\ Linked(Down1, downstream') /\ EndOf(Down1, downstream') = m[Len(m)]
      /\ Unmarked(downstream')
  <2>1. Linked(Down1, downstream) /\ Unmarked(downstream) /\ EndOf(Down1, downstream) = Down2
    BY <1>1 DEF DownLine, Down2
  <2>2. /\ Linked(Down1, downstream \o m) /\ EndOf(Down1, downstream \o m) = m[Len(m)]
        /\ Unmarked(downstream \o m)
    BY <2>1, <1>4, <1>5, LinkedBehind, Zenon
  <2>. QED
    BY <2>2, <1>5, Zenon
<1>7. Down1' = Down1 /\ Down2' = m[Len(m)]
  BY <1>5, <1>6 DEF Down1, Down2
<1>8. Ends(Down2') /\ Down2'.of = drawn'
  BY <1>1, <1>2, <1>7 DEF Ends
<1>9. DownLine'
  BY <1>1, <1>5, <1>6, <1>7, <1>8 DEF DownLine
<1>10. UpLine'
  BY <1>1, UpKept
<1>. QED
  BY <1>1, <1>9, <1>10 DEF GatewayInv

LEMMA TcpReadyReadInv ==
  ASSUME NEW n \in 1 .. Len(downstream), GatewayInv, Gateway!TcpReadyRead(n)
  PROVE  GatewayInv'
<1>. DEFINE c == Gateway!Cut(tcpBuffer \o SubSeq(downstream, 1, n))
            behind == SubSeq(downstream, n + 1, Len(downstream))
            m == Len(painted) + Len(c.messages)
<1>1. /\ gate = "open" /\ gate' = gate /\ downstream' = behind /\ tcpBuffer' = c.rest
      /\ painted' = painted \o c.messages
      /\ UNCHANGED <<page, pendingOut, upstream, hostBuffer, heard, typed, offered, drawn>>
  BY DEF Gateway!TcpReadyRead
<1>2. gate # "none" /\ DownLine
  BY <1>1 DEF GatewayInv
<1>3. /\ tcpBuffer \in Units /\ downstream \in Units /\ Len(painted) \in Nat
  BY <1>2, LineTyped
<1>4. /\ Linked(Ahead(Len(painted)), tcpBuffer)
      /\ Linked(EndOf(Ahead(Len(painted)), tcpBuffer), downstream)
      /\ Down2 = EndOf(EndOf(Ahead(Len(painted)), tcpBuffer), downstream)
      /\ Unmarked(tcpBuffer) /\ Unmarked(downstream)
      /\ Ends(Down2) /\ Down2.of = drawn
  BY <1>2 DEF DownLine, Down1, Down2
<1>5. /\ c \in Pieces /\ behind \in Units /\ m \in Nat
      /\ Stuck(c.rest) /\ WholeFrom(Len(painted), c.messages)
      /\ Linked(Ahead(m), c.rest) /\ Linked(EndOf(Ahead(m), c.rest), behind)
      /\ Alike(Down2, EndOf(EndOf(Ahead(m), c.rest), behind))
      /\ Unmarked(c.rest) /\ Unmarked(behind)
  BY <1>3, <1>4, ReadIsLinked
<1>. HIDE DEF c, behind
<1>6. /\ c.messages \in Seq(Units) /\ painted \in Seq(Units) /\ WholeFrom(0, painted)
  BY <1>5 DEF Pieces, GatewayInv
<1>7. /\ painted' \in Seq(Units) /\ Len(painted') = m /\ WholeFrom(0, painted')
  BY <1>1, <1>5, <1>6, WholeAlso
<1>. HIDE DEF m
<1>8. Down1' = EndOf(Ahead(m), c.rest) /\ Down2' = EndOf(EndOf(Ahead(m), c.rest), behind)
  BY <1>1, <1>7 DEF Down1, Down2
<1>9. Ends(Down2') /\ Down2'.of = drawn'
  BY <1>1, <1>4, <1>5, <1>8 DEF Alike
<1>10. DownLine'
  BY <1>1, <1>5, <1>7, <1>8, <1>9 DEF DownLine
<1>11. UpLine'
  BY <1>1, <1>2, UpKept
<1>. QED
  BY <1>1, <1>2, <1>7, <1>10, <1>11 DEF GatewayInv

LEMMA GatewayStepInv == GatewayInv /\ [Gateway!Next]_gateway => GatewayInv'
<1>. SUFFICES ASSUME GatewayInv, [Gateway!Next]_gateway PROVE GatewayInv'
  OBVIOUS
<1>1. CASE Gateway!Visit \/ Gateway!CloseSession \/ Gateway!TcpConnected \/ Gateway!Forward
           \/ Gateway!BrowserSignals
  BY <1>1, VisitInv, CloseInv, ConnectedInv, ForwardInv, BrowserSignalsInv
<1>2. CASE \E length \in Lengths : Gateway!BrowserSends(length) \/ Gateway!HostSends(length)
  BY <1>2, BrowserSendsInv, HostSendsInv
<1>3. CASE \E n \in 1 .. Len(upstream) : Gateway!HostReads(n)
  BY <1>3, HostReadsInv
<1>4. CASE \E n \in 1 .. Len(downstream) : Gateway!TcpReadyRead(n)
  BY <1>4, TcpReadyReadInv
<1>5. CASE UNCHANGED gateway
  BY <1>5 DEF gateway, GatewayInv, UpLine, DownLine, Up1, Up2, Up3, Down1, Down2, Nothing
<1>. QED
  BY <1>1, <1>2, <1>3, <1>4, <1>5 DEF Gateway!Next

\* A buffer that waits, behind which no message is missing, is empty.
LEMMA NothingKeptBack ==
  ASSUME NEW n \in Nat, NEW b \in Units, Linked(Ahead(n), b), Stuck(b), Unmarked(b),
         Ends(EndOf(Ahead(n), b))
  PROVE  b = <<>>
<1>. SUFFICES ASSUME b # <<>> PROVE FALSE
  OBVIOUS
<1>1. /\ Len(b) \in Nat /\ DOMAIN b = 1 .. Len(b) /\ 1 \in DOMAIN b /\ Len(b) \in 1 .. Len(b)
      /\ Head(b) = b[1]
  BY UnitsTyped
<1>2. b[1].at = 1
  <2>1. Follows(Ahead(n), b[1]) /\ b[1] # Mark
    BY <1>1 DEF Linked, Unmarked
  <2>2. Ahead(n) # Mark /\ ~(Ahead(n).at < Ahead(n).length)
    BY MarkIs DEF Ahead
  <2>. QED
    BY <2>1, <2>2 DEF Follows
<1>3. Len(b) < b[1].length
  BY <1>1, <1>2 DEF Stuck, Gateway!Starts
<1>4. b[Len(b)] = [of |-> n + 1, at |-> Len(b), length |-> b[1].length]
  <2>1. b[1].length \in Nat
    BY <1>1, UnitsTyped DEF Gateway!Unit
  <2>2. Len(b) <= b[1].length
    BY <1>1, <1>3, <2>1
  <2>. QED
    BY <1>1, <1>2, <2>2, MessageGoesOn
<1>5. Ends(b[Len(b)])
  BY DEF EndOf
<1>6. Len(b) = b[1].length
  BY <1>4, <1>5 DEF Ends
<1>. QED
  BY <1>1, <1>3, <1>6

LEMMA GatewayOrder == GatewayInv => Gateway!GatewayPasses
<1>. SUFFICES ASSUME GatewayInv PROVE Gateway!GatewayPasses
  OBVIOUS
<1>1. /\ heard \in Seq(Units) /\ painted \in Seq(Units) /\ Len(heard) \in Nat /\ Len(painted) \in Nat
      /\ \A k \in 1 .. Len(heard) : heard[k] = Gateway!Message(k, Head(heard[k]).length)
      /\ \A k \in 1 .. Len(painted) : painted[k] = Gateway!Message(k, Head(painted[k]).length)
  <2>1. heard \in Seq(Units) /\ painted \in Seq(Units)
    BY DEF GatewayInv
  <2>2. \A ms \in Seq(Units) : WholeFrom(0, ms) =>
          \A k \in 1 .. Len(ms) : ms[k] = Gateway!Message(k, Head(ms[k]).length)
    BY DEF WholeFrom
  <2>. QED
    BY <2>1, <2>2 DEF GatewayInv
<1>2. ASSUME gate = "open", page = <<>>, upstream = <<>>, ~offered
      PROVE  Len(heard) = typed
  <2>1. UpLine /\ pendingOut = <<>> /\ hostBuffer \in Units /\ gate # "none"
    BY <1>2, LineTyped DEF GatewayInv
  <2>2. Up3 = Up1 /\ WaitingEnd(Up3, page) = Up1
    BY <1>2, <2>1, NothingIsLinked DEF Up2, Up3
  <2>3. Ends(Up1) /\ Up1.of = typed
    BY <1>2, <2>1, <2>2 DEF UpLine, SentUpTo
  <2>4. hostBuffer = <<>>
    BY <1>1, <1>2, <2>1, <2>3, NothingKeptBack DEF UpLine, Up1
  <2>5. Up1 = Ahead(Len(heard))
    BY <2>4, NothingIsLinked DEF Up1
  <2>. QED
    BY <2>3, <2>5 DEF Ahead
<1>3. ASSUME gate = "open", downstream = <<>>
      PROVE  Len(painted) = drawn
  <2>1. DownLine /\ tcpBuffer \in Units /\ gate # "none"
    BY <1>3, LineTyped DEF GatewayInv
  <2>2. Down2 = Down1
    BY <1>3, NothingIsLinked DEF Down2
  <2>3. tcpBuffer = <<>>
    BY <1>1, <2>1, <2>2, NothingKeptBack DEF DownLine, Down1
  <2>4. Down1 = Ahead(Len(painted))
    BY <2>3, NothingIsLinked DEF Down1
  <2>. QED
    BY <2>1, <2>2, <2>4 DEF DownLine, Ahead
<1>. QED
  BY <1>1, <1>2, <1>3 DEF Gateway!GatewayPasses

LEMMA GatewayInitInv == Gateway!Init => GatewayInv
<1>. SUFFICES ASSUME Gateway!Init PROVE GatewayInv
  OBVIOUS
<1>1. /\ gate = "none" /\ page = <<>> /\ pendingOut = <<>> /\ upstream = <<>> /\ hostBuffer = <<>>
      /\ heard = <<>> /\ typed = 0 /\ offered = FALSE /\ downstream = <<>> /\ tcpBuffer = <<>>
      /\ painted = <<>> /\ drawn = 0
  BY DEF Gateway!Init
<1>2. <<>> \in Seq(Units) /\ WholeFrom(0, <<>>)
  BY DEF WholeFrom
<1>. QED
  BY <1>1, <1>2 DEF GatewayInv, Nothing

(* Messages come out of a stream whole, in the order sent and none twice,  *)
(* however it is cut, whatever is lost with a connection, and through the  *)
(* gateway as well.                                                        *)
(* (processBuffer, tcp_connection.cpp:243; onTcpReadyRead,                 *)
(* web_socket_gateway.cpp:216)                                             *)
THEOREM MessagesStayWhole == Spec => []NoMixedMessages
<1>. DEFINE IInv == TcpInv /\ GatewayInv
<1>1. Init => IInv
  BY TcpInitInv, GatewayInitInv DEF Init
<1>2. IInv /\ [Next]_vars => IInv'
  <2>. SUFFICES ASSUME IInv, [Next]_vars PROVE IInv'
    OBVIOUS
  <2>1. [Tcp!Next]_tcp /\ [Gateway!Next]_gateway
    BY DEF Next, vars, MailStep, KeysStep, TcpStep, ClipStep, FolderStep, ListingStep, DeskStep,
           InputStep, GatewayStep
  <2>. QED
    BY <2>1, TcpStepInv, GatewayStepInv
<1>3. IInv => NoMixedMessages
  BY TcpOrder, GatewayOrder DEF NoMixedMessages
<1>. QED
  BY <1>1, <1>2, <1>3, PTL DEF Spec
=============================================================================
