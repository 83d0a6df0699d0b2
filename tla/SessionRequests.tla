--------------------------- MODULE SessionRequests ---------------------------
(***************************************************************************)
(* What a controller asks of a host during a session besides frames, and   *)
(* what the host does and answers: Host::processClientMessage, one branch  *)
(* per kind of message, RemoteController's senders and its processMessage, *)
(* RemoteTerminal, and the widgets that ask and show.                      *)
(* The connection keeps the order of each direction; payloads are left     *)
(* out but for what is said in the chat and which way a switch goes.       *)
(***************************************************************************)
EXTENDS Naturals, Sequences, FiniteSets, SequencesExt

CONSTANTS
  Controllers,    \* sessions, authenticated and active from the start
  AskedFor,       \* the kinds of requests a window makes in a behaviour
  Switchable,     \* the capabilities the host's user takes and gives back
  ShellsStart,    \* whether a shell always starts
  MaxAsks, MaxSwitches

VARIABLES
  joined, caps,               \* m_clients, and what each session may do
  shells,                     \* m_terminals: a running shell, or a null pointer left behind
  recorder, switches,         \* m_recorder; camera, sound, m_privacyScreenEnabled
  mask, overlay,              \* m_privacyScreen, m_annotationOverlay: what covers the host's screen
  up, going,                  \* the host's program runs; the machine was told to go down
  requests, answers,          \* the two directions of each connection
  chat,                       \* the chat window of each controller
  waiting, asks, flips        \* requests not yet answered; counters of the bounds

host == <<shells, recorder, switches, mask, overlay>>
sessionVars ==
  <<joined, caps, host, up, going, requests, answers, chat, waiting, asks, flips>>

-----------------------------------------------------------------------------
(* The kinds of messages, and the capability the host asks for first.      *)
Under(kinds, c) == [k \in kinds |-> c]

TerminalKinds == Under({"TERMINAL_START", "TERMINAL_INPUT"}, "Terminal")
ChatKinds == Under({"CHAT_MESSAGE"}, "Chat")
NoteKinds == Under({"VOICE_MSG", "VIDEO_MSG", "LOCATION_MSG", "CARD_MSG", "MERGE_FORWARD"}, "Chat")
CallKinds ==
  Under({"CALL_INVITE", "CALL_ACCEPT", "CALL_REJECT", "CALL_END", "ICE_CANDIDATE",
         "VIDEO_CALL_START", "VIDEO_CALL_STOP", "SCREEN_SHARE_START", "SCREEN_SHARE_STOP"}, "Calls")
GroupKinds ==
  Under({"GROUP_ANNOUNCEMENT", "GROUP_MENTION", "GROUP_VOTE", "GROUP_FILE", "GROUP_ALBUM",
         "GROUP_TODO", "GROUP_TODO_UPDATE"}, "Chat")
DeskKinds ==
  [FILE_BROWSER_REQ |-> "FileRead", FILE_OP_REQ |-> "FileWrite", SYSINFO_REQ |-> "SysInfo",
   PROCESS_LIST_REQ |-> "ProcessView", PROCESS_KILL_REQ |-> "ProcessManage",
   PROCESS_START_REQ |-> "ProcessManage"]
DrawKinds == Under({"ANNOTATION_UPDATE", "ANNOTATION_CLEAR"}, "Annotation")
PowerKinds == Under({"POWER_COMMAND"}, "PowerControl")
Needs ==
  TerminalKinds @@ ChatKinds @@ NoteKinds @@ CallKinds @@ GroupKinds @@ DeskKinds @@ DrawKinds
    @@ PowerKinds

\* Dropped without a word from a session without the capability.
Streams == Under({"AUDIO_DATA", "VIDEO_CALL_FRAME", "SCREEN_SHARE_FRAME"}, "Calls")

\* Done for every session.
SwitchKinds ==
  [CAMERA_MODE |-> "camera", AUDIO_START |-> "sound", PRIVACY_SCREEN |-> "privacy"]
FreeKinds ==
  {"HEARTBEAT", "SCREENSHOT_REQ", "RECORD_START", "RECORD_STOP", "SET_QUALITY"}
    \cup DOMAIN SwitchKinds

\* The message that answers each kind that is always answered.
NoteAnswers ==
  [VOICE_MSG |-> "VOICE_ACK", VIDEO_MSG |-> "VIDEO_ACK", LOCATION_MSG |-> "LOCATION_ACK",
   CARD_MSG |-> "CARD_ACK", MERGE_FORWARD |-> "MERGE_FORWARD_ACK"]
DeskAnswers ==
  [FILE_BROWSER_REQ |-> "FILE_BROWSER_RESP", FILE_OP_REQ |-> "FILE_OP_RESP",
   SYSINFO_REQ |-> "SYSINFO_RESP", PROCESS_LIST_REQ |-> "PROCESS_LIST_RESP",
   PROCESS_KILL_REQ |-> "PROCESS_KILL_RESP", PROCESS_START_REQ |-> "PROCESS_START_RESP"]
PlainAnswers ==
  [k \in DOMAIN NoteAnswers \cup DOMAIN DeskAnswers \cup {"HEARTBEAT"} |->
     CASE k \in DOMAIN NoteAnswers -> NoteAnswers[k]
       [] k \in DOMAIN DeskAnswers -> DeskAnswers[k]
       [] OTHER -> "HEARTBEAT_RESP"]
Answered == DOMAIN PlainAnswers \cup {"CHAT_MESSAGE", "RECORD_START", "RECORD_STOP"}

(* What a controller has a way to ask.                                     *)
ShellRequests == {"TERMINAL_START", "TERMINAL_INPUT"}
TalkRequests == {"SCREENSHOT_REQ"} \cup DOMAIN ChatKinds \cup DOMAIN NoteKinds
CallRequests == {"CALL_INVITE", "CALL_ACCEPT", "CALL_REJECT", "CALL_END", "ICE_CANDIDATE"}
RecordRequests == {"RECORD_START", "RECORD_STOP", "CAMERA_MODE", "AUDIO_START", "AUDIO_DATA"}
ScreenRequests == {"POWER_COMMAND", "PRIVACY_SCREEN", "SET_QUALITY"} \cup DOMAIN DrawKinds
DeskRequests == DOMAIN DeskKinds \cup {"HEARTBEAT"}
Offered ==
  ShellRequests \cup TalkRequests \cup CallRequests \cup RecordRequests \cup ScreenRequests
    \cup DeskRequests

-----------------------------------------------------------------------------
Init ==
  /\ joined = Controllers
  /\ caps = [c \in Controllers |->
               {Needs[k] : k \in DOMAIN Needs} \cup {"Calls", "ViewScreen"}]
  /\ shells = [c \in {} |-> "runs"]
  /\ recorder = FALSE
  /\ switches = [s \in {"camera", "sound", "privacy"} |-> s = "sound"]
  /\ mask = FALSE
  /\ overlay = FALSE
  /\ up = TRUE
  /\ going = FALSE
  /\ requests = [c \in Controllers |-> <<>>]
  /\ answers = [c \in Controllers |-> <<>>]
  /\ chat = [c \in Controllers |-> <<>>]
  /\ waiting = [c \in Controllers |-> {}]
  /\ asks = 0
  /\ flips = 0

-----------------------------------------------------------------------------
(* The controller.                                                         *)

Id(c) == <<c, asks + 1>>

Send(c, kind, on) ==
  /\ requests' = [requests EXCEPT ![c] = Append(@, [kind |-> kind, id |-> Id(c), on |-> on])]
  /\ waiting' = [waiting EXCEPT ![c] = IF kind \in Answered THEN @ \cup {Id(c)} ELSE @]
  /\ asks' = asks + 1

Shown(c, line) == [chat EXCEPT ![c] = Append(@, line)]

\* A button, a timer, a typed line: what is said appears in the own window at once.
Ask(c, kind, on) ==
  /\ c \in joined /\ asks < MaxAsks
  /\ on \/ kind \in DOMAIN SwitchKinds
  /\ Send(c, kind, on)
  /\ chat' = IF kind = "CHAT_MESSAGE" THEN Shown(c, <<"Me", Id(c)>>) ELSE chat
  /\ UNCHANGED <<joined, caps, host, up, going, answers, flips>>

\* After a process was ended or started the window asks for the list again.
Follows(kind) == kind \in {"PROCESS_KILL_RESP", "PROCESS_START_RESP"}

ControllerReadsNewest(c) ==
  LET a == Last(answers[c])
  IN /\ c \in joined /\ answers[c] # <<>>
     /\ answers' = [answers EXCEPT ![c] = Front(@)]
     /\ chat' = IF a.kind = "CHAT_MESSAGE" THEN Shown(c, <<"Host", a.id>>) ELSE chat
     /\ waiting' = [waiting EXCEPT ![c] = @ \ {a.id}]
     /\ UNCHANGED <<joined, caps, host, up, going, requests, asks, flips>>
ControllerReads(c) ==
  LET a == Head(answers[c])
      again == Follows(a.kind) /\ asks < MaxAsks
  IN /\ c \in joined /\ answers[c] # <<>>
     /\ answers' = [answers EXCEPT ![c] = Tail(@)]
     /\ chat' = IF a.kind = "CHAT_MESSAGE" THEN Shown(c, <<"Host", a.id>>) ELSE chat
     /\ requests' = IF again
                    THEN [requests EXCEPT ![c] =
                            Append(@, [kind |-> "PROCESS_LIST_REQ", id |-> Id(c), on |-> TRUE])]
                    ELSE requests
     /\ waiting' = [waiting EXCEPT ![c] = (@ \ {a.id}) \cup (IF again THEN {Id(c)} ELSE {})]
     /\ asks' = IF again THEN asks + 1 ELSE asks
     /\ UNCHANGED <<joined, caps, host, up, going, flips>>

-----------------------------------------------------------------------------
(* The host: one message of one session.                                   *)

To(c, kind, r) == [answers EXCEPT ![c] = Append(@, [kind |-> kind, id |-> r.id])]

Refused(c, r) == r.kind \in DOMAIN Needs /\ Needs[r.kind] \notin caps[c]

RefuseQuietly(c, r) ==
  /\ Refused(c, r)
  /\ UNCHANGED <<host, up, going, answers>>
Refuse(c, r) ==
  /\ Refused(c, r)
  /\ answers' = To(c, "PERMISSION_DENIED", r)
  /\ UNCHANGED <<host, up, going>>

Answer(c, r) ==
  /\ r.kind \in DOMAIN PlainAnswers
  /\ answers' = To(c, PlainAnswers[r.kind], r)
  /\ UNCHANGED <<host, up, going>>

\* Calls, groups and sound are handed to the host's window, and the quality to the encoder.
Hear(r) ==
  /\ r.kind \in DOMAIN Streams \cup DOMAIN CallKinds \cup DOMAIN GroupKinds \cup {"SET_QUALITY"}
  /\ UNCHANGED <<host, up, going, answers>>

\* A picture only if the capture gave a frame.
Screenshot(c, r) ==
  /\ r.kind = "SCREENSHOT_REQ"
  /\ answers' \in {answers, To(c, "SCREENSHOT_RESP", r)}
  /\ UNCHANGED <<host, up, going>>

\* What one says is written to every session, the speaker's too.
Chat(r) ==
  /\ r.kind = "CHAT_MESSAGE"
  /\ answers' = [d \in Controllers |->
                   IF d \in joined THEN Append(answers[d], [kind |-> r.kind, id |-> r.id])
                   ELSE answers[d]]
  /\ UNCHANGED <<host, up, going>>

\* A recording begins by ending the one before, also if its own file cannot be opened.
Record(c, r) ==
  /\ r.kind = "RECORD_START"
  /\ recorder' \in BOOLEAN
  /\ answers' = To(c, "RECORD_ACK", r)
  /\ UNCHANGED <<shells, switches, mask, overlay, up, going>>

StopRecord(c, r) ==
  /\ r.kind = "RECORD_STOP"
  /\ recorder' = FALSE
  /\ switches' = [switches EXCEPT !["camera"] = FALSE]
  /\ answers' = To(c, "RECORD_ACK", r)
  /\ UNCHANGED <<shells, mask, overlay, up, going>>

\* The camera is switched on only if there is one.
Camera(on) == IF on THEN {TRUE, switches["camera"]} ELSE {FALSE}

\* The mask shows as soon as it is asked for.
Switch(r) ==
  /\ r.kind \in DOMAIN SwitchKinds
  /\ LET s == SwitchKinds[r.kind]
     IN \E on \in IF s = "camera" THEN Camera(r.on) ELSE {r.on} : switches' = [switches EXCEPT ![s] = on]
  /\ mask' = IF r.kind = "PRIVACY_SCREEN" THEN r.on ELSE mask
  /\ UNCHANGED <<shells, recorder, overlay, up, going, answers>>

Draw(r) ==
  /\ r.kind \in DOMAIN DrawKinds
  /\ overlay' = (r.kind = "ANNOTATION_UPDATE")
  /\ UNCHANGED <<shells, recorder, switches, mask, up, going, answers>>

Power(r) ==
  /\ r.kind = "POWER_COMMAND"
  /\ going' \in BOOLEAN /\ (going => going')
  /\ UNCHANGED <<host, up, answers>>

Told(c, r) == IF c \in joined THEN To(c, "TERMINAL_OUTPUT", r) ELSE answers
Runs(c) == c \in DOMAIN shells /\ shells[c] = "runs"
Starts == IF ShellsStart THEN {TRUE} ELSE BOOLEAN
Without(c) == [d \in DOMAIN shells \ {c} |-> shells[d]]

\* A shell that is stopped while it runs says so.
Ended(c) == Runs(c)

\* Stopping the old shell ends its process, whose end takes the entry away; looking
\* the entry up once more puts a null pointer there, which the new shell replaces.
StartShell(c, r) ==
  /\ r.kind = "TERMINAL_START"
  /\ up' = (c \in DOMAIN shells => Runs(c))
  /\ \E starts \in Starts :
       /\ shells' = IF starts THEN (c :> "runs") @@ shells
                    ELSE IF c \in DOMAIN shells THEN (c :> "null") @@ shells ELSE shells
       /\ answers' = IF Ended(c) \/ ~starts THEN Told(c, r) ELSE answers
  /\ UNCHANGED <<recorder, switches, mask, overlay, going>>

\* The line goes to every shell there is: a null pointer among them ends the host.
FeedShells(r) ==
  /\ r.kind = "TERMINAL_INPUT"
  /\ up' = \A c \in DOMAIN shells : Runs(c)
  /\ UNCHANGED <<host, going, answers>>

HostReads(c) ==
  LET r == Head(requests[c])
  IN /\ up /\ c \in joined /\ requests[c] # <<>>
     /\ requests' = [requests EXCEPT ![c] = Tail(@)]
     /\ \/ Refuse(c, r)
        \/ /\ ~Refused(c, r)
           /\ \/ Answer(c, r) \/ Hear(r) \/ Screenshot(c, r) \/ Chat(r)
              \/ Record(c, r) \/ StopRecord(c, r) \/ Switch(r) \/ Draw(r) \/ Power(r)
              \/ StartShell(c, r) \/ FeedShells(r)
     /\ UNCHANGED <<joined, caps, chat, waiting, asks, flips>>

\* A shell ends by itself: its session is told and the entry goes.
ShellEnds(c) ==
  /\ up /\ Runs(c)
  /\ shells' = Without(c)
  /\ answers' = Told(c, [id |-> <<c, 0>>])
  /\ UNCHANGED <<joined, caps, recorder, switches, mask, overlay, up, going, requests, chat,
                 waiting, asks, flips>>

-----------------------------------------------------------------------------
(* Sessions change and end.                                                *)

RecoverLate(watching, drawn) ==
  /\ mask' = IF switches["privacy"] THEN mask \/ watching # {} ELSE mask
  /\ overlay' = (drawn /\ (switches["privacy"] => watching # {}))
\* The covers of the screen after the set of sessions that see it has changed.
Recover(watching, drawn) ==
  /\ mask' = IF switches["privacy"] THEN watching # {} ELSE mask
  /\ overlay' = (drawn /\ (switches["privacy"] => watching # {}))

\* The host's user takes a capability from everyone, or gives it back.
Recap(cap) ==
  LET now == [c \in Controllers |-> IF \A d \in joined : cap \in caps[d]
                                    THEN caps[c] \ {cap} ELSE caps[c] \cup {cap}]
  IN /\ up /\ joined # {} /\ cap \in Switchable /\ flips < MaxSwitches
     /\ flips' = flips + 1
     /\ caps' = now
     /\ Recover({c \in joined : "ViewScreen" \in now[c]}, overlay)
     /\ UNCHANGED <<joined, shells, recorder, switches, up, going, requests, answers, chat,
                    waiting, asks>>

\* A session ends: its shell runs on, its drawing goes, everyone else's too.
Leave(c) ==
  /\ up /\ c \in joined
  /\ joined' = joined \ {c}
  /\ requests' = [requests EXCEPT ![c] = <<>>]
  /\ answers' = [answers EXCEPT ![c] = <<>>]
  /\ Recover({d \in joined' : "ViewScreen" \in caps[d]}, FALSE)
  /\ UNCHANGED <<caps, shells, recorder, switches, up, going, chat, waiting, asks, flips>>

\* The machine goes down as it was told.
HostGoes ==
  /\ up /\ going
  /\ up' = FALSE
  /\ UNCHANGED <<joined, caps, host, going, requests, answers, chat, waiting, asks, flips>>

Step ==
  \/ \E c \in Controllers : HostReads(c) \/ ControllerReads(c) \/ ShellEnds(c) \/ Leave(c)
  \/ \E c \in Controllers, k \in Offered \cap AskedFor, on \in BOOLEAN : Ask(c, k, on)
  \/ \E cap \in Switchable : Recap(cap)
  \/ HostGoes

-----------------------------------------------------------------------------
(* Two windows that show the same two lines of the chat show them in the   *)
(* same order: the host is where they are put in one.                      *)
FromHost(line) == line[1] = "Host"
ChatSameOrder ==
  \A c, d \in Controllers : \A i, j \in DOMAIN chat[c], k, l \in DOMAIN chat[d] :
    (/\ FromHost(chat[c][i]) /\ chat[c][i] = chat[d][k]
     /\ FromHost(chat[c][j]) /\ chat[c][j] = chat[d][l]) => (i < j <=> k < l)

(* Nothing covers the host's screen when every session has ended, whoever  *)
(* asked for it and in whatever order they went.                           *)
UncoveredWhenAlone == mask \/ overlay => joined # {}

(* A request that is to be answered is answered or refused, whatever       *)
(* capabilities change meanwhile, unless the session ends or the host's     *)
(* machine was told to go down: nothing that is asked ends the host.        *)
RequestsSettle ==
  \A c \in Controllers : waiting[c] # {} ~> (waiting[c] = {} \/ c \notin joined \/ going)
=============================================================================
