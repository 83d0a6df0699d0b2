--------------------------- MODULE ClipboardSync ----------------------------
(***************************************************************************)
(* The clipboards of a host and its controllers, kept the same by the      *)
(* ClipboardManager of each (src/src/app/clipboard_manager.cpp) and by the *)
(* host, which passes a controller's copy on to the others                 *)
(* (src/src/app/host.cpp).  A manager remembers the content it last sent   *)
(* or was given; the change signal of the system and a timer both look for *)
(* a content that differs.  What the system gives back need not be what    *)
(* was set: line ends and images are written anew.                         *)
(***************************************************************************)
EXTENDS Naturals, Sequences

CONSTANTS
  Viewers,    \* controllers
  Texts,      \* contents
  Kept(_),    \* what the system gives back of a content set
  MaxCopies,  \* bound: copies by users
  MaxDrops    \* bound: connections that end

VARIABLES
  clip,       \* side -> content of the system clipboard
  last,       \* side -> m_lastClipboardData
  monitoring, \* sides whose timer runs
  toHost, toViewer, \* viewer -> contents under way
  attached,   \* viewers with an authenticated connection
  permitted,  \* viewers with the capability Clipboard
  apart,      \* a copy was made too early or too late to be told to all
  copies, drops

vars == <<clip, last, monitoring, toHost, toViewer, attached, permitted, apart, copies, drops>>

Nothing == "nothing"
Sides == {"host"} \cup Viewers

Changed(s) == s \in monitoring /\ clip[s] \notin {Nothing, last[s]}
Quiet ==
  /\ \A v \in Viewers : toHost[v] = <<>> /\ toViewer[v] = <<>>
  /\ \A s \in Sides : ~Changed(s)

Init ==
  /\ clip = [s \in Sides |-> Nothing]
  /\ last = [s \in Sides |-> Nothing] /\ monitoring = {"host"}
  /\ toHost = [v \in Viewers |-> <<>>] /\ toViewer = [v \in Viewers |-> <<>>]
  /\ attached = {} /\ permitted \in SUBSET Viewers
  /\ apart = TRUE /\ copies = 0 /\ drops = 0

\* The content is sent to every viewer but one: the capability is not looked at.
Told(but, t) ==
  [v \in Viewers |-> IF v \in attached \ {but} THEN Append(toViewer[v], t) ELSE toViewer[v]]

-----------------------------------------------------------------------------
\* A copy, or a clipboard emptied, by the user or a program of a side.
Copy(s, t) ==
  /\ copies < MaxCopies /\ copies' = copies + 1
  /\ clip' = [clip EXCEPT ![s] = t]
  /\ apart' = (\/ ~Quiet \/ attached # Viewers \/ t = Nothing
               \/ s \in Viewers \ permitted
               \/ apart /\ t = last[s])
  /\ UNCHANGED <<last, monitoring, toHost, toViewer, attached, permitted, drops>>

\* onClipboardChanged and onCheckTimer: what is not connected is told nothing
\* and the content counts as sent.
Notice(s) ==
  /\ Changed(s)
  /\ last' = [last EXCEPT ![s] = clip[s]]
  /\ IF s = "host"
     THEN toViewer' = Told("host", clip[s]) /\ UNCHANGED toHost
     ELSE /\ toHost' = IF s \in attached THEN [toHost EXCEPT ![s] = Append(@, clip[s])] ELSE toHost
          /\ UNCHANGED toViewer
  /\ UNCHANGED <<clip, monitoring, attached, permitted, apart, copies, drops>>

\* applyRemoteClipboard: the change it makes itself is not taken for a copy.
ApplyRemote(s, t) ==
  /\ clip' = [clip EXCEPT ![s] = Kept(t)]
  /\ last' = [last EXCEPT ![s] = t]

\* Mutant: the host keeps what a viewer copied to itself.
HostReceivesAlone(v) ==
  /\ toHost[v] # <<>>
  /\ toHost' = [toHost EXCEPT ![v] = Tail(@)]
  /\ IF v \in permitted
     THEN ApplyRemote("host", Head(toHost[v])) /\ UNCHANGED toViewer
     ELSE UNCHANGED <<clip, last, toViewer>>
  /\ UNCHANGED <<monitoring, attached, permitted, apart, copies, drops>>

\* CLIPBOARD_DATA at the host: applied, and passed on to the others.
HostReceives(v) ==
  /\ toHost[v] # <<>>
  /\ toHost' = [toHost EXCEPT ![v] = Tail(@)]
  /\ IF v \in permitted
     THEN ApplyRemote("host", Head(toHost[v])) /\ toViewer' = Told(v, Head(toHost[v]))
     ELSE UNCHANGED <<clip, last, toViewer>>
  /\ UNCHANGED <<monitoring, attached, permitted, apart, copies, drops>>

\* The handler setConnection installs.
ViewerReceives(v) ==
  /\ toViewer[v] # <<>>
  /\ toViewer' = [toViewer EXCEPT ![v] = Tail(@)]
  /\ ApplyRemote(v, Head(toViewer[v]))
  /\ UNCHANGED <<monitoring, toHost, attached, permitted, apart, copies, drops>>

\* The session starts: monitoring too, and what lies on the viewer's clipboard
\* is the first change; the host's is not sent.
Attach(v) ==
  /\ v \notin attached
  /\ attached' = attached \cup {v} /\ monitoring' = monitoring \cup {v}
  /\ apart' = TRUE
  /\ UNCHANGED <<clip, last, toHost, toViewer, permitted, copies, drops>>

\* The monitoring goes on.
Detach(v) ==
  /\ v \in attached /\ drops < MaxDrops /\ drops' = drops + 1
  /\ attached' = attached \ {v}
  /\ toHost' = [toHost EXCEPT ![v] = <<>>] /\ toViewer' = [toViewer EXCEPT ![v] = <<>>]
  /\ apart' = TRUE
  /\ UNCHANGED <<clip, last, monitoring, permitted, copies>>

Next ==
  \/ \E s \in Sides, t \in Texts \cup {Nothing} : Copy(s, t)
  \/ \E s \in Sides : Notice(s)
  \/ \E v \in Viewers : HostReceives(v) \/ ViewerReceives(v) \/ Attach(v) \/ Detach(v)

\* The timers fire and what arrives is read.
Fairness ==
  /\ \A s \in Sides : WF_vars(Notice(s))
  /\ \A v \in Viewers : WF_vars(HostReceives(v)) /\ WF_vars(ViewerReceives(v))

Spec == Init /\ [][Next]_vars /\ Fairness

-----------------------------------------------------------------------------
(* A copy comes to rest: nobody takes a change it was told of for a copy   *)
(* of its own and sends it round for ever, even if the system changes what *)
(* is set; and when the copy was made with everything at rest and everyone *)
(* connected, all clipboards are the same in the end, up to what the       *)
(* system changes.  (Copies that cross swap the clipboards and stay so.)   *)
(* (applyRemoteClipboard, clipboard_manager.cpp:71; host.cpp:2352)         *)
AllSame == \A s \in Sides : Kept(clip[s]) = Kept(clip["host"])
ClipboardsSettle == <>[](Quiet /\ (apart \/ AllSame))
=============================================================================
