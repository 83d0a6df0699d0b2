--------------------------- MODULE MonitorSwitch ----------------------------
(***************************************************************************)
(* Which monitor a host shows: ScreenCapture of a Windows host             *)
(* (src/src/hw/screen_capture.cpp), switching and cycling in Host, and the *)
(* controls of the viewers.  The capture thread and the main thread do not *)
(* step into each other; thumbnails are left out (no viewer fills the list *)
(* they are made of), and so are the sizes an encoder is made again for.   *)
(***************************************************************************)
EXTENDS Naturals, Sequences, Functions, SequencesExt

CONSTANTS
  Viewers,
  Desktops,  \* what may be plugged in: sequences of monitors, the first one primary
  MaxFails,  \* m_dxFailCount that ends DXGI (10 in the code)
  MaxClicks, \* bound: what users press and pick
  MaxEvents  \* bound: monitors plugged, DXGI refusing, sessions and hosts that end

VARIABLES
  desktop,  \* the monitors that are there
  capture,  \* ScreenCapture: up (m_initialized), list (m_monitors), index, dxgi
            \* (m_useDxgi), output (what is duplicated), fails, fallback
  host,     \* running, active, paused, upcoming (m_autoSwitchNextIndex), known
  joined,   \* viewers with a session
  toHost, toViewer, \* viewer -> messages under way
  ui,       \* viewer -> its controls, see Controls
  clicks, events

links == <<joined, toHost, toViewer>>
vars == <<desktop, capture, host, links, ui, clicks, events>>

Event == events < MaxEvents /\ events' = events + 1

NoScreen == "none"
Screen(list, i) == list[i + 1]      \* monitors are numbered from 0
Indices(list) == {i - 1 : i \in DOMAIN list}

\* told: the last status; pressed: the pause button; count and current: the list of
\* monitors; switching: m_monitorSwitching, "stale" if of a session that is over.
Controls ==
  [told |-> "stopped", heard |-> FALSE, pressed |-> FALSE, count |-> 0, current |-> 0,
   switching |-> "no"]

\* A host before its capture thread has listed the monitors.
NotStarted ==
  [up |-> FALSE, list |-> <<>>, index |-> 0, dxgi |-> FALSE, output |-> NoScreen, fails |-> 0,
   fallback |-> FALSE]

\* A host that starts, or one that captures already, with DXGI or without.
Hosts ==
  /\ desktop \in Desktops
  /\ capture \in
       {NotStarted,
        [NotStarted EXCEPT !.up = TRUE, !.list = desktop],
        [NotStarted EXCEPT !.up = TRUE, !.list = desktop, !.dxgi = TRUE, !.output = Head(desktop)]}
  /\ host = [running |-> TRUE, active |-> FALSE, paused |-> FALSE, upcoming |-> 0,
             known |-> capture.list]
Nobody ==
  /\ joined = {}
  /\ toHost = [v \in Viewers |-> <<>>] /\ toViewer = [v \in Viewers |-> <<>>]
  /\ ui = [v \in Viewers |-> Controls]
Init == Hosts /\ Nobody /\ clicks = 0 /\ events = 0

-----------------------------------------------------------------------------
(* ScreenCapture.                                                          *)

\* initializeDxgi duplicates the first output and the one of the index, the last that
\* works stays; if neither does it tries again with index 0.
Duplicating(c, works) ==
  LET list == desktop
      index == IF c.index \in Indices(list) THEN c.index ELSE 0
      output == IF Screen(list, index) \in works THEN index ELSE 0
  IN  [c EXCEPT !.up = TRUE, !.dxgi = TRUE, !.list = list,
                !.output = Screen(list, output),
                !.index = IF Screen(list, output) \in works THEN index ELSE 0]
WithGdi(c) == [c EXCEPT !.up = TRUE, !.dxgi = FALSE, !.list = desktop, !.output = NoScreen]

Refused(c) == {Duplicating(c, works) : works \in SUBSET Range(desktop)} \cup {WithGdi(c)}

\* initialize, and shutdown, which forgets the list only if it was DXGI's.
Initialize(c) ==
  \/ capture' = Duplicating(c, Range(desktop)) /\ UNCHANGED events
  \/ Event /\ capture' \in Refused(c)

Down(c) ==
  IF c.up THEN [c EXCEPT !.up = FALSE, !.list = IF c.dxgi THEN <<>> ELSE @, !.output = NoScreen]
  ELSE c

CaptureStarts ==
  /\ host.running /\ ~capture.up
  /\ Initialize(capture)
  /\ UNCHANGED <<desktop, host, links, ui, clicks>>

\* The monitor a frame is of. GDI reads a display that is gone from the device context of
\* the whole desktop.
GdiFrame(c) ==
  LET s == Screen(c.list, c.index) IN IF s \in Range(desktop) THEN s ELSE Head(desktop)
WithDxgi(c) == c.dxgi /\ ~c.fallback
Shown(c) == IF WithDxgi(c) THEN c.output ELSE GdiFrame(c)

\* captureFrame of the capture thread. No change for 100 ms counts as a failure; after a
\* failure, and without DXGI, GDI captures.
GdiIndex(c) == [c EXCEPT !.index = IF @ \in Indices(c.list) THEN @ ELSE 0]
Grab ==
  /\ capture.up
  /\ \/ /\ WithDxgi(capture) /\ capture.output \in Range(desktop)
        /\ capture' = [capture EXCEPT !.fails = 0]
     \/ /\ WithDxgi(capture)
        /\ capture' = [GdiIndex(capture) EXCEPT
                         !.fails = @ + 1, !.fallback = capture.fails + 1 >= MaxFails]
     \/ ~WithDxgi(capture) /\ capture' = GdiIndex(capture)
  /\ UNCHANGED <<desktop, host, links, ui, clicks, events>>

\* switchMonitorSafe: the index is set before switchDxgiOutput, which returns at once
\* when it is the index already; without DXGI everything is started again.
HotSwitched(c, i) == [c EXCEPT !.index = i]
SwitchTo(i) ==
  IF i \notin Indices(capture.list) \/ i = capture.index
  THEN UNCHANGED <<capture, events>>
  ELSE
       /\ IF capture.dxgi
          THEN capture' = HotSwitched(capture, i) /\ UNCHANGED events
          ELSE Initialize(Down([capture EXCEPT !.index = i]))
Succeeds(i) == i \in Indices(capture.list)

-----------------------------------------------------------------------------
(* Host.  A status is sent to every viewer.                                *)

StateOf(h) == IF ~h.active THEN "stopped" ELSE IF h.paused THEN "paused" ELSE "active"
Status(h, c) == [kind |-> "status", state |-> StateOf(h), current |-> c.index]
MonitorList(list, c) == [kind |-> "list", count |-> Len(list), current |-> c.index]

Told(lines, m) == [v \in Viewers |-> IF v \in joined THEN Append(lines[v], m) ELSE lines[v]]

NextAfter(c, h) == (c.index + 1) % Len(h.known)

\* startAutoSwitch, stopAutoSwitch, pauseAutoSwitch, resumeAutoSwitch and
\* setAutoSwitchInterval: what an accepted command makes of the host, if it is accepted.
Accepted(kind) ==
  CASE kind = "start" -> ~host.active /\ Len(host.known) >= 2
    [] kind = "stop" -> host.active
    [] kind = "pause" -> host.active /\ ~host.paused
    [] kind = "resume" -> host.active /\ host.paused
    [] kind = "config" -> TRUE
Obeyed(kind) ==
  CASE kind = "start" ->
         [host EXCEPT !.active = TRUE, !.paused = FALSE, !.upcoming = NextAfter(capture, host)]
    [] kind = "stop" -> [host EXCEPT !.active = FALSE, !.paused = FALSE]
    [] kind = "pause" -> [host EXCEPT !.paused = TRUE]
    [] kind = "resume" -> [host EXCEPT !.paused = FALSE, !.upcoming = NextAfter(capture, host)]
    [] kind = "config" -> host

Read(v) == toHost' = [toHost EXCEPT ![v] = Tail(@)]

HostAnswersList(v) ==
  /\ toHost[v] # <<>> /\ Head(toHost[v]).kind = "list" /\ Read(v)
  /\ toViewer' = [toViewer EXCEPT ![v] = Append(@, MonitorList(capture.list, capture))]
  /\ UNCHANGED <<desktop, capture, host, joined, ui, clicks, events>>

HostSwitches(v) ==
  /\ toHost[v] # <<>> /\ Head(toHost[v]).kind = "switch" /\ Read(v)
  /\ LET i == Head(toHost[v]).index
     IN  /\ SwitchTo(i)
         /\ toViewer' = [toViewer EXCEPT
              ![v] = Append(@, [kind |-> "ack", success |-> Succeeds(i), index |-> i])]
  /\ UNCHANGED <<desktop, host, joined, ui, clicks>>

\* Mutant: only the viewer that asked is told.
HostObeysQuietly(v) ==
  /\ toHost[v] # <<>> /\ Head(toHost[v]).kind \notin {"list", "switch"} /\ Read(v)
  /\ LET kind == Head(toHost[v]).kind
     IN  IF Accepted(kind)
         THEN /\ host' = Obeyed(kind)
              /\ toViewer' = [toViewer EXCEPT ![v] = Append(@, Status(host', capture))]
         ELSE UNCHANGED <<host, toViewer>>
  /\ UNCHANGED <<desktop, capture, joined, ui, clicks, events>>

HostObeys(v) ==
  /\ toHost[v] # <<>> /\ Head(toHost[v]).kind \notin {"list", "switch"} /\ Read(v)
  /\ LET kind == Head(toHost[v]).kind
     IN  IF Accepted(kind)
         THEN /\ host' = Obeyed(kind)
              /\ toViewer' = Told(toViewer, Status(host', capture))
         ELSE UNCHANGED <<host, toViewer>>
  /\ UNCHANGED <<desktop, capture, joined, ui, clicks, events>>

HostReads(v) == HostAnswersList(v) \/ HostSwitches(v) \/ HostObeys(v)

\* Mutant: the next monitor is counted up and never starts over.
AutoSwitchStepOnce ==
  /\ host.running /\ host.active /\ ~host.paused
  /\ IF Len(host.known) < 2
     THEN /\ host' = Obeyed("stop")
          /\ toViewer' = Told(toViewer, Status(host', capture))
          /\ UNCHANGED <<capture, events>>
     ELSE /\ SwitchTo(host.upcoming)
          /\ host' = [host EXCEPT !.upcoming = IF @ < Len(host.known) THEN @ + 1 ELSE @]
          /\ UNCHANGED toViewer
  /\ UNCHANGED <<desktop, joined, toHost, ui, clicks>>

\* performAutoSwitchStep, at the timer: no status is sent.
AutoSwitchStep ==
  /\ host.running /\ host.active /\ ~host.paused
  /\ IF Len(host.known) < 2
     THEN /\ host' = Obeyed("stop")
          /\ toViewer' = Told(toViewer, Status(host', capture))
          /\ UNCHANGED <<capture, events>>
     ELSE /\ SwitchTo(host.upcoming)
          /\ host' = [host EXCEPT !.upcoming = (@ + 1) % Len(host.known)]
          /\ UNCHANGED toViewer
  /\ UNCHANGED <<desktop, joined, toHost, ui, clicks>>

\* checkMonitorChanges, at a timer.
CheckMonitorChanges ==
  /\ host.running /\ host.known # capture.list
  /\ host' = [host EXCEPT !.known = capture.list]
  /\ toViewer' = Told(toViewer, MonitorList(host'.known, capture))
  /\ UNCHANGED <<desktop, capture, joined, toHost, ui, clicks, events>>

Left(u) == [u EXCEPT !.switching = IF @ = "no" THEN @ ELSE "stale"]

\* stop closes the clients, start takes a snapshot of the monitors before the capture
\* thread has listed them.
HostStops ==
  /\ host.running /\ Event
  /\ capture' = Down(capture)
  /\ host' = [host EXCEPT !.running = FALSE, !.active = FALSE, !.paused = FALSE]
  /\ joined' = {}
  /\ toHost' = [v \in Viewers |-> <<>>] /\ toViewer' = [v \in Viewers |-> <<>>]
  /\ ui' = [v \in Viewers |-> Left(ui[v])]
  /\ UNCHANGED <<desktop, clicks>>

HostStarts ==
  /\ ~host.running
  /\ host' = [host EXCEPT !.running = TRUE, !.known = capture.list]
  /\ UNCHANGED <<desktop, capture, links, ui, clicks, events>>

-----------------------------------------------------------------------------
(* The viewers.                                                            *)

\* finishLogin asks for the monitors; the controls are as the last session left them.
Join(v) ==
  /\ host.running /\ v \notin joined
  /\ joined' = joined \cup {v}
  /\ toHost' = [toHost EXCEPT ![v] = <<[kind |-> "list"]>>]
  /\ ui' = [ui EXCEPT ![v].heard = FALSE]
  /\ UNCHANGED <<desktop, capture, host, toViewer, clicks, events>>

Leave(v) ==
  /\ v \in joined /\ Event
  /\ joined' = joined \ {v}
  /\ toHost' = [toHost EXCEPT ![v] = <<>>] /\ toViewer' = [toViewer EXCEPT ![v] = <<>>]
  /\ ui' = [ui EXCEPT ![v] = Left(@)]
  /\ UNCHANGED <<desktop, capture, host, clicks>>

Send(v, m) == toHost' = [toHost EXCEPT ![v] = Append(@, m)]
Click(v) == v \in joined /\ clicks < MaxClicks /\ clicks' = clicks + 1

\* An entry of the list of monitors is chosen, which asks unless a switch is under way.
PickMonitor(v, i) ==
  /\ Click(v)
  /\ ui[v].count > 1 /\ i < ui[v].count /\ i # ui[v].current
  /\ IF ui[v].switching = "no"
     THEN /\ Send(v, [kind |-> "switch", index |-> i])
          /\ ui' = [ui EXCEPT ![v].current = i, ![v].switching = "yes"]
     ELSE ui' = [ui EXCEPT ![v].current = i] /\ UNCHANGED toHost
  /\ UNCHANGED <<desktop, capture, host, joined, toViewer, events>>

Buttons ==
  {"start", "stop", "pause", "resume", "config"}
Enabled(u, kind) ==
  CASE kind = "start" -> u.told = "stopped"
    [] kind = "stop" -> u.told # "stopped"
    [] kind = "pause" -> u.told # "stopped" /\ ~u.pressed
    [] kind = "resume" -> u.told # "stopped" /\ u.pressed
    [] kind = "config" -> u.told # "active"

PressButton(v, kind) ==
  /\ Click(v) /\ Enabled(ui[v], kind)
  /\ Send(v, [kind |-> kind])
  /\ ui' = [ui EXCEPT ![v].pressed = IF kind \in {"pause", "resume"} THEN ~@ ELSE @]
  /\ UNCHANGED <<desktop, capture, host, joined, toViewer, events>>

\* A list is filled anew, blocked signals ask for nothing.
Shows(u, i) == IF i < u.count THEN [u EXCEPT !.current = i] ELSE u
ShowsList(u, m) ==
  LET filled == [u EXCEPT !.count = m.count, !.current = 0]
  IN  IF m.count > 1 THEN Shows(filled, m.current) ELSE filled
ShowsAck(u, m) == Shows([u EXCEPT !.switching = "no"], m.index)
ShowsStatus(u, m) ==
  Shows([u EXCEPT !.told = m.state, !.heard = TRUE, !.pressed = m.state = "paused"], m.current)

ViewerReads(v) ==
  /\ toViewer[v] # <<>>
  /\ LET m == Head(toViewer[v])
     IN  ui' = [ui EXCEPT ![v] = CASE m.kind = "list" -> ShowsList(@, m)
                                   [] m.kind = "ack" -> ShowsAck(@, m)
                                   [] m.kind = "status" -> ShowsStatus(@, m)]
  /\ toViewer' = [toViewer EXCEPT ![v] = Tail(@)]
  /\ UNCHANGED <<desktop, capture, host, joined, toHost, clicks, events>>

Plug ==
  /\ Event
  /\ desktop' \in Desktops \ {desktop}
  /\ UNCHANGED <<capture, host, links, ui, clicks>>

Next ==
  \/ CaptureStarts \/ Grab
  \/ AutoSwitchStep \/ CheckMonitorChanges \/ HostStops \/ HostStarts \/ Plug
  \/ \E v \in Viewers :
       \/ HostReads(v) \/ ViewerReads(v)
       \/ Join(v) \/ Leave(v)
       \/ \E i \in 0..ui[v].count : PickMonitor(v, i)
       \/ \E kind \in Buttons : PressButton(v, kind)

\* The timers of a running host fire, and what arrives is read.
Fairness ==
  /\ WF_vars(CaptureStarts) /\ WF_vars(AutoSwitchStep) /\ WF_vars(CheckMonitorChanges)
  /\ \A v \in Viewers :
       /\ WF_vars(HostReads(v))
       /\ WF_vars(ViewerReads(v))

Spec == Init /\ [][Next]_vars /\ Fairness

-----------------------------------------------------------------------------
(* Properties.                                                             *)

\* When nothing is under way between the host and a viewer that was told of the automatic
\* switching, its controls show what the host does: whoever changed it, all were told, and a
\* button pressed at the same time is set back.
AutoSwitchTold ==
  \A v \in joined :
    ui[v].heard /\ toHost[v] = <<>> /\ toViewer[v] = <<>> =>
      /\ ui[v].told = StateOf(host)
      /\ ui[v].pressed = (StateOf(host) = "paused")

\* While a host switches automatically, every monitor has its turn, whatever viewers pick
\* in between and whatever was plugged before.
Cycling ==
  host.running /\ host.active /\ ~host.paused /\ Len(host.known) >= 2 /\ host.known = capture.list
MonitorsInTurn ==
  \A i \in UNION {Indices(d) : d \in Desktops} :
    <>[]Cycling => []<>(i \in Indices(host.known) => capture.index = i)

\* The frames are of the monitor of the index, so that a switch shows what its
\* acknowledgement says (switchDxgiOutput swaps the duplication).
SwitchShows == capture.up => Shown(capture) = Screen(capture.list, capture.index)
=============================================================================
