--------------------------- MODULE InputForwarding ---------------------------
(***************************************************************************)
(* Mouse buttons and keys that a user holds on the picture of a host, and  *)
(* what is held down at the host for it: RemoteDesktopWidget's event       *)
(* handlers, RemoteController's senders, Host::processMouseEvent and       *)
(* processKeyEvent, and InputControl on Windows.  Positions, the wheel and *)
(* the pointer are left out.                                               *)
(***************************************************************************)
EXTENDS Naturals, Sequences, FiniteSets, Functions

CONSTANTS
  Controllers,
  Things,       \* what users press: some of Mouse and Keyboard
  FrameFirst,   \* nothing is pressed before the first frame of a session is shown
  MaxMoves

VARIABLES
  widget,       \* controller -> the fields of its widget that matter here
  pressed,      \* controller -> what its user holds
  wire,         \* controller -> events on their way to the host
  may,          \* controllers whose session has ControlInput
  held,         \* what is down at the host
  excused,      \* what went up out of the host's sight
  moves

inputVars == <<widget, pressed, wire, may, held, excused, moves>>

Mouse == {"left", "right", "extra"}
Keyboard == {"shift", "a"}
\* The first button stands for those the protocol has no name for.
Button(t) == IF t = "extra" THEN "left" ELSE t
\* A key with a text is not held: the text is put in, down and up at once.
Typed == {"a"}

Init ==
  /\ widget = [c \in Controllers |->
       [active |-> TRUE, drawing |-> FALSE, stroke |-> FALSE, frame |-> FALSE, forward |-> TRUE]]
  /\ pressed = [c \in Controllers |-> {}]
  /\ wire = [c \in Controllers |-> <<>>]
  /\ may = Controllers
  /\ held = {} /\ excused = {}
  /\ moves = 0

-----------------------------------------------------------------------------
(* The user and the widget.                                                *)

Move == moves < MaxMoves /\ moves' = moves + 1

\* sendMouseEvent, sendKeyEvent: dropped while the input is not taken over.
Forwards(c) == widget[c].active /\ widget[c].forward
Sent(c, t, down) ==
  IF Forwards(c)
  THEN [wire EXCEPT ![c] = Append(@, [what |-> Button(t), down |-> down, text |-> t \in Typed])]
  ELSE wire

\* While drawing, a press begins a stroke of the pen instead.
Draws(c, t) == t \in Mouse /\ widget[c].active /\ widget[c].drawing /\ widget[c].frame

PressAnyway(c, t) ==
  /\ Move /\ t \notin pressed[c]
  /\ FrameFirst => widget[c].frame
  /\ pressed' = [pressed EXCEPT ![c] = @ \cup {t}]
  /\ widget' = [widget EXCEPT ![c].stroke = @ \/ Draws(c, t)]
  /\ wire' = Sent(c, t, TRUE)
  /\ UNCHANGED <<may, held, excused>>
Press(c, t) ==
  /\ Move /\ t \notin pressed[c]
  /\ FrameFirst => widget[c].frame
  /\ pressed' = [pressed EXCEPT ![c] = @ \cup {t}]
  /\ IF Draws(c, t)
     THEN widget' = [widget EXCEPT ![c].stroke = TRUE] /\ wire' = wire
     ELSE widget' = widget /\ wire' = Sent(c, t, TRUE)
  /\ UNCHANGED <<may, held, excused>>

\* ... and the release ends the stroke, if there is one.
Release(c, t) ==
  LET ends == t \in Mouse /\ widget[c].active /\ widget[c].drawing /\ widget[c].stroke
  IN /\ t \in pressed[c]
     /\ pressed' = [pressed EXCEPT ![c] = @ \ {t}]
     /\ IF ends
        THEN widget' = [widget EXCEPT ![c].stroke = FALSE] /\ wire' = wire
        ELSE widget' = widget /\ wire' = Sent(c, t, FALSE)
     /\ excused' = IF ends \/ Forwards(c) THEN excused ELSE excused \cup {Button(t)}
     /\ UNCHANGED <<may, held, moves>>

\* The buttons of the toolbar take a click: no mouse button is held on the picture then.
Free(c) == pressed[c] \cap Mouse = {}
ToggleDrawing(c) ==
  /\ Move /\ Free(c)
  /\ widget' = [widget EXCEPT ![c].drawing = ~@]
  /\ UNCHANGED <<pressed, wire, may, held, excused>>
ToggleTakeover(c) ==
  /\ Move /\ Free(c)
  /\ widget' = [widget EXCEPT ![c].forward = ~@]
  /\ UNCHANGED <<pressed, wire, may, held, excused>>

\* Another window takes the keyboard: keys go up without an event.
LoseFocus(c) ==
  /\ Move /\ pressed[c] \cap Keyboard # {}
  /\ pressed' = [pressed EXCEPT ![c] = @ \ Keyboard]
  /\ excused' = excused \cup {Button(t) : t \in pressed[c] \cap Keyboard}
  /\ UNCHANGED <<widget, wire, may, held>>

ShowFrame(c) ==
  /\ widget[c].active /\ ~widget[c].frame
  /\ widget' = [widget EXCEPT ![c].frame = TRUE]
  /\ UNCHANGED <<pressed, wire, may, held, excused, moves>>

\* stopRemote, and the end of the connection: events under way are lost, the picture and
\* the stroke go, the drawing mode stays.
Stop(c) ==
  /\ Move /\ widget[c].active
  /\ widget' = [widget EXCEPT ![c].active = FALSE, ![c].frame = FALSE, ![c].stroke = FALSE]
  /\ wire' = [wire EXCEPT ![c] = <<>>]
  /\ may' = may \ {c}
  /\ excused' = excused \cup {e.what : e \in {f \in Range(wire[c]) : ~f.down}}
  /\ UNCHANGED <<pressed, held>>
Start(c) ==
  /\ Move /\ ~widget[c].active
  /\ widget' = [widget EXCEPT ![c].active = TRUE]
  /\ may' = may \cup {c}
  /\ UNCHANGED <<pressed, wire, held, excused>>

-----------------------------------------------------------------------------
(* The host.                                                               *)

\* applyCapabilities comes with every change: the drawing is switched off without its
\* capability, the takeover is not.
Recap(c, drawing) ==
  /\ Move /\ widget[c].active
  /\ may' \in {may \ {c}, may \cup {c}}
  /\ widget' = [widget EXCEPT ![c].drawing = @ /\ drawing]
  /\ UNCHANGED <<pressed, wire, held, excused>>

Inject(e) == IF e.text THEN held ELSE IF e.down THEN held \cup {e.what} ELSE held \ {e.what}

\* An event of a session that may not control the host is dropped, a release too.
HostReads(c) ==
  LET e == Head(wire[c])
  IN /\ wire[c] # <<>>
     /\ wire' = [wire EXCEPT ![c] = Tail(@)]
     /\ IF c \in may
        THEN held' = Inject(e) /\ excused' = excused
        ELSE held' = held /\ excused' = IF e.down THEN excused ELSE excused \cup {e.what}
     /\ UNCHANGED <<widget, pressed, may, moves>>

Next ==
  \E c \in Controllers :
    \/ \E t \in Things : Press(c, t) \/ Release(c, t)
    \/ ToggleDrawing(c) \/ ToggleTakeover(c) \/ LoseFocus(c) \/ ShowFrame(c)
    \/ Stop(c) \/ Start(c) \/ HostReads(c)
    \/ \E drawing \in BOOLEAN : Recap(c, drawing)

-----------------------------------------------------------------------------
(* When every event has arrived, nothing is down at the host that no user  *)
(* holds: whatever was drawn meanwhile and by whomever else it was pressed. *)
(* Left out is what went up where the host could not be told or did not    *)
(* listen: without the focus, the takeover, the capability or the session. *)
NothingStuck ==
  (\A c \in Controllers : wire[c] = <<>>) =>
    held \subseteq {Button(t) : t \in UNION {pressed[c] : c \in Controllers}} \cup excused
=============================================================================
