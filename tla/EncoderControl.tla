--------------------------- MODULE EncoderControl ---------------------------
(***************************************************************************)
(* The encoder of a host's screen: chosen by the main thread, used and     *)
(* replaced by the encode thread (EncodeWorker::processFrames), which      *)
(* falls back to JPEG when H264 gives nothing.  The main thread hands an   *)
(* encoder over in two assignments, the encode thread takes it in two.     *)
(* A viewer shows a frame, or cannot: an H264 stream is shown from its     *)
(* first key frame on, and every Gop-th frame is one.  What waits in the   *)
(* queues between them is FrameQueue and TileTransport; here a frame is    *)
(* seen, or not, as it is made.                                            *)
(***************************************************************************)
EXTENDS Naturals

CONSTANTS
  EmptyLimit,   \* empty encodes in a row that make the encode thread give H264 up
  Gop,          \* frames from one key frame of an encoder to the next
  ViewerDecodes, \* the viewers' build can decode H264
  MaxPicks,     \* bounds: gears picked,
  MaxSwitches,  \* monitors switched,
  MaxChanges    \* changes of the H264 hardware and of the viewers

VARIABLES
  h264,      \* what this host's H264 is worth: "works", "stalls" after the probe, "none"
  active,    \* m_activeEncoderType, as the main thread believes
  handing,   \* main thread: in setEncoderAsync, before m_encoderSwapPending: for what
  pending,   \* m_pendingEncoder
  swap,      \* m_encoderSwapPending
  at,        \* encode thread: where in its loop
  live,      \* m_encoder
  empties,   \* m_consecutiveEmptyEncodes
  fallback,  \* m_fallbackRequested
  told,      \* encoderChanged(JPEG) signals not yet handled
  allDecodeTiles, \* every authenticated viewer decodes tiles
  tiled,     \* m_tiledMode
  synced,    \* the viewer decoded a key frame of the stream of live
  seen,      \* the last captured frame is on the viewer's screen
  picks, switches, changes

main == <<active, handing, pending, swap, tiled>>
thread == <<at, live, empties, fallback, synced, seen>>
outside == <<h264, allDecodeTiles, changes>>
vars == <<main, thread, outside, told, picks, switches>>

\* An encoder is its type and the frames since its last key frame.
Encoders == [type : {"JPEG", "H264"}, frames : 0 .. Gop - 1]
NoEncoder == [type |-> "none", frames |-> 0]
Jpeg == [type |-> "JPEG", frames |-> 0]
Fresh == [type |-> "H264", frames |-> 0]
KeyOnlyFirst(encoder) == [encoder EXCEPT !.frames = 1]
After(encoder) == [encoder EXCEPT !.frames = (@ + 1) % Gop]

TypeOK ==
  /\ h264 \in {"works", "stalls", "none"}
  /\ active \in {"JPEG", "H264"}
  /\ handing \in {"nothing", "monitor", "JPEG", "H264"}
  /\ {pending, live} \subseteq Encoders \cup {NoEncoder}
  /\ at \in {"swap", "take", "fallback", "encode"}
  /\ {swap, fallback, allDecodeTiles, tiled, synced, seen} \subseteq BOOLEAN
  /\ empties \in 0 .. EmptyLimit
  /\ told \in Nat /\ picks \in 0 .. MaxPicks /\ switches \in 0 .. MaxSwitches
  /\ changes \in 0 .. MaxChanges

\* Host::start: JPEG, whatever H264 is worth.
Init ==
  /\ h264 \in {"works", "stalls", "none"} /\ allDecodeTiles \in BOOLEAN
  /\ active = "JPEG" /\ tiled = allDecodeTiles
  /\ handing = "nothing" /\ pending = NoEncoder /\ swap = FALSE
  /\ at = "swap" /\ live = Jpeg /\ empties = 0 /\ fallback = FALSE
  /\ told = 0 /\ synced = FALSE /\ seen = FALSE
  /\ picks = 0 /\ switches = 0 /\ changes = 0

-----------------------------------------------------------------------------
(* The main thread.                                                        *)

\* Host::updateTileTransportMode, where at least one viewer is there.
TilesFit(decode, type) == tiled' = (decode /\ type = "JPEG")

\* The first half of EncodeWorker::setEncoderAsync.
HandOver(encoder, for) == pending' = encoder /\ handing' = for

\* Host::setQualityLevel of a pinned gear: setEncoderType.  H264 is probed with
\* one frame, which is the first key frame of the encoder that is then used.
PickGear(game) ==
  /\ handing = "nothing" /\ picks < MaxPicks
  /\ IF game /\ h264 # "none" THEN HandOver(After(Fresh), "H264")
                              ELSE HandOver(Jpeg, "JPEG")
  /\ picks' = picks + 1
  /\ UNCHANGED <<active, swap, tiled, thread, outside, told, switches>>

\* SCREEN_SWITCH_MONITOR and performAutoSwitchStep: an encoder of the type that
\* is live, for the new size, which H264 may refuse.
SwitchMonitor ==
  /\ handing = "nothing" /\ switches < MaxSwitches
  /\ switches' = switches + 1
  /\ \/ live.type = "JPEG" /\ HandOver(Jpeg, "monitor")
     \/ live.type = "H264" /\ h264 # "none" /\ HandOver(Fresh, "monitor")
     \/ live.type # "JPEG" /\ UNCHANGED <<pending, handing>>
  /\ UNCHANGED <<active, swap, tiled, thread, outside, told, picks>>

\* The second half of setEncoderAsync, and of setEncoderType.
Announce ==
  /\ handing # "nothing"
  /\ swap' = TRUE /\ handing' = "nothing"
  /\ IF handing = "monitor" THEN UNCHANGED <<active, tiled>>
     ELSE active' = handing /\ TilesFit(allDecodeTiles, handing)
  /\ UNCHANGED <<pending, thread, outside, told, picks, switches>>

\* Host::onEncoderChanged, queued.
EncoderChanged ==
  /\ handing = "nothing" /\ told > 0
  /\ told' = told - 1
  /\ active' = "JPEG" /\ TilesFit(allDecodeTiles, "JPEG")
  /\ UNCHANGED <<handing, pending, swap, thread, outside, picks, switches>>

-----------------------------------------------------------------------------
(* The encode thread: one round of EncodeWorker::processFrames.            *)

\* exchange(false), and if it was set, the move.
CheckSwap ==
  /\ at = "swap"
  /\ swap' = FALSE /\ at' = IF swap THEN "take" ELSE "fallback"
  /\ UNCHANGED <<active, handing, pending, tiled, live, empties, fallback, synced, seen,
                 outside, told, picks, switches>>
TakeEncoder ==
  /\ at = "take" /\ at' = "fallback"
  /\ live' = pending /\ pending' = NoEncoder
  /\ empties' = 0 /\ synced' = FALSE
  /\ UNCHANGED <<active, handing, swap, tiled, fallback, seen, outside, told, picks, switches>>

FallbackKeepingEncoder ==
  /\ at = "fallback" /\ at' = "encode"
  /\ fallback' = FALSE
  /\ empties' = IF fallback THEN 0 ELSE empties
  /\ UNCHANGED <<main, live, synced, told, seen, outside, picks, switches>>
FallbackToJpeg ==
  /\ at = "fallback" /\ at' = "encode"
  /\ fallback' = FALSE
  /\ IF fallback THEN live' = Jpeg /\ empties' = 0 /\ synced' = FALSE /\ told' = told + 1
                 ELSE UNCHANGED <<live, empties, synced, told>>
  /\ UNCHANGED <<main, seen, outside, picks, switches>>

\* The viewer's decode worker passes on every whole frame, its window shows what
\* it can decode; neither tells the host.
Displayed(shown) == seen' = shown
Shows(encoder) == ViewerDecodes /\ (synced \/ encoder.frames = 0)
\* H264Encoder::encode: a frame, a key frame in every Gop; or nothing.
H264Frame ==
  /\ h264 = "works"
  /\ live' = After(live) /\ empties' = 0
  /\ synced' = Shows(live) /\ Displayed(Shows(live))
  /\ UNCHANGED fallback
EmptyFrame ==
  /\ h264 # "works"
  /\ Displayed(FALSE)
  /\ empties' = empties + 1
  /\ fallback' = (empties + 1 >= EmptyLimit)
  /\ UNCHANGED <<live, synced>>

\* Tiles do not use the encoder; without one the frame is saved as JPEG.
EncodeFrame ==
  /\ at = "encode" /\ at' = "swap"
  /\ \/ tiled /\ Displayed(TRUE) /\ UNCHANGED <<live, empties, fallback, synced>>
     \/ /\ ~tiled /\ live.type # "H264"
        /\ Displayed(TRUE) /\ empties' = 0 /\ UNCHANGED <<live, fallback, synced>>
     \/ ~tiled /\ live.type = "H264" /\ (H264Frame \/ EmptyFrame)
  /\ UNCHANGED <<main, outside, told, picks, switches>>

Round == CheckSwap \/ TakeEncoder \/ FallbackToJpeg \/ EncodeFrame

-----------------------------------------------------------------------------
(* Outside: H264 hardware that stops or works again, and viewers who come   *)
(* with a decoder that has seen nothing.                                   *)
HardwareChanges ==
  /\ h264 # "none" /\ changes < MaxChanges
  /\ changes' = changes + 1
  /\ h264' \in {"works", "stalls", "none"} \ {h264}
  /\ UNCHANGED <<main, thread, allDecodeTiles, told, picks, switches>>

ViewerComes ==
  /\ handing = "nothing" /\ changes < MaxChanges
  /\ changes' = changes + 1
  /\ allDecodeTiles' \in BOOLEAN /\ TilesFit(allDecodeTiles', active)
  /\ synced' = FALSE /\ seen' = FALSE
  /\ UNCHANGED <<active, handing, pending, swap, at, live, empties, fallback,
                 h264, told, picks, switches>>

Next ==
  \/ \E game \in BOOLEAN : PickGear(game)
  \/ SwitchMonitor \/ Announce \/ EncoderChanged
  \/ Round
  \/ HardwareChanges \/ ViewerComes

\* Both threads run on.
Fairness == WF_vars(Announce) /\ WF_vars(EncoderChanged) /\ WF_vars(Round)
Spec == Init /\ [][Next]_vars /\ Fairness

-----------------------------------------------------------------------------
(* A viewer's screen never stays black: however gears, monitors, viewers,  *)
(* hand-overs and fallbacks cross, what the host captures is seen again    *)
(* (EncodeWorker::processFrames, Host::setEncoderType).                    *)
FramesResume == []<>seen
=============================================================================
