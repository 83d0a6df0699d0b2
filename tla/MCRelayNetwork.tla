--------------------------- MODULE MCRelayNetwork ---------------------------
(***************************************************************************)
(* A controller that reaches a host through a relay; viewers that look at  *)
(* the monitors of a host, one viewer while monitors and sessions come and *)
(* go, or two that stay; and the encoder of what they see.  A behaviour is *)
(* about one of the four, the others rest.                                 *)
(***************************************************************************)
EXTENDS RelayNetwork

CONSTANTS
  Viewers, First, MaxFails, MaxClicks, MaxPlugs,  \* MonitorSwitch
  EmptyLimit, Gop, ViewerDecodes, MaxPicks, MaxSwitches, MaxChanges \* EncoderControl

VARIABLES
  part,
  desktop, capture, host, joined, toHost, toViewer, ui, clicks, plugs,
  h264, chosen, handing, handed, swap, at, live, empties, fallback, told,
  allDecodeTiles, tiled, synced, seen, picks, switches, changes

OneOrTwo == {<<"m1">>, <<"m1", "m2">>}
Monitors == INSTANCE MonitorSwitch
  WITH Desktops <- OneOrTwo, events <- plugs, MaxEvents <- MaxPlugs

Encoder == INSTANCE EncoderControl WITH active <- chosen, pending <- handed

monitors == <<desktop, capture, host, joined, toHost, toViewer, ui, clicks, plugs>>
encoder ==
  <<h264, chosen, handing, handed, swap, at, live, empties, fallback, told,
    allDecodeTiles, tiled, synced, seen, picks, switches, changes>>
Looking == {"one viewer", "two viewers"}

MCInit ==
  /\ part \in {"relay", "encoder"} \cup Looking
  /\ Init
  /\ Monitors!Hosts /\ Monitors!Nobody
  /\ clicks = IF part = "two viewers" THEN 1 ELSE 0
  /\ plugs = IF part = "two viewers" THEN MaxPlugs ELSE 0
  /\ part # "relay" => ~secret
  /\ part \notin Looking => desktop = <<"m1">> /\ capture = Monitors!NotStarted
  /\ Encoder!Init
  /\ part # "encoder" => h264 = "none" /\ allDecodeTiles

RelayStep == part = "relay" /\ Next /\ UNCHANGED <<part, monitors, encoder>>
MonitorsStep ==
  /\ part \in Looking
  /\ Monitors!Next
  /\ part = "one viewer" => joined' \subseteq {First}
  /\ UNCHANGED <<part, vars, encoder>>
EncoderStep == part = "encoder" /\ Encoder!Next /\ UNCHANGED <<part, vars, monitors>>
MCNext == RelayStep \/ MonitorsStep \/ EncoderStep

\* Each part's fairness, of its own steps.
RelayFairness ==
  /\ \A s \in Sockets : WF_vars(part = "relay" /\ RelayReads(s))
                        /\ WF_vars(part = "relay" /\ DeviceReads(s))
  /\ \A d \in Devices : WF_vars(part = "relay" /\ (Connected(d) \/ ConnectFails(d)))
                        /\ WF_vars(part = "relay" /\ PunchTimeout(d))
                        /\ WF_vars(part = "relay" /\ ReconnectTimer(d))
  /\ WF_vars(part = "relay" /\ RelayFallbackTimeout)
MonitorsFairness ==
  /\ WF_monitors(part \in Looking /\ Monitors!CaptureStarts)
  /\ WF_monitors(part \in Looking /\ Monitors!AutoSwitchStep)
  /\ WF_monitors(part \in Looking /\ Monitors!CheckMonitorChanges)
  /\ \A v \in Viewers : WF_monitors(part \in Looking /\ Monitors!HostReads(v))
                        /\ WF_monitors(part \in Looking /\ Monitors!ViewerReads(v))
EncoderFairness ==
  /\ WF_encoder(part = "encoder" /\ Encoder!Announce)
  /\ WF_encoder(part = "encoder" /\ Encoder!EncoderChanged)
  /\ WF_encoder(part = "encoder" /\ Encoder!Round)

MCSpec ==
  /\ MCInit /\ [][MCNext]_<<part, vars, monitors, encoder>>
  /\ RelayFairness /\ MonitorsFairness /\ EncoderFairness

-----------------------------------------------------------------------------
(* What is checked, stated where it is about.                              *)
AutoSwitchTold == Monitors!AutoSwitchTold
MonitorsInTurn == Monitors!MonitorsInTurn
FramesResume == part = "encoder" => Encoder!FramesResume
=============================================================================
