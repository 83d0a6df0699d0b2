----------------------------- MODULE MCPeers --------------------------------
(***************************************************************************)
(* Protocols between two or more programs, each with failing connections,  *)
(* in one run: a behaviour is about one of them, the others rest.          *)
(***************************************************************************)
EXTENDS Naturals, Sequences, FiniteSets

CONSTANTS
  Msgs, MaxStarts, MaxStops, Window,  \* OfflineMail
  Again, MaxInits, MaxLost,           \* KeyExchange
  MaxAttempts, MaxMessages, MaxEnds,  \* TcpConnection
  Viewers, Texts, MaxCopies, MaxDrops, \* ClipboardSync
  Files, Root, Sub, MaxChanges, MaxBreaks, \* FolderSync
  Dirs, MaxClicks, MaxCuts,           \* DirectoryDownload
  Controllers, AskedFor, Switchable, ShellsStart, MaxAsks, MaxSwitches, \* SessionRequests
  Things, FrameFirst, MaxMoves,       \* InputForwarding
  Lengths, MaxTyped, MaxPainted, MaxVisits \* WebGateway

\* A message has its header at least.
ASSUME LengthsAssumption == Lengths \subseteq Nat \ {0}

VARIABLES
  part,
  online, self, known, met, blocked, link, target, queue, batches, acks, inbox, stops, excused,
  private, public, sessions, wire, inits, lost, generated,
  state, enabled, manual, attempt, timer, socket, stream, buffer, received, next, settled,
  reported, ends,
  clip, last, monitoring, toHost, toViewer, attached, permitted, apart, copies, drops,
  direction, source, snapshot, signalled, pending, debounce, watching, wanted, connected,
  toTarget, toSource, uploads, incoming, copy, missed, ids, changes, breaks,
  gone, scans, queued, requests, responses, shown, asked, fetched, tangled, clicks, cuts,
  joined, caps, shells, recorder, switches, mask, overlay, up, going, orders, answers, chat,
  waiting, asks, flips,
  widget, pressed, events, may, held, unseen, moves,
  gate, page, pendingOut, upstream, hostBuffer, heard, typed, offered, downstream, tcpBuffer,
  painted, drawn, visits

\* The system writes the line ends of one content anew.
Kept(t) == IF t = "raw" THEN "text" ELSE t
DirOf(f) == IF f = "f" THEN Root ELSE Sub
Under(d) == IF d = "p" THEN {"x", "y"} ELSE IF d = "x" THEN {"z"} ELSE {}

Mail == INSTANCE OfflineMail
Keys == INSTANCE KeyExchange
Tcp == INSTANCE TcpConnection
Clip == INSTANCE ClipboardSync
Folder == INSTANCE FolderSync
Listing == INSTANCE DirectoryDownload WITH queue <- queued
Desk == INSTANCE SessionRequests WITH requests <- orders
Input == INSTANCE InputForwarding WITH wire <- events, excused <- unseen
Gateway == INSTANCE WebGateway

mail == <<online, self, known, met, blocked, link, target, queue, batches, acks, inbox, stops, excused>>
keys == <<private, public, sessions, wire, inits, lost, generated>>
tcp ==
  <<state, enabled, manual, attempt, timer, socket, stream, buffer, received, next, settled,
    reported, ends>>
clips == <<clip, last, monitoring, toHost, toViewer, attached, permitted, apart, copies, drops>>
folder ==
  <<direction, source, snapshot, signalled, pending, debounce, watching, wanted, connected,
    toTarget, toSource, uploads, incoming, copy, missed, ids, changes, breaks>>
listing ==
  <<gone, scans, queued, requests, responses, shown, asked, fetched, tangled, clicks, cuts>>
desk ==
  <<joined, caps, shells, recorder, switches, mask, overlay, up, going, orders, answers, chat,
    waiting, asks, flips>>
input == <<widget, pressed, events, may, held, unseen, moves>>
gateway ==
  <<gate, page, pendingOut, upstream, hostBuffer, heard, typed, offered, downstream, tcpBuffer,
    painted, drawn, visits>>
vars == <<part, mail, keys, tcp, clips, folder, listing, desk, input, gateway>>

Init ==
  /\ part \in {"mail", "keys", "tcp", "clip", "folder", "listing", "desk", "input", "gateway"}
  /\ Mail!Init /\ Keys!Init /\ Tcp!Init /\ Clip!Init /\ Folder!Init /\ Listing!Init
  /\ Desk!Init /\ Input!Init /\ Gateway!Init
  /\ part # "mail" => online /\ ~blocked
  /\ part # "tcp" => enabled
  /\ part # "clip" => permitted = Viewers
  /\ part # "folder" => direction = "forward" /\ source = [f \in Files |-> 1]
  /\ part # "listing" => gone = {}

MailStep == part = "mail" /\ Mail!Next /\ UNCHANGED <<part, keys, tcp, clips, folder, listing, desk, input, gateway>>
KeysStep == part = "keys" /\ Keys!Next /\ UNCHANGED <<part, mail, tcp, clips, folder, listing, desk, input, gateway>>
TcpStep == part = "tcp" /\ Tcp!Next /\ UNCHANGED <<part, mail, keys, clips, folder, listing, desk, input, gateway>>
ClipStep == part = "clip" /\ Clip!Next /\ UNCHANGED <<part, mail, keys, tcp, folder, listing, desk, input, gateway>>
FolderStep == part = "folder" /\ Folder!Next /\ UNCHANGED <<part, mail, keys, tcp, clips, listing, desk, input, gateway>>
ListingStep == part = "listing" /\ Listing!Next /\ UNCHANGED <<part, mail, keys, tcp, clips, folder, desk, input, gateway>>

DeskStep == part = "desk" /\ Desk!Step /\ UNCHANGED <<part, mail, keys, tcp, clips, folder, listing, input, gateway>>
InputStep == part = "input" /\ Input!Next /\ UNCHANGED <<part, mail, keys, tcp, clips, folder, listing, desk, gateway>>
GatewayStep ==
  part = "gateway" /\ Gateway!Next
    /\ UNCHANGED <<part, mail, keys, tcp, clips, folder, listing, desk, input>>

Next == MailStep \/ KeysStep \/ TcpStep \/ ClipStep \/ FolderStep \/ ListingStep \/ DeskStep
        \/ InputStep \/ GatewayStep

-----------------------------------------------------------------------------
(* Each part's fairness, of its own steps.                                 *)

MailFairness ==
  /\ WF_mail(part = "mail" /\ Mail!Hello)
  /\ WF_mail(part = "mail" /\ Mail!ReceiverReturns)
  /\ WF_mail(part = "mail" /\ Mail!RetryTimer)
  /\ \A m \in Msgs :
       WF_mail(part = "mail" /\ (Mail!Connected(m) \/ Mail!ReceiveMessage(m) \/ Mail!SendFails(m)))
  /\ \A b \in SUBSET Msgs : /\ WF_mail(part = "mail" /\ (Mail!ReceiveBatch(b) \/ Mail!LoseBatch(b)))
                            /\ WF_mail(part = "mail" /\ Mail!ReceiveDelivered(b))

KeysFairness == \A m \in Keys!Message : WF_keys(part = "keys" /\ Keys!ReceiveKey(m))

TcpFairness ==
  /\ WF_tcp(part = "tcp" /\ Tcp!ReconnectTimer)
  /\ WF_tcp(part = "tcp" /\ (Tcp!AttemptSucceeds \/ \E error \in Tcp!Errors : Tcp!AttemptFails(error)))

ClipFairness ==
  /\ \A s \in Clip!Sides : WF_clips(part = "clip" /\ Clip!Notice(s))
  /\ \A v \in Viewers : WF_clips(part = "clip" /\ Clip!HostReceives(v))
                       /\ WF_clips(part = "clip" /\ Clip!ViewerReceives(v))

FolderFairness == WF_folder(part = "folder" /\ Folder!Step)

ListingFairness == WF_listing(part = "listing" /\ (Listing!HostLists \/ Listing!ReceiveListing))

DeskFairness ==
  \A c \in Controllers : /\ WF_desk(part = "desk" /\ Desk!HostReads(c))
                         /\ WF_desk(part = "desk" /\ Desk!ControllerReads(c))

Spec ==
  /\ Init /\ [][Next]_vars
  /\ MailFairness /\ KeysFairness /\ TcpFairness
  /\ ClipFairness /\ FolderFairness /\ ListingFairness /\ DeskFairness

-----------------------------------------------------------------------------
(* What is checked, stated where it is about.                              *)
NothingForgotten == Mail!NothingForgotten
MailArrives == Mail!MailArrives
SecretsMeet == Keys!SecretsMeet
NoMixedMessages == Tcp!NoMixedMessages /\ Gateway!GatewayPasses
GivesUpAloud == Tcp!GivesUpAloud
ClipboardsSettle == Clip!ClipboardsSettle
FoldersConverge == Folder!FoldersConverge
DirectoriesArrive == Listing!DirectoriesArrive
ChatSameOrder == Desk!ChatSameOrder
UncoveredWhenAlone == Desk!UncoveredWhenAlone
RequestsSettle == Desk!RequestsSettle
NothingStuck == Input!NothingStuck
=============================================================================
