------------------------------ MODULE WebGateway -----------------------------
(***************************************************************************)
(* A browser and a host, joined by WebSocketGateway (src/src/app/          *)
(* web_socket_gateway.cpp): messages on the browser's side, a stream of     *)
(* bytes on the host's.  A message is one to three parts, the first with    *)
(* the header; a stream is cut between any two parts.  A session of the    *)
(* gateway touches no other, so there is one at a time.                    *)
(***************************************************************************)
EXTENDS Naturals, Sequences

CONSTANTS
  Lengths,      \* parts of a message
  MaxTyped, MaxPainted, MaxVisits

VARIABLES
  gate,         \* the session: none, or the state of its TCP socket
  page,         \* messages of the browser the gateway has not read
  pendingOut,   \* parts kept until the host is connected
  upstream,     \* parts on the way to the host
  hostBuffer,   \* the host's ClientInfo::buffer
  heard,        \* the messages the host took
  typed,        \* how many the browser sent in this session
  offered,      \* and whether it sent text, an offer for WebRTC
  downstream,   \* parts on the way from the host
  tcpBuffer,    \* parts of a message that is not whole yet
  painted,      \* the messages the browser got
  drawn,        \* how many the host sent in this session
  visits

gateVars == <<gate, page, pendingOut, upstream, hostBuffer, heard, typed, offered, downstream,
              tcpBuffer, painted, drawn, visits>>

Message(n, length) == [k \in 1 .. length |-> [of |-> n, at |-> k, length |-> length]]
\* Text is forwarded as it is: what it begins with is no header.
Signal == <<[of |-> 0, at |-> 0, length |-> 1]>>
Starts(unit) == unit.at = 1

Init ==
  /\ gate = "none" /\ visits = 0
  /\ page = <<>> /\ pendingOut = <<>> /\ upstream = <<>> /\ hostBuffer = <<>> /\ heard = <<>>
  /\ typed = 0 /\ offered = FALSE /\ downstream = <<>> /\ tcpBuffer = <<>>
  /\ painted = <<>> /\ drawn = 0

-----------------------------------------------------------------------------
(* The session.                                                            *)

\* onNewWebSocketConnection: the host is called at once.
Visit ==
  /\ gate = "none" /\ visits < MaxVisits
  /\ gate' = "connecting" /\ visits' = visits + 1
  /\ heard' = <<>> /\ typed' = 0 /\ offered' = FALSE /\ painted' = <<>> /\ drawn' = 0
  /\ UNCHANGED <<page, pendingOut, upstream, hostBuffer, downstream, tcpBuffer>>

\* closeSession, for the end or an error of either side, or stop: the socket is aborted
\* with all that is under way.
CloseSession ==
  /\ gate # "none" /\ gate' = "none"
  /\ page' = <<>> /\ pendingOut' = <<>> /\ upstream' = <<>> /\ downstream' = <<>>
  /\ tcpBuffer' = <<>> /\ hostBuffer' = <<>>
  /\ UNCHANGED <<heard, typed, offered, painted, drawn, visits>>

TcpConnectedSilently ==
  /\ gate = "connecting" /\ gate' = "open"
  /\ UNCHANGED <<page, pendingOut, upstream, hostBuffer, heard, typed, offered, downstream,
                 tcpBuffer, painted, drawn, visits>>
TcpConnected ==
  /\ gate = "connecting" /\ gate' = "open"
  /\ upstream' = upstream \o pendingOut /\ pendingOut' = <<>>
  /\ UNCHANGED <<page, hostBuffer, heard, typed, offered, downstream, tcpBuffer, painted,
                 drawn, visits>>

-----------------------------------------------------------------------------
(* From the browser to the host.                                           *)

BrowserSends(length) ==
  /\ gate # "none" /\ typed < MaxTyped
  /\ typed' = typed + 1
  /\ page' = Append(page, Message(typed', length))
  /\ UNCHANGED <<gate, pendingOut, upstream, hostBuffer, heard, offered, downstream,
                 tcpBuffer, painted, drawn, visits>>

BrowserSignals ==
  /\ gate # "none" /\ ~offered /\ offered' = TRUE
  /\ page' = Append(page, Signal)
  /\ UNCHANGED <<gate, pendingOut, upstream, hostBuffer, heard, typed, downstream, tcpBuffer,
                 painted, drawn, visits>>

\* onWsBinaryMessageReceived, onWsTextMessageReceived.
Forward ==
  /\ page # <<>> /\ page' = Tail(page)
  /\ IF gate = "open"
     THEN upstream' = upstream \o Head(page) /\ UNCHANGED pendingOut
     ELSE pendingOut' = pendingOut \o Head(page) /\ UNCHANGED upstream
  /\ UNCHANGED <<gate, hostBuffer, heard, typed, offered, downstream, tcpBuffer, painted,
                 drawn, visits>>

\* A message has its header at least.
Unit == [of : Nat, at : Nat, length : Nat \ {0}]
\* The whole messages at the front of a buffer; one that begins with no header waits.
Cut(buffer) ==
  LET cut[b \in Seq(Unit)] ==
        IF b = <<>> \/ ~Starts(Head(b)) \/ Len(b) < Head(b).length
        THEN [messages |-> <<>>, rest |-> b]
        ELSE LET n == Head(b).length
                 more == cut[SubSeq(b, n + 1, Len(b))]
             IN  [messages |-> <<SubSeq(b, 1, n)>> \o more.messages, rest |-> more.rest]
  IN cut[buffer]

\* Host::processClientBuffer, of as many parts as have arrived.
HostReads(n) ==
  LET c == Cut(hostBuffer \o SubSeq(upstream, 1, n))
  IN /\ gate = "open" /\ n \in 1 .. Len(upstream)
     /\ upstream' = SubSeq(upstream, n + 1, Len(upstream))
     /\ hostBuffer' = c.rest /\ heard' = heard \o c.messages
     /\ UNCHANGED <<gate, page, pendingOut, typed, offered, downstream, tcpBuffer, painted,
                    drawn, visits>>

-----------------------------------------------------------------------------
(* From the host to the browser.                                           *)

HostSends(length) ==
  /\ gate = "open" /\ drawn < MaxPainted
  /\ drawn' = drawn + 1
  /\ downstream' = downstream \o Message(drawn', length)
  /\ UNCHANGED <<gate, page, pendingOut, upstream, hostBuffer, heard, typed, offered,
                 tcpBuffer, painted, visits>>

\* onTcpReadyRead: every whole message, each as one message of the browser.
TcpReadyRead(n) ==
  LET c == Cut(tcpBuffer \o SubSeq(downstream, 1, n))
  IN /\ gate = "open" /\ n \in 1 .. Len(downstream)
     /\ downstream' = SubSeq(downstream, n + 1, Len(downstream))
     /\ tcpBuffer' = c.rest /\ painted' = painted \o c.messages
     /\ UNCHANGED <<gate, page, pendingOut, upstream, hostBuffer, heard, typed, offered,
                    drawn, visits>>

Next ==
  \/ Visit \/ CloseSession \/ TcpConnected \/ Forward \/ BrowserSignals
  \/ \E length \in Lengths : BrowserSends(length) \/ HostSends(length)
  \/ \E n \in 1 .. Len(upstream) : HostReads(n)
  \/ \E n \in 1 .. Len(downstream) : TcpReadyRead(n)

-----------------------------------------------------------------------------
(* Each side gets the other's messages whole and in order; and of a        *)
(* session that stands, none is kept back: what is not under way has        *)
(* arrived, also what the browser sent before the host was connected and    *)
(* what came in one piece with its neighbour.  (After a text message the    *)
(* host takes nothing any more.)                                           *)
GatewayPasses ==
  LET Whole(messages) ==
        \A k \in 1 .. Len(messages) :
          LET m == messages[k] IN m = Message(k, Head(m).length)
  IN /\ Whole(heard) /\ Whole(painted)
     /\ gate = "open" /\ page = <<>> /\ upstream = <<>> /\ ~offered => Len(heard) = typed
     /\ gate = "open" /\ downstream = <<>> => Len(painted) = drawn
=============================================================================
