---------------------------- MODULE TileTransport ----------------------------
(***************************************************************************)
(* The screen of a host on its way to one controller, as tiles: the        *)
(* capture, encode and network workers of app/host.cpp, the host's main    *)
(* thread where it steers them, and the decode thread of                   *)
(* app/remote_controller.cpp.  The workers run in parallel; NetworkWorker  *)
(* and the repair of tiles run on the main thread.                         *)
(*                                                                         *)
(* A whole frame (tiled mode off) is a message that leaves the tile canvas *)
(* alone.                                                                  *)
(***************************************************************************)
EXTENDS Sequences, Functions, TileEncoder

CONSTANTS
  RawCap,       \* capacity of m_rawFrameQueue
  KeepRaw,      \* frames left in it when the encode thread catches up
  EncodedCap,   \* capacity of m_encodedFrameQueue
  TileCap,      \* capacity of the controller's m_tileQueue
  BudgetMin,    \* TILE_BUDGET_MIN
  BudgetMax,    \* TILE_BUDGET_MAX
  Links,        \* what the ACKs may say of the link
  FastEncoder,  \* the encode thread keeps up: no captured frame is dropped
  FastLink,     \* the network keeps up: nothing is left in the viewer's socket
  FastRepair,   \* no frame is taken for encoding while tiles are sent again
  FastViewer,   \* the decode thread keeps up: m_tileQueue has room
  Damage,       \* how a tile may arrive: its hash may differ, it may be unreadable
  MaySwitch,    \* the transport may change mode, the viewer come again
  NoImage       \* no frame cached, no repair going on

ASSUME TransportAssumption ==
  /\ RawCap \in Nat \ {0} /\ KeepRaw \in Nat
  /\ EncodedCap \in Nat \ {0} /\ TileCap \in Nat \ {0}
  /\ BudgetMin \in Nat \ {0} /\ BudgetMax \in Nat /\ BudgetMin <= BudgetMax
  /\ Links \subseteq {"silent", "congested", "neutral", "healthy"}
  /\ NoImage \notin Image
  /\ {FastEncoder, FastLink, FastRepair, FastViewer, MaySwitch} \subseteq BOOLEAN
  /\ Damage \subseteq {"hash", "unreadable"}

VARIABLES
  screen,    \* the picture last captured
  raw,       \* m_rawFrameQueue
  tiled,     \* m_tiledMode
  keyReq,    \* m_keyFrameRequest
  maxTiles,  \* m_maxTilesPerFrame
  budget,    \* m_tileBudget
  enc,       \* m_tileEncoder
  cached,    \* m_lastRawFrame
  outgoing,  \* tiles of the current frame still to be put in the queue
  dropped,   \* tileDrops > 0 in the current frame
  encoded,   \* m_encodedFrameQueue
  repair,    \* resendTiles: the picture it copied and the tiles it sends
  wire,      \* the viewer's socket
  asked,     \* a SCREEN_KEYFRAME on its way to the host
  tileQ,     \* the controller's m_tileQueue
  canvas,    \* m_tileCanvas
  damaged,   \* m_pendingNack
  nacked     \* a SCREEN_TILE_REQUEST on its way to the host

encoderVars == <<enc, cached, outgoing, dropped>>
viewerVars == <<tileQ, canvas, damaged>>
vars == <<screen, raw, tiled, keyReq, maxTiles, budget, encoderVars, encoded,
          repair, wire, asked, viewerVars, nacked>>

NoCanvas == [size |-> NoSize, px |-> [i \in Tiles |-> Unsent]]

\* A SCREEN_TILE, or a whole frame.
Tile(image, i) == [tile |-> i, size |-> image.size, px |-> image.px[i]]
WholeFrame == [tile |-> 0]
Message == [tile : Tiles, size : Sizes, px : Content] \cup {WholeFrame}

TypeOK ==
  /\ screen \in Image
  /\ raw \in Seq([image : Image, dirty : SUBSET Tiles])
  /\ {tiled, keyReq, dropped, asked} \subseteq BOOLEAN
  /\ budget \in 0..BudgetMax /\ maxTiles \in 0..BudgetMax
  /\ enc \in Encoder
  /\ cached \in Image \cup {NoImage}
  /\ \A q \in {outgoing, encoded, wire, tileQ} : q \in Seq(Message)
  /\ repair \in [image : Image \cup {NoImage}, tiles : SUBSET Tiles]
  /\ canvas \in [size : Sizes \cup {NoSize}, px : [Tiles -> Content \cup {Unsent}]]
  /\ damaged \subseteq Tiles /\ nacked \subseteq Tiles

Init ==
  /\ screen \in Image
  /\ raw = <<>>
  /\ tiled = FALSE
  /\ keyReq = FALSE
  /\ maxTiles = 0
  /\ budget = 0
  /\ enc = NewEncoder
  /\ cached = NoImage
  /\ outgoing = <<>>
  /\ dropped = FALSE
  /\ encoded = <<>>
  /\ repair = [image |-> NoImage, tiles |-> {}]
  /\ wire = <<>>
  /\ asked = TRUE
  /\ tileQ = <<>>
  /\ canvas = NoCanvas
  /\ damaged = {}
  /\ nacked = {}

-----------------------------------------------------------------------------
\* onCaptureTimer: a frame with the tiles in which it differs from the last
\* one; an empty set is no hint, and a capture without metadata gives none.
\* A full queue drops the frame.
Capture(image, hint) ==
  /\ FastEncoder => Len(raw) < RawCap
  /\ screen' = image
  /\ LET dirty == IF hint /\ image.size = screen.size
                  THEN {i \in Tiles : image.px[i] # screen.px[i]} ELSE {}
     IN raw' = IF Len(raw) < RawCap
               THEN Append(raw, [image |-> image, dirty |-> dirty]) ELSE raw
  /\ UNCHANGED <<tiled, keyReq, maxTiles, budget, encoderVars, encoded, repair, wire,
                 asked, viewerVars, nacked>>

\* Mutant: the frame that is kept tells of itself only.
TakeFrameOnly(q) ==
  LET n == IF Len(q) > KeepRaw THEN Len(q) - KeepRaw ELSE 1
  IN [image |-> q[n].image, dirty |-> q[n].dirty, rest |-> SubSeq(q, n + 1, Len(q))]

\* The frame the encode thread takes: it skips stale frames until KeepRaw are
\* left, and the frame it keeps has the dirty tiles of all it took, or no hint
\* if one of them had none.
TakeFrame(q) ==
  LET n == IF Len(q) > KeepRaw THEN Len(q) - KeepRaw ELSE 1
      taken == {q[k].dirty : k \in 1..n}
  IN [image |-> q[n].image,
      dirty |-> IF {} \in taken THEN {} ELSE UNION taken,
      rest |-> SubSeq(q, n + 1, Len(q))]

\* The tiles of S in scan order behind the one under the mouse, wherever that is.
MouseFirst(S) ==
  {order \in Bijection(1..Cardinality(S), S) :
     \A j, k \in DOMAIN order : 1 < j /\ j < k => order[j] < order[k]}

\* One round of processFrames up to the first enqueue.
EncodeTiles ==
  /\ tiled
  /\ LET f == TakeFrame(raw)
         built == Build([enc EXCEPT !.force = @ \/ keyReq], f.image, f.dirty, maxTiles)
     IN /\ raw' = f.rest
        /\ enc' = built.enc
        /\ IF built.tiles = {}
           THEN UNCHANGED <<cached, outgoing>>
           ELSE /\ cached' = f.image
                /\ \E order \in MouseFirst(built.tiles) :
                     outgoing' = [k \in DOMAIN order |-> Tile(f.image, order[k])]
  /\ keyReq' = FALSE
  /\ UNCHANGED encoded

\* The encoder may return nothing, and a full queue drops the frame.
EncodeWhole ==
  /\ ~tiled
  /\ raw' = TakeFrame(raw).rest
  /\ \/ Len(encoded) < EncodedCap /\ encoded' = Append(encoded, WholeFrame)
     \/ UNCHANGED encoded
  /\ UNCHANGED <<keyReq, enc, cached, outgoing>>

Encode ==
  /\ outgoing = <<>> /\ ~dropped
  /\ raw # <<>>
  /\ FastLink => encoded = <<>>
  /\ FastRepair => repair.tiles = {}
  /\ EncodeTiles \/ EncodeWhole
  /\ UNCHANGED <<screen, tiled, maxTiles, budget, dropped, repair, wire, asked, viewerVars,
                 nacked>>

\* Mutant: a tile the queue refused is lost and nothing is done about it.
PutTileOrLoseIt ==
  /\ outgoing # <<>>
  /\ outgoing' = Tail(outgoing)
  /\ encoded' = IF Len(encoded) < EncodedCap THEN Append(encoded, Head(outgoing)) ELSE encoded
  /\ UNCHANGED <<screen, raw, tiled, keyReq, maxTiles, budget, enc, cached, dropped, repair,
                 wire, asked, viewerVars, nacked>>

\* One turn of the loop that puts the tiles of a frame in the queue.
PutTile ==
  /\ outgoing # <<>>
  /\ outgoing' = Tail(outgoing)
  /\ IF Len(encoded) < EncodedCap
     THEN encoded' = Append(encoded, Head(outgoing)) /\ UNCHANGED dropped
     ELSE dropped' = TRUE /\ UNCHANGED encoded
  /\ UNCHANGED <<screen, raw, tiled, keyReq, maxTiles, budget, enc, cached, repair, wire,
                 asked, viewerVars, nacked>>

\* After the loop, a dropped tile makes the next frame a key frame.
EndFrame ==
  /\ outgoing = <<>> /\ dropped
  /\ dropped' = FALSE
  /\ enc' = [enc EXCEPT !.force = TRUE]
  /\ UNCHANGED <<screen, raw, tiled, keyReq, maxTiles, budget, cached, outgoing, encoded,
                 repair, wire, asked, viewerVars, nacked>>

-----------------------------------------------------------------------------
\* drainQueue: one batch, dropped whole while the socket is behind.  The socket
\* holds one batch here.
Drain ==
  /\ encoded # <<>>
  /\ repair.tiles = {}
  /\ encoded' = <<>>
  /\ \/ wire = <<>> /\ wire' = encoded
     \/ ~FastLink /\ wire # <<>> /\ UNCHANGED wire
  /\ UNCHANGED <<screen, raw, tiled, keyReq, maxTiles, budget, encoderVars, repair, asked,
                 viewerVars, nacked>>

\* The new tile budget after a look at the worst link.
NextBudget(link) ==
  LET b == IF budget > 0 THEN budget ELSE BudgetMax
      moved == CASE link = "congested" -> b \div 2
                 [] link = "healthy" -> b + BudgetMin
                 [] OTHER -> b
  IN IF moved < BudgetMin THEN BudgetMin ELSE IF moved > BudgetMax THEN BudgetMax ELSE moved

ApplyTileBudget(link) ==
  IF link = "silent"
  THEN budget' = BudgetMax /\ maxTiles' = 0
  ELSE /\ budget' = NextBudget(link)
       /\ maxTiles' = IF budget' >= BudgetMax THEN 0 ELSE budget'

\* Mutant: entering tiled mode trusts the tiles of the last time.
SetTiledModeOnly(on) ==
  /\ tiled' = on
  /\ \E link \in Links : ApplyTileBudget(link)
  /\ UNCHANGED keyReq

\* updateTileTransportMode when the mode changes, and setTiledMode.  It sets the
\* mode and then asks for a key frame; a frame that the encode thread takes
\* between the two only precedes the key frame, so they are one step here.
SetTiledMode(on) ==
  /\ tiled' = on
  /\ keyReq' = (keyReq \/ on)
  /\ IF on THEN \E link \in Links : ApplyTileBudget(link)
     ELSE budget' = 0 /\ maxTiles' = 0

\* SCREEN_KEYFRAME reaches the host; the first one may make it use tiles.
HandleKeyFrameRequest ==
  /\ asked
  /\ repair.tiles = {}
  /\ asked' = FALSE
  /\ \/ keyReq' = TRUE /\ UNCHANGED <<tiled, budget, maxTiles>>
     \/ ~tiled /\ SetTiledMode(TRUE)
  /\ UNCHANGED <<screen, raw, encoderVars, encoded, repair, wire, viewerVars, nacked>>

\* Another encoder, or a viewer that comes or goes, changes the mode.
SwitchTransport ==
  /\ MaySwitch
  /\ repair.tiles = {}
  /\ SetTiledMode(~tiled)
  /\ UNCHANGED <<screen, raw, encoderVars, encoded, repair, wire, asked, viewerVars, nacked>>

\* onQualityTimer; every fifth time it asks for a key frame.
QualityTimer(link, keyFrame) ==
  /\ tiled
  /\ repair.tiles = {}
  /\ ApplyTileBudget(link)
  /\ keyReq' = (keyReq \/ keyFrame)
  /\ UNCHANGED <<screen, raw, tiled, encoderVars, encoded, repair, wire, asked, viewerVars,
                 nacked>>

\* SCREEN_TILE_REQUEST reaches the host: resendTiles copies the cached frame,
\* then encodes and queues tile after tile while the encode thread goes on.
StartRepair ==
  /\ nacked # {}
  /\ repair.tiles = {}
  /\ nacked' = {}
  /\ repair' = [image |-> cached, tiles |-> IF cached = NoImage THEN {} ELSE nacked]
  /\ UNCHANGED <<screen, raw, tiled, keyReq, maxTiles, budget, encoderVars, encoded, wire,
                 asked, viewerVars>>

\* The next tile of the repair; a full queue ends the repair.
PutRepair(i) ==
  /\ i \in repair.tiles
  /\ IF Len(encoded) < EncodedCap
     THEN /\ encoded' = Append(encoded, Tile(repair.image, i))
          /\ repair' = [repair EXCEPT !.tiles = @ \ {i}]
     ELSE /\ repair' = [repair EXCEPT !.tiles = {}]
          /\ UNCHANGED encoded
  /\ UNCHANGED <<screen, raw, tiled, keyReq, maxTiles, budget, encoderVars, wire, asked,
                 viewerVars, nacked>>

-----------------------------------------------------------------------------
\* handleScreenTile, on the controller's main thread.
Receive ==
  /\ wire # <<>>
  /\ FastViewer => Len(tileQ) < TileCap
  /\ wire' = Tail(wire)
  /\ IF Head(wire) = WholeFrame THEN UNCHANGED <<tileQ, asked>>
     ELSE IF Len(tileQ) < TileCap THEN tileQ' = Append(tileQ, Head(wire)) /\ UNCHANGED asked
     ELSE asked' = TRUE /\ UNCHANGED tileQ
  /\ UNCHANGED <<screen, raw, tiled, keyReq, maxTiles, budget, encoderVars, encoded, repair,
                 canvas, damaged, nacked>>

\* A tile of another desktop size starts a new canvas.
Paint(picture, t) ==
  LET base == IF picture.size = t.size THEN picture ELSE [NoCanvas EXCEPT !.size = t.size]
  IN [base EXCEPT !.px[t.tile] = t.px]

\* applyTile, on the decode thread.
Apply ==
  /\ tileQ # <<>>
  /\ tileQ' = Tail(tileQ)
  /\ canvas' = Paint(canvas, Head(tileQ))
  /\ UNCHANGED <<screen, raw, tiled, keyReq, maxTiles, budget, encoderVars, encoded, repair,
                 wire, asked, damaged, nacked>>

\* Mutant: a damaged tile is dropped and not asked for again.
DropDamaged(kind) ==
  /\ tileQ # <<>>
  /\ tileQ' = Tail(tileQ)
  /\ UNCHANGED <<screen, raw, tiled, keyReq, maxTiles, budget, encoderVars, encoded, repair,
                 wire, asked, canvas, damaged, nacked>>

\* applyTile on a damaged tile: only a wrong hash tells which tile it was.
ApplyDamaged(kind) ==
  /\ tileQ # <<>>
  /\ tileQ' = Tail(tileQ)
  /\ damaged' = IF kind = "hash" THEN damaged \cup {Head(tileQ).tile} ELSE damaged
  /\ UNCHANGED <<screen, raw, tiled, keyReq, maxTiles, budget, encoderVars, encoded, repair,
                 wire, asked, canvas, nacked>>

\* sendPendingNack.
SendNack ==
  /\ damaged # {}
  /\ nacked' = nacked \cup damaged
  /\ damaged' = {}
  /\ UNCHANGED <<screen, raw, tiled, keyReq, maxTiles, budget, encoderVars, encoded, repair,
                 wire, asked, tileQ, canvas>>

\* The controller connects again: a new decode worker has an empty queue and no
\* canvas, the old socket is gone, and the answer to AUTH_RESP is SCREEN_KEYFRAME.
Rejoin ==
  /\ MaySwitch
  /\ wire' = <<>>
  /\ asked' = TRUE
  /\ tileQ' = <<>>
  /\ canvas' = NoCanvas
  /\ nacked' = {}
  /\ UNCHANGED <<screen, raw, tiled, keyReq, maxTiles, budget, encoderVars, encoded, repair,
                 damaged>>

\* Every tile takes this way once.
TransportStep ==
  \/ \E image \in Image, hint \in BOOLEAN : Capture(image, hint)
  \/ Encode \/ PutTile \/ EndFrame
  \/ Drain \/ HandleKeyFrameRequest \/ SwitchTransport
  \/ \E link \in Links, keyFrame \in BOOLEAN : QualityTimer(link, keyFrame)
  \/ Receive \/ Apply \/ Rejoin
  \/ \E kind \in Damage : ApplyDamaged(kind)

\* A tile with a wrong hash is asked for and sent again.
RepairStep ==
  \/ SendNack \/ StartRepair
  \/ \E i \in Tiles : PutRepair(i)

Next == TransportStep \/ RepairStep

Spec == Init /\ [][Next]_vars

\* Every worker is a loop or a timer; m_qualityTimer asks for a key frame every
\* ten seconds for as long as tiles are in use; and a tile that arrives again
\* and again is not damaged every time.
Fairness ==
  /\ WF_vars(\E image \in Image, hint \in BOOLEAN : Capture(image, hint))
  /\ WF_vars(Encode) /\ WF_vars(PutTile) /\ WF_vars(EndFrame)
  /\ WF_vars(Drain) /\ WF_vars(Receive)
  /\ \A i \in Tiles : SF_vars(Apply /\ Head(tileQ).tile = i)
  /\ WF_vars(HandleKeyFrameRequest)
  /\ WF_vars(\E link \in Links : QualityTimer(link, TRUE))

FairSpec == Spec /\ Fairness

-----------------------------------------------------------------------------
\* A key frame is to be built: the encoder or the host knows, or is being told.
KeyFrameComing == enc.force \/ keyReq \/ asked \/ dropped

\* The messages of q that decide what tile i of a desktop of that size shows:
\* they carry it, or another desktop size.
Telling(q, i, size) ==
  {k \in DOMAIN q : q[k] # WholeFrame /\ (q[k].tile = i \/ q[k].size # size)}

\* The last of them carries px.
LastTells(q, i, size, px) ==
  \E k \in Telling(q, i, size) :
    /\ q[k] = [tile |-> i, size |-> size, px |-> px]
    /\ \A l \in Telling(q, i, size) : l <= k

\* What the canvas will be when all that was sent has arrived: this size, and
\* px in tile i.
WillShow(i, size, px) ==
  LET onTheWay == tileQ \o wire \o encoded \o outgoing
  IN \/ LastTells(onTheWay, i, size, px)
     \/ Telling(onTheWay, i, size) = {} /\ canvas.size = size /\ canvas.px[i] = px

\* What the encoder skips as unchanged, the viewer has or will have, whatever
\* was dropped, damaged or asked for again on the way
\* (tile_encoder.cpp: "unchanged, the client's cached tile is still correct").
SkippedTilesAreCorrect ==
  (tiled /\ ~KeyFrameComing) =>
    \A i \in Tiles \ (damaged \cup nacked \cup repair.tiles) :
      WillShow(i, enc.size, enc.hash[i])

\* One of the frames of q makes the encoder look at tile i.
Told(q, i) == \E k \in DOMAIN q : q[k].dirty = {} \/ i \in q[k].dirty

\* A tile that changed since it was sent is on the encoder's list, or in the
\* dirty tiles of a frame it still gets (host.cpp: "The dirty regions of the
\* skipped frames must be carried forward").
ChangesAreKnown ==
  (tiled /\ ~KeyFrameComing) =>
    \A i \in Tiles : screen.px[i] # enc.hash[i] =>
      i \in enc.carry \/ Told(raw, i)

\* A screen that stands still comes to be the viewer's picture, because a key
\* frame bounds how long a lost tile stays wrong (host.cpp, onQualityTimer).
Converges ==
  \A image \in Image : <>[](screen = image /\ tiled) => <>[](canvas = image)
=============================================================================
