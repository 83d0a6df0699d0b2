--------------------------- MODULE MCTileRecovery ----------------------------
(***************************************************************************)
(* What becomes of tiles that arrive damaged: TileTransport on two small   *)
(* desktops in one run, told apart by part.  "unreadable": two tiles that  *)
(* nobody can attribute and only a key frame repairs.  "hash": one tile    *)
(* that is asked for and sent again, on a desktop that changes its size.   *)
(***************************************************************************)
EXTENDS Naturals, Sequences

CONSTANTS Content, Size, OtherSize, Unsent, NoSize, NoImage

VARIABLES part, screen, raw, tiled, keyReq, maxTiles, budget, enc, cached, outgoing, dropped,
          encoded, repair, wire, asked, tileQ, canvas, damaged, nacked

\* What the ACKs say of the link to the viewer of unreadable tiles.
LinksUnread == {"silent"}

Unread == INSTANCE TileTransport WITH
  NumTiles <- 2, Sizes <- {Size}, RawCap <- 1, KeepRaw <- 0, EncodedCap <- 2, TileCap <- 1,
  BudgetMin <- 1, BudgetMax <- 2, Links <- LinksUnread, FastEncoder <- TRUE, FastLink <- TRUE,
  FastRepair <- FALSE, FastViewer <- TRUE, Damage <- {"unreadable"}, MaySwitch <- FALSE

Repairs == INSTANCE TileTransport WITH
  NumTiles <- 1, Sizes <- {Size, OtherSize}, RawCap <- 1, KeepRaw <- 0, EncodedCap <- 1,
  TileCap <- 1, BudgetMin <- 1, BudgetMax <- 2, Links <- {"silent"}, FastEncoder <- TRUE,
  FastLink <- TRUE, FastRepair <- TRUE, FastViewer <- TRUE, Damage <- {"hash"},
  MaySwitch <- FALSE

vars == <<part, screen, raw, tiled, keyReq, maxTiles, budget, enc, cached, outgoing, dropped,
          encoded, repair, wire, asked, tileQ, canvas, damaged, nacked>>

Init ==
  \/ part = "unreadable" /\ Unread!Init
  \/ part = "hash" /\ Repairs!Init

Next ==
  /\ part' = part
  /\ \/ part = "unreadable" /\ Unread!Next
     \/ part = "hash" /\ Repairs!Next

Here(A) == part = "unreadable" /\ A /\ part' = part

\* The fairness of TileTransport!Spec; only the part "unreadable" promises progress.
Spec ==
  /\ Init /\ [][Next]_vars
  /\ WF_vars(Here(\E image \in Unread!Image, hint \in BOOLEAN : Unread!Capture(image, hint)))
  /\ WF_vars(Here(Unread!Encode)) /\ WF_vars(Here(Unread!PutTile)) /\ WF_vars(Here(Unread!EndFrame))
  /\ WF_vars(Here(Unread!Drain)) /\ WF_vars(Here(Unread!Receive))
  /\ \A i \in Unread!Tiles : SF_vars(Here(Unread!Apply /\ Head(tileQ).tile = i))
  /\ WF_vars(Here(Unread!HandleKeyFrameRequest))
  /\ WF_vars(Here(\E link \in LinksUnread : Unread!QualityTimer(link, TRUE)))

\* What arrives damaged is repaired.  A screen that stands still becomes the viewer's picture
\* although tiles arrive unreadable again and again: nobody asks for such a tile, only the key
\* frames that the quality timer forces bring it back (host.cpp:1288).  And a tile with a wrong
\* hash is sent again from the last frame (host.cpp:196), so that what the encoder skips as
\* unchanged is right, over every change of the desktop's size, if no frame is encoded meanwhile.
DamageIsRepaired ==
  /\ part = "unreadable" => Unread!Converges
  /\ [](part = "hash" => Repairs!SkippedTilesAreCorrect)
=============================================================================
