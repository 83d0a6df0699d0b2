--------------------------- MODULE MCTileTransport ---------------------------
(***************************************************************************)
(* TileTransport on a desktop of one or two tiles: one that changes beside *)
(* one that does not.                                                      *)
(***************************************************************************)
EXTENDS TileTransport, TLC

\* What a tile shows does not matter.
AnyContent == Permutations(Content)

\* Where no tile is damaged no RepairStep is ever enabled.
UndamagedSpec == Init /\ [][TransportStep]_vars

\* Nor does anybody read m_lastRawFrame there.
Uncached == <<screen, raw, tiled, keyReq, maxTiles, budget, enc, outgoing, dropped, encoded,
              repair, wire, asked, viewerVars, nacked>>
=============================================================================
