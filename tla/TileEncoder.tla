----------------------------- MODULE TileEncoder -----------------------------
(***************************************************************************)
(* hw/tile_encoder.cpp: which tiles of a frame are sent.  The encoder is a *)
(* record; a frame is a desktop size and the content of each tile of its   *)
(* grid, numbered in scan order.  Hashes are taken to be free of           *)
(* collisions, so that a hash is the content, and every tile encodes to    *)
(* some data.                                                              *)
(***************************************************************************)
EXTENDS Naturals, FiniteSets

CONSTANTS NumTiles,  \* tiles of the grid
          Content,   \* what a tile may show
          Sizes,     \* desktop sizes
          Unsent,    \* a tile that no hash was recorded for
          NoSize     \* the size before the first frame

Tiles == 1..NumTiles

ASSUME EncoderAssumption ==
  /\ NumTiles \in Nat \ {0}
  /\ Unsent \notin Content
  /\ NoSize \notin Sizes

Image == [size : Sizes, px : [Tiles -> Content]]

Encoder ==
  [size : Sizes \cup {NoSize}, hash : [Tiles -> Content \cup {Unsent}],
   carry : SUBSET Tiles, force : BOOLEAN]

NewEncoder ==
  [size |-> NoSize, hash |-> [i \in Tiles |-> Unsent], carry |-> {}, force |-> TRUE]

\* Mutant: the hashes of the old grid are kept.
ResizeGridKeepingTiles(enc, size) == [enc EXCEPT !.size = size]

\* resizeGrid: another size forgets every tile and asks for a key frame.
ResizeGrid(enc, size) ==
  IF size = enc.size THEN enc ELSE [NewEncoder EXCEPT !.size = size]

\* The tiles looked at: all on a key frame or without dirty rectangles, else
\* the dirty ones and those an earlier frame had no budget for.
Candidates(enc, dirty) ==
  IF enc.force \/ dirty = {} THEN Tiles ELSE enc.carry \cup dirty

\* Mutant: a key frame skips the tiles whose hash did not change.
ChangedOnly(enc, px, dirty) ==
  {i \in Candidates(enc, dirty) : enc.hash[i] # px[i]}

Changed(enc, px, dirty) ==
  {i \in Candidates(enc, dirty) : enc.force \/ enc.hash[i] # px[i]}

\* The first max of the tiles of S in scan order; 0 means no limit.
WithinBudget(S, max) ==
  {i \in S : max = 0 \/ Cardinality({j \in S : j < i}) < max}

\* Mutant: a tile that did not fit is not carried over.
BuildForgetful(enc, image, dirty, max) ==
  LET e == ResizeGrid(enc, image.size)
      sent == WithinBudget(Changed(e, image.px, dirty), max)
  IN [enc |-> [e EXCEPT !.hash = [i \in Tiles |-> IF i \in sent THEN image.px[i] ELSE @[i]],
                        !.carry = {},
                        !.force = FALSE],
      tiles |-> sent]

\* buildTiles: the encoder after the frame, and the tiles to send.
Build(enc, image, dirty, max) ==
  LET e == ResizeGrid(enc, image.size)
      due == Changed(e, image.px, dirty)
      sent == WithinBudget(due, max)
  IN [enc |-> [e EXCEPT !.hash = [i \in Tiles |-> IF i \in sent THEN image.px[i] ELSE @[i]],
                        !.carry = due \ sent,
                        !.force = e.force /\ due # sent],
      tiles |-> sent]
=============================================================================
