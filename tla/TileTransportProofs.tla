------------------------- MODULE TileTransportProofs -------------------------
(***************************************************************************)
(* For any grid, any desktop sizes, any budget and any queues:             *)
(* if the encode thread keeps up with the captures, every tile that        *)
(* changed on the screen is still on its way to the viewer: on the         *)
(* encoder's list, among the dirty tiles of a queued frame, or due with a  *)
(* key frame (ChangesKnown, whatever the link and the damage); if the      *)
(* network keeps up and damages nothing, a tile the encoder skips as       *)
(* unchanged is what the viewer has or will have (SkippedAreCorrect).      *)
(***************************************************************************)
EXTENDS TileTransport, FiniteSetTheorems, WellFoundedInduction, TLAPS

Frame == [image : Image, dirty : SUBSET Tiles]

\* The part of TypeOK that the argument needs.
PicturesTyped ==
  /\ screen \in Image
  /\ raw \in Seq(Frame)
  /\ enc \in Encoder

\* A queued frame that shows a tile differently than the screen does is followed
\* by a frame that tells of the change.
FramesTellChanges ==
  \A k \in DOMAIN raw : \A i \in Tiles :
    raw[k].image.px[i] # screen.px[i] =>
      \E j \in DOMAIN raw : j > k /\ (raw[j].dirty = {} \/ i \in raw[j].dirty)

Inv == PicturesTyped /\ FramesTellChanges /\ ChangesAreKnown

-----------------------------------------------------------------------------
\* The encoder r that is left of encoder e has sent tile i as the image shows it,
\* or keeps it on its list, or stays in key frame mode, or was not told to look.
Looked(e, r, image, dirty, i) ==
  (~r.force /\ i \notin r.carry /\ r.hash[i] # image.px[i]) =>
    /\ ~e.force /\ i \notin e.carry /\ r.hash[i] = e.hash[i]
    /\ dirty # {} /\ i \notin dirty

\* buildTiles.
LEMMA BuildLooks ==
  ASSUME NEW e \in Encoder, NEW image \in Image, NEW dirty \in SUBSET Tiles, NEW max,
         NEW i \in Tiles, NEW r, r = Build(e, image, dirty, max).enc
  PROVE  r \in Encoder /\ Looked(e, r, image, dirty, i)
<1> DEFINE g == ResizeGrid(e, image.size)
           due == Changed(g, image.px, dirty)
           sent == WithinBudget(due, max)
<1>1. g \in Encoder /\ (g = e \/ g.force = TRUE)
  BY EncoderAssumption DEF ResizeGrid, NewEncoder, Encoder, Image
<1>2. sent \subseteq due /\ due \subseteq Tiles
  <2>1. sent \subseteq due
    BY DEF WithinBudget
  <2>2. Candidates(g, dirty) \subseteq Tiles
    BY <1>1 DEF Candidates, Encoder
  <2> QED
    BY <2>1, <2>2 DEF Changed
<1>3. r = [g EXCEPT !.hash = [j \in Tiles |-> IF j \in sent THEN image.px[j] ELSE g.hash[j]],
                    !.carry = due \ sent,
                    !.force = g.force /\ due # sent]
  BY DEF Build
<1>4. /\ r \in Encoder
      /\ r.hash = [j \in Tiles |-> IF j \in sent THEN image.px[j] ELSE g.hash[j]]
      /\ r.carry = due \ sent
      /\ r.force = (g.force /\ due # sent)
  <2> HIDE DEF g, due, sent
  <2>1. [j \in Tiles |-> IF j \in sent THEN image.px[j] ELSE g.hash[j]]
          \in [Tiles -> Content \cup {Unsent}]
    BY <1>1 DEF Encoder, Image
  <2>2. due \ sent \in SUBSET Tiles
    BY <1>2
  <2> QED
    BY <1>1, <1>3, <2>1, <2>2 DEF Encoder
<1>5. ASSUME ~r.force, i \notin r.carry, r.hash[i] # image.px[i]
      PROVE  ~e.force /\ i \notin e.carry /\ r.hash[i] = e.hash[i] /\ dirty # {} /\ i \notin dirty
  <2> HIDE DEF g, due, sent
  <2>1. i \notin sent
    BY <1>4, <1>5
  <2>2. i \notin due
    BY <1>4, <1>5, <2>1
  <2>3. ~g.force
    <3>1. CASE g.force
      <4>1. due = sent
        BY <1>4, <1>5, <3>1
      <4>2. i \in due
        BY <3>1 DEF due, Changed, Candidates
      <4> QED
        BY <4>1, <4>2, <2>1
    <3> QED
      BY <3>1
  <2>4. g = e
    BY <1>1, <2>3
  <2>5. e.hash[i] # image.px[i] /\ r.hash[i] = e.hash[i]
    BY <1>4, <1>5, <2>1, <2>4
  <2>6. i \notin Candidates(e, dirty)
    BY <2>2, <2>4, <2>5 DEF due, Changed
  <2> QED
    BY <2>3, <2>4, <2>5, <2>6 DEF Candidates
<1> QED
  BY <1>4, <1>5 DEF Looked

\* The frame the encode thread takes brings the dirty tiles of all it skipped.
LEMMA TakeKeepsChanges ==
  ASSUME NEW q \in Seq(Frame), q # <<>>, NEW i \in Tiles
  PROVE  LET f == TakeFrame(q)
         IN /\ f.image \in Image /\ f.dirty \in SUBSET Tiles /\ f.rest \in Seq(Frame)
            /\ Told(q, i) => (Told(f.rest, i) \/ f.dirty = {} \/ i \in f.dirty)
            /\ \E n \in 1..Len(q) :
                 /\ f.image = q[n].image
                 /\ Len(f.rest) = Len(q) - n
                 /\ \A k \in 1..Len(f.rest) : f.rest[k] = q[n + k]
<1> DEFINE n == IF Len(q) > KeepRaw THEN Len(q) - KeepRaw ELSE 1
           taken == {q[k].dirty : k \in 1..n}
           rest == SubSeq(q, n + 1, Len(q))
           f == TakeFrame(q)
<1>1. n \in 1..Len(q)
  BY TransportAssumption
<1>2. f = [image |-> q[n].image,
           dirty |-> IF {} \in taken THEN {} ELSE UNION taken,
           rest |-> rest]
  BY DEF TakeFrame
<1> HIDE DEF n, f
<1>3. \A k \in 1..Len(q) : q[k] \in Frame
  OBVIOUS
<1>4. q[n].image \in Image
  BY <1>1, <1>3 DEF Frame
<1>5. UNION taken \in SUBSET Tiles
  <2>1. \A k \in 1..n : q[k].dirty \subseteq Tiles
    BY <1>1, <1>3 DEF Frame
  <2> QED
    BY <2>1
<1>6. rest \in Seq(Frame) /\ Len(rest) = Len(q) - n /\ \A k \in 1..Len(rest) : rest[k] = q[n + k]
  BY <1>1
<1>7. ASSUME Told(q, i), ~Told(rest, i)
      PROVE  {} \in taken \/ i \in UNION taken
  <2>1. PICK k \in DOMAIN q : q[k].dirty = {} \/ i \in q[k].dirty
    BY <1>7 DEF Told
  <2>2. k \in 1..n
    <3>1. CASE k > n
      <4>1. k - n \in 1..Len(rest) /\ rest[k - n] = q[k]
        BY <1>1, <1>6, <3>1
      <4> HIDE DEF rest
      <4>2. k - n \in DOMAIN rest
        BY <1>6, <4>1
      <4> QED
        BY <1>7, <2>1, <4>1, <4>2 DEF Told
    <3> QED
      BY <1>1, <3>1
  <2>3. q[k].dirty \in taken
    BY <2>2
  <2> QED
    BY <2>1, <2>3
<1> HIDE DEF taken, rest
<1>8. Told(q, i) => (Told(f.rest, i) \/ f.dirty = {} \/ i \in f.dirty)
  BY <1>2, <1>7
<1> QED
  BY <1>1, <1>2, <1>4, <1>5, <1>6, <1>8 DEF f
-----------------------------------------------------------------------------
LEMMA InitInv == Init => Inv
<1> SUFFICES ASSUME Init PROVE Inv
  OBVIOUS
<1>1. PicturesTyped
  BY DEF Init, PicturesTyped, NewEncoder, Encoder, Frame
<1>2. FramesTellChanges
  BY DEF Init, FramesTellChanges
<1>3. ChangesAreKnown
  BY DEF Init, ChangesAreKnown, KeyFrameComing
<1> QED
  BY <1>1, <1>2, <1>3 DEF Inv

\* A captured frame brings the tiles in which it differs from the one before.
LEMMA CaptureInv ==
  ASSUME FastEncoder, Inv, NEW image \in Image, NEW hint \in BOOLEAN, Capture(image, hint)
  PROVE  Inv'
<1> DEFINE dirty == IF hint /\ image.size = screen.size
                    THEN {i \in Tiles : image.px[i] # screen.px[i]} ELSE {}
           new == [image |-> image, dirty |-> dirty]
<1>1. screen' = image /\ raw' = Append(raw, new)
  BY DEF Capture
<1>2. UNCHANGED <<enc, tiled, keyReq, asked, dropped>>
  BY DEF Capture, encoderVars, vars
<1>3. dirty \in SUBSET Tiles
  OBVIOUS
<1>4. \A i \in Tiles : image.px[i] # screen.px[i] => dirty = {} \/ i \in dirty
  OBVIOUS
<1> HIDE DEF dirty
<1>5. new \in Frame
  BY <1>3 DEF Frame
<1>6. PicturesTyped'
  BY <1>1, <1>2, <1>5 DEF Inv, PicturesTyped
<1>7. /\ Len(raw') = Len(raw) + 1 /\ DOMAIN raw' = 1..Len(raw) + 1
      /\ DOMAIN raw = 1..Len(raw) /\ Len(raw) \in Nat
      /\ raw'[Len(raw) + 1] = new
      /\ \A k \in 1..Len(raw) : raw'[k] = raw[k]
  BY <1>1, <1>5 DEF Inv, PicturesTyped
<1>8. FramesTellChanges'
  <2> SUFFICES ASSUME NEW k \in DOMAIN raw', NEW i \in Tiles,
                      raw'[k].image.px[i] # screen'.px[i]
               PROVE  \E j \in DOMAIN raw' :
                        j > k /\ (raw'[j].dirty = {} \/ i \in raw'[j].dirty)
    BY DEF FramesTellChanges
  <2>1. k \in 1..Len(raw)
    BY <1>1, <1>7
  <2>2. CASE image.px[i] # screen.px[i]
    BY <1>4, <1>7, <2>1, <2>2
  <2>3. CASE image.px[i] = screen.px[i]
    <3>1. raw[k].image.px[i] # screen.px[i]
      BY <1>1, <1>7, <2>1, <2>3
    <3>2. PICK j \in DOMAIN raw : j > k /\ (raw[j].dirty = {} \/ i \in raw[j].dirty)
      BY <1>7, <2>1, <3>1 DEF Inv, FramesTellChanges
    <3> QED
      BY <1>7, <3>2
  <2> QED
    BY <2>2, <2>3
<1>9. ChangesAreKnown'
  <2> SUFFICES ASSUME tiled', ~KeyFrameComing', NEW i \in Tiles,
                      screen'.px[i] # enc'.hash[i]
               PROVE  i \in enc'.carry \/ Told(raw', i)
    BY DEF ChangesAreKnown, Told
  <2>1. CASE image.px[i] # screen.px[i]
    BY <1>4, <1>7, <2>1 DEF Told
  <2>2. CASE image.px[i] = screen.px[i]
    <3>1. i \in enc.carry \/ Told(raw, i)
      BY <1>1, <1>2, <2>2 DEF Inv, ChangesAreKnown, KeyFrameComing
    <3>2. Told(raw, i) => Told(raw', i)
      BY <1>7 DEF Told
    <3> QED
      BY <1>2, <3>1, <3>2
  <2> QED
    BY <2>1, <2>2
<1> QED
  BY <1>6, <1>8, <1>9 DEF Inv

\* What is left in m_rawFrameQueue still tells of every later change.
LEMMA TakeInv ==
  ASSUME Inv, raw # <<>>, raw' = TakeFrame(raw).rest, UNCHANGED screen
  PROVE  /\ FramesTellChanges'
         /\ \A i \in Tiles : TakeFrame(raw).image.px[i] # screen.px[i] => Told(raw', i)
<1> DEFINE f == TakeFrame(raw)
<1>1. raw \in Seq(Frame)
  BY DEF Inv, PicturesTyped
<1>2. f.rest \in Seq(Frame)
      /\ \E n \in 1..Len(raw) :
           /\ f.image = raw[n].image
           /\ Len(f.rest) = Len(raw) - n
           /\ \A k \in 1..Len(f.rest) : f.rest[k] = raw[n + k]
  <2>1. 1 \in Tiles
    BY EncoderAssumption DEF Tiles
  <2> QED
    BY <1>1, <2>1, TakeKeepsChanges
<1> HIDE DEF f
<1>3. PICK n \in 1..Len(raw) :
         /\ f.image = raw[n].image
         /\ Len(f.rest) = Len(raw) - n
         /\ \A k \in 1..Len(f.rest) : f.rest[k] = raw[n + k]
  BY <1>2
<1>4. /\ DOMAIN raw = 1..Len(raw) /\ Len(raw) \in Nat
      /\ raw' = f.rest /\ DOMAIN raw' = 1..(Len(raw) - n)
      /\ \A k \in DOMAIN raw' : raw'[k] = raw[n + k]
  <2>1. raw' = f.rest
    BY DEF f
  <2>2. DOMAIN f.rest = 1..Len(f.rest)
    BY <1>2
  <2>3. DOMAIN raw' = 1..(Len(raw) - n) /\ 1..Len(f.rest) = 1..(Len(raw) - n)
    BY <1>3, <2>1, <2>2
  <2>4. \A k \in DOMAIN raw' : raw'[k] = raw[n + k]
    BY <1>3, <2>1, <2>3
  <2> QED
    BY <1>1, <2>1, <2>3, <2>4
<1>5. ASSUME NEW k \in 0..(Len(raw) - n), NEW i \in Tiles,
             raw[n + k].image.px[i] # screen.px[i]
      PROVE  \E j \in DOMAIN raw' : j > k /\ (raw'[j].dirty = {} \/ i \in raw'[j].dirty)
  <2>1. n + k \in DOMAIN raw
    BY <1>4
  <2>2. PICK j \in DOMAIN raw : j > n + k /\ (raw[j].dirty = {} \/ i \in raw[j].dirty)
    BY <1>5, <2>1 DEF Inv, FramesTellChanges
  <2>3. j - n \in DOMAIN raw' /\ j - n > k /\ n + (j - n) = j
    BY <1>4, <2>2
  <2>4. raw'[j - n] = raw[j]
    BY <1>4, <2>3
  <2> QED
    BY <2>2, <2>3, <2>4
<1>6. FramesTellChanges'
  <2> SUFFICES ASSUME NEW k \in DOMAIN raw', NEW i \in Tiles,
                      raw'[k].image.px[i] # screen'.px[i]
               PROVE  \E j \in DOMAIN raw' :
                        j > k /\ (raw'[j].dirty = {} \/ i \in raw'[j].dirty)
    BY DEF FramesTellChanges
  <2>1. k \in 0..(Len(raw) - n) /\ raw[n + k].image.px[i] # screen.px[i]
    BY <1>4
  <2> QED
    BY <1>5, <2>1
<1>7. ASSUME NEW i \in Tiles, f.image.px[i] # screen.px[i]
      PROVE  Told(raw', i)
  <2>1. 0 \in 0..(Len(raw) - n) /\ n + 0 = n
    BY <1>4
  <2>2. raw[n].image.px[i] # screen.px[i]
    BY <1>3, <1>7
  <2> QED
    BY <1>5, <2>1, <2>2 DEF Told
<1> QED
  BY <1>6, <1>7 DEF f

LEMMA EncodeInv == ASSUME Inv, Encode PROVE Inv'
<1> DEFINE f == TakeFrame(raw)
           e == [enc EXCEPT !.force = enc.force \/ keyReq]
           r == Build(e, f.image, f.dirty, maxTiles).enc
<1>1. /\ raw # <<>> /\ raw' = f.rest /\ ~dropped
      /\ UNCHANGED <<screen, tiled, asked, dropped>>
      /\ EncodeTiles \/ EncodeWhole
  BY DEF Encode, EncodeTiles, EncodeWhole
<1>2. raw \in Seq(Frame) /\ enc \in Encoder
  BY DEF Inv, PicturesTyped
<1>3. /\ f.image \in Image /\ f.dirty \in SUBSET Tiles /\ f.rest \in Seq(Frame)
      /\ \A i \in Tiles : Told(raw, i) => (Told(f.rest, i) \/ f.dirty = {} \/ i \in f.dirty)
  <2>1. 1 \in Tiles
    BY EncoderAssumption DEF Tiles
  <2> QED
    BY <1>1, <1>2, <2>1, TakeKeepsChanges
<1>4. FramesTellChanges' /\ \A i \in Tiles : f.image.px[i] # screen.px[i] => Told(raw', i)
  BY <1>1, TakeInv
<1>5. CASE EncodeTiles
  <2>1. e \in Encoder /\ e.force = (enc.force \/ keyReq) /\ e.hash = enc.hash /\ e.carry = enc.carry
    BY <1>2 DEF Encoder
  <2>2. tiled /\ enc' = r /\ keyReq' = FALSE
    BY <1>5 DEF EncodeTiles
  <2> HIDE DEF e, f
  <2>3. r \in Encoder /\ \A i \in Tiles : Looked(e, r, f.image, f.dirty, i)
    <3>1. 1 \in Tiles
      BY EncoderAssumption DEF Tiles
    <3>2. r = Build(e, f.image, f.dirty, maxTiles).enc
      BY DEF r
    <3> HIDE DEF r
    <3> QED
      BY <1>3, <2>1, <3>1, <3>2, BuildLooks
  <2> HIDE DEF r
  <2>4. PicturesTyped'
    BY <1>1, <1>3, <2>2, <2>3 DEF Inv, PicturesTyped
  <2>5. ChangesAreKnown'
    <3> SUFFICES ASSUME tiled', ~KeyFrameComing', NEW i \in Tiles,
                        screen'.px[i] # enc'.hash[i], i \notin enc'.carry, ~Told(raw', i)
                 PROVE  FALSE
      BY DEF ChangesAreKnown, Told
    <3>1. f.image.px[i] = screen.px[i]
      BY <1>4
    <3>2. ~r.force /\ r.hash[i] # f.image.px[i] /\ i \notin r.carry
      BY <1>1, <2>2, <3>1 DEF KeyFrameComing
    <3>3. /\ ~e.force /\ i \notin e.carry /\ r.hash[i] = e.hash[i]
          /\ f.dirty # {} /\ i \notin f.dirty
      BY <2>3, <3>2 DEF Looked
    <3>4. ~KeyFrameComing
      BY <1>1, <2>1, <3>3 DEF KeyFrameComing
    <3>5. Told(raw, i)
      BY <1>1, <2>1, <2>2, <3>1, <3>2, <3>3, <3>4 DEF Inv, ChangesAreKnown
    <3> QED
      BY <1>1, <1>3, <3>3, <3>5
  <2> QED
    BY <1>4, <2>4, <2>5 DEF Inv
<1>6. CASE EncodeWhole
  <2>1. ~tiled /\ UNCHANGED enc
    BY <1>6 DEF EncodeWhole
  <2>2. PicturesTyped'
    BY <1>1, <1>3, <2>1 DEF Inv, PicturesTyped
  <2>3. ChangesAreKnown'
    BY <1>1, <2>1 DEF ChangesAreKnown
  <2> QED
    BY <1>4, <2>2, <2>3 DEF Inv
<1> QED
  BY <1>1, <1>5, <1>6

\* Every other step leaves the pictures alone, and either leaves the key frame
\* that is due alone or makes one due.
LEMMA OthersInv ==
  ASSUME Inv, UNCHANGED <<screen, raw>>,
         enc' = enc \/ enc' = [enc EXCEPT !.force = TRUE],
         tiled' => KeyFrameComing' \/ (tiled /\ ~KeyFrameComing)
  PROVE  Inv'
<1>1. enc' \in Encoder /\ enc'.hash = enc.hash /\ enc'.carry = enc.carry
  BY DEF Inv, PicturesTyped, Encoder
<1>2. PicturesTyped' /\ FramesTellChanges'
  BY <1>1 DEF Inv, PicturesTyped, FramesTellChanges
<1>3. ChangesAreKnown'
  BY <1>1 DEF Inv, ChangesAreKnown, Told
<1> QED
  BY <1>2, <1>3 DEF Inv

LEMMA InvStep == ASSUME FastEncoder, Inv, [Next]_vars PROVE Inv'
<1> USE DEF encoderVars, viewerVars, KeyFrameComing
<1>1. ASSUME NEW image \in Image, NEW hint \in BOOLEAN, Capture(image, hint) PROVE Inv'
  BY <1>1, CaptureInv
<1>2. CASE Encode
  BY <1>2, EncodeInv
<1>3. CASE PutTile
  BY <1>3, OthersInv DEF PutTile
<1>4. CASE EndFrame
  <2>1. enc'.force = TRUE
    BY <1>4 DEF EndFrame, Inv, PicturesTyped, Encoder
  <2> QED
    BY <1>4, <2>1, OthersInv DEF EndFrame
<1>5. CASE Drain
  BY <1>5, OthersInv DEF Drain
<1>6. CASE HandleKeyFrameRequest
  BY <1>6, OthersInv DEF HandleKeyFrameRequest, SetTiledMode
<1>7. CASE SwitchTransport
  BY <1>7, OthersInv DEF SwitchTransport, SetTiledMode
<1>8. CASE StartRepair
  BY <1>8, OthersInv DEF StartRepair
<1>9. ASSUME NEW link \in Links, NEW keyFrame \in BOOLEAN, QualityTimer(link, keyFrame)
      PROVE  Inv'
  BY <1>9, OthersInv DEF QualityTimer
<1>10. ASSUME NEW i \in Tiles, PutRepair(i) PROVE Inv'
  BY <1>10, OthersInv DEF PutRepair
<1>11. CASE Receive
  BY <1>11, OthersInv DEF Receive
<1>12. CASE Apply
  BY <1>12, OthersInv DEF Apply
<1>13. CASE SendNack
  BY <1>13, OthersInv DEF SendNack
<1>14. CASE Rejoin
  BY <1>14, OthersInv DEF Rejoin
<1>15. ASSUME NEW kind \in Damage, ApplyDamaged(kind) PROVE Inv'
  BY <1>15, OthersInv DEF ApplyDamaged
<1>16. CASE UNCHANGED vars
  BY <1>16, OthersInv DEF vars
<1> QED
  BY <1>1, <1>2, <1>3, <1>4, <1>5, <1>6, <1>7, <1>8, <1>9, <1>10, <1>11, <1>12, <1>13,
     <1>14, <1>15, <1>16 DEF Next, TransportStep, RepairStep

\* Every change of the screen is on its way to the viewer, if the encode thread
\* keeps up (host.cpp, onCaptureTimer and processFrames; tile_encoder.cpp).
THEOREM ChangesKnown == ASSUME FastEncoder PROVE Spec => []ChangesAreKnown
<1>1. Inv => ChangesAreKnown
  BY DEF Inv
<1> QED
  BY <1>1, InitInv, InvStep, PTL DEF Spec

-----------------------------------------------------------------------------
\* buildTiles: a frame without tiles to send leaves a key frame due, the tiles
\* that are sent are recorded, and unless all are sent the others were known
\* on a grid of this size.
LEMMA BuildSends ==
  ASSUME NEW e \in Encoder, NEW image \in Image, NEW dirty \in SUBSET Tiles, NEW max,
         NEW b, b = Build(e, image, dirty, max)
  PROVE  /\ b.tiles \subseteq Tiles
         /\ b.enc.size = image.size
         /\ \A i \in b.tiles : b.enc.hash[i] = image.px[i]
         /\ ~b.enc.force =>
              \/ b.tiles = Tiles
              \/ /\ ~e.force /\ e.size = image.size
                 /\ \A i \in Tiles \ b.tiles : b.enc.hash[i] = e.hash[i]
<1> DEFINE g == ResizeGrid(e, image.size)
           due == Changed(g, image.px, dirty)
           sent == WithinBudget(due, max)
<1>1. /\ g \in Encoder /\ g.size = image.size
      /\ (g = e /\ e.size = image.size) \/ g.force = TRUE
  BY EncoderAssumption DEF ResizeGrid, NewEncoder, Encoder, Image
<1>2. sent \subseteq due /\ due \subseteq Tiles
  <2>1. sent \subseteq due
    BY DEF WithinBudget
  <2>2. Candidates(g, dirty) \subseteq Tiles
    BY <1>1 DEF Candidates, Encoder
  <2> QED
    BY <2>1, <2>2 DEF Changed
<1>3. g.force => due = Tiles
  BY DEF Changed, Candidates
<1>4. /\ b.tiles = sent
      /\ b.enc = [g EXCEPT !.hash = [j \in Tiles |-> IF j \in sent THEN image.px[j] ELSE g.hash[j]],
                           !.carry = due \ sent,
                           !.force = g.force /\ due # sent]
  BY DEF Build
<1> HIDE DEF g, due, sent
<1>5. /\ b.enc.size = image.size
      /\ b.enc.hash = [j \in Tiles |-> IF j \in sent THEN image.px[j] ELSE g.hash[j]]
      /\ b.enc.force = (g.force /\ due # sent)
  BY <1>1, <1>4 DEF Encoder
<1> QED
  BY <1>1, <1>2, <1>3, <1>4, <1>5

\* The tiles of a frame are sent once each, whichever is under the mouse.
LEMMA MouseFirstSendsAll ==
  ASSUME NEW S \in SUBSET Tiles, NEW order \in MouseFirst(S)
  PROVE  /\ order \in Seq(S) /\ DOMAIN order = 1..Len(order) /\ Len(order) \in Nat
         /\ \A i \in S : \E k \in DOMAIN order : order[k] = i
         /\ \A j, k \in DOMAIN order : order[j] = order[k] => j = k
<1>1. IsFiniteSet(S)
  <2>1. IsFiniteSet(1..NumTiles)
    BY EncoderAssumption, FS_Interval
  <2> QED
    BY <2>1, FS_Subset DEF Tiles
<1>2. Cardinality(S) \in Nat
  BY <1>1, FS_CardinalityType
<1>3. order \in [1..Cardinality(S) -> S]
  BY DEF MouseFirst, Bijection, Injection
<1>4. order \in Seq(S) /\ DOMAIN order = 1..Len(order) /\ Len(order) \in Nat
  BY <1>2, <1>3
<1>5. \A i \in S : \E k \in DOMAIN order : order[k] = i
  BY <1>3 DEF MouseFirst, Bijection, Surjection
<1>6. \A j, k \in DOMAIN order : order[j] = order[k] => j = k
  BY <1>3 DEF MouseFirst, Bijection, Injection, IsInjective
<1> QED
  BY <1>4, <1>5, <1>6

-----------------------------------------------------------------------------
TileMessage == [tile : Tiles, size : Sizes, px : Content]
Canvas == [size : Sizes \cup {NoSize}, px : [Tiles -> Content \cup {Unsent}]]

LEMMA MessageShape ==
  /\ TileMessage \subseteq Message
  /\ \A m \in Message : m = WholeFrame \/ m \in TileMessage
  /\ \A m \in TileMessage : m # WholeFrame
  /\ \A image \in Image, i \in Tiles : Tile(image, i) \in TileMessage
<1>1. \A m \in TileMessage : m # WholeFrame
  BY EncoderAssumption DEF TileMessage, WholeFrame, Tiles
<1> QED
  BY <1>1 DEF TileMessage, Message, Tile, Image

\* What a queue tells, by what its two parts tell.
LEMMA JoinedTells ==
  ASSUME NEW a \in Seq(Message), NEW b \in Seq(Message), NEW i, NEW size, NEW px
  PROVE  /\ Telling(a \o b, i, size) = {} <=>
              (Telling(a, i, size) = {} /\ Telling(b, i, size) = {})
         /\ LastTells(a \o b, i, size, px) <=>
              \/ LastTells(b, i, size, px)
              \/ Telling(b, i, size) = {} /\ LastTells(a, i, size, px)
<1> DEFINE q == a \o b
           T(s) == Telling(s, i, size)
           m == [tile |-> i, size |-> size, px |-> px]
<1>1. /\ Len(a) \in Nat /\ Len(b) \in Nat
      /\ DOMAIN a = 1..Len(a) /\ DOMAIN b = 1..Len(b)
      /\ DOMAIN q = 1..(Len(a) + Len(b))
      /\ \A k \in 1..Len(a) : q[k] = a[k]
      /\ \A k \in 1..Len(b) : q[Len(a) + k] = b[k]
  OBVIOUS
<1> HIDE DEF q
<1>2. \A k \in DOMAIN a : k \in DOMAIN q /\ (k \in T(q) <=> k \in T(a))
  BY <1>1 DEF Telling
<1>3. \A k \in DOMAIN b : Len(a) + k \in DOMAIN q /\ (Len(a) + k \in T(q) <=> k \in T(b))
  BY <1>1 DEF Telling
<1>4. \A k \in DOMAIN q : k \in DOMAIN a \/ (k - Len(a) \in DOMAIN b /\ k = Len(a) + (k - Len(a)))
  BY <1>1
<1>5. T(a) \subseteq DOMAIN a /\ T(b) \subseteq DOMAIN b /\ T(q) \subseteq DOMAIN q
  BY DEF Telling
<1>6. \A s : LastTells(s, i, size, px) <=>
               \E k \in T(s) : s[k] = m /\ \A l \in T(s) : l <= k
  BY DEF LastTells
<1> HIDE DEF T, m
<1>7. T(q) = {} <=> (T(a) = {} /\ T(b) = {})
  BY <1>2, <1>3, <1>4, <1>5
<1>8. ASSUME LastTells(b, i, size, px) PROVE LastTells(q, i, size, px)
  <2>1. PICK k \in T(b) : b[k] = m /\ \A l \in T(b) : l <= k
    BY <1>6, <1>8
  <2>2. Len(a) + k \in T(q) /\ q[Len(a) + k] = m
    BY <1>1, <1>3, <1>5, <2>1
  <2>3. \A l \in T(q) : l <= Len(a) + k
    BY <1>1, <1>3, <1>4, <1>5, <2>1
  <2> QED
    BY <1>6, <2>2, <2>3
<1>9. ASSUME T(b) = {}, LastTells(a, i, size, px) PROVE LastTells(q, i, size, px)
  <2>1. PICK k \in T(a) : a[k] = m /\ \A l \in T(a) : l <= k
    BY <1>6, <1>9
  <2>2. k \in T(q) /\ q[k] = m
    BY <1>1, <1>2, <1>5, <2>1
  <2>3. \A l \in T(q) : l \in T(a)
    BY <1>2, <1>3, <1>4, <1>5, <1>9
  <2> QED
    BY <1>6, <2>1, <2>2, <2>3
<1>10. ASSUME LastTells(q, i, size, px)
       PROVE  LastTells(b, i, size, px) \/ (T(b) = {} /\ LastTells(a, i, size, px))
  <2>1. PICK k \in T(q) : q[k] = m /\ \A l \in T(q) : l <= k
    BY <1>6, <1>10
  <2>2. CASE k \in DOMAIN a
    <3>1. T(b) = {}
      <4> SUFFICES ASSUME NEW l \in T(b) PROVE FALSE
        OBVIOUS
      <4>1. Len(a) + l <= k /\ l \in 1..Len(b) /\ k \in 1..Len(a)
        BY <1>1, <1>3, <1>5, <2>1, <2>2
      <4> QED
        BY <1>1, <4>1
    <3>2. k \in T(a) /\ a[k] = m /\ \A l \in T(a) : l <= k
      BY <1>1, <1>2, <1>5, <2>1, <2>2
    <3> QED
      BY <1>6, <3>1, <3>2
  <2>3. CASE k \notin DOMAIN a
    <3>1. k - Len(a) \in DOMAIN b /\ k = Len(a) + (k - Len(a))
      BY <1>4, <1>5, <2>1, <2>3
    <3>2. k - Len(a) \in T(b) /\ b[k - Len(a)] = m
      BY <1>1, <1>3, <2>1, <3>1
    <3>3. \A l \in T(b) : l <= k - Len(a)
      BY <1>1, <1>3, <1>5, <2>1, <3>1
    <3> QED
      BY <1>6, <3>2, <3>3
  <2> QED
    BY <2>2, <2>3
<1> QED
  BY <1>7, <1>8, <1>9, <1>10 DEF q, T

\* What one message tells.
LEMMA OneTells ==
  ASSUME NEW m \in Message, NEW i \in Tiles, NEW size, NEW px
  PROVE  /\ <<m>> \in Seq(Message)
         /\ Telling(<<m>>, i, size) = {} <=> (m = WholeFrame \/ (m.tile # i /\ m.size = size))
         /\ LastTells(<<m>>, i, size, px) <=> m = [tile |-> i, size |-> size, px |-> px]
<1>1. /\ <<m>> \in Seq(Message) /\ DOMAIN <<m>> = {1} /\ <<m>>[1] = m
  OBVIOUS
<1>2. m = [tile |-> i, size |-> size, px |-> px] => m # WholeFrame /\ m.tile = i
  BY EncoderAssumption DEF WholeFrame, Tiles
<1>3. Telling(<<m>>, i, size) = {} <=> (m = WholeFrame \/ (m.tile # i /\ m.size = size))
  BY <1>1 DEF Telling
<1>4. LastTells(<<m>>, i, size, px) <=> m = [tile |-> i, size |-> size, px |-> px]
  BY <1>1, <1>2 DEF LastTells, Telling
<1> QED
  BY <1>1, <1>3, <1>4

-----------------------------------------------------------------------------
\* The type invariant, with what it leaves open: whole frames do not reach the
\* queues of tiles, and a repair that goes on has a picture.
Typed ==
  /\ TypeOK
  /\ outgoing \in Seq(TileMessage) /\ tileQ \in Seq(TileMessage)
  /\ repair.tiles # {} => repair.image \in Image

LEMMA InitTyped == Init => Typed
<1> SUFFICES ASSUME Init PROVE Typed
  OBVIOUS
<1> USE DEF Init
<1>1. screen \in Image /\ raw \in Seq([image : Image, dirty : SUBSET Tiles])
  OBVIOUS
<1>2. {tiled, keyReq, dropped, asked} \subseteq BOOLEAN
  OBVIOUS
<1>3. budget \in 0..BudgetMax /\ maxTiles \in 0..BudgetMax
  BY TransportAssumption
<1>4. enc \in Encoder
  BY DEF NewEncoder, Encoder
<1>5. cached \in Image \cup {NoImage} /\ repair \in [image : Image \cup {NoImage}, tiles : SUBSET Tiles]
  OBVIOUS
<1>6. /\ \A q \in {outgoing, encoded, wire, tileQ} : q \in Seq(Message)
      /\ outgoing \in Seq(TileMessage) /\ tileQ \in Seq(TileMessage)
  OBVIOUS
<1>7. /\ canvas \in Canvas
      /\ damaged \subseteq Tiles /\ nacked \subseteq Tiles
  BY DEF NoCanvas, Canvas
<1> QED
  BY <1>1, <1>2, <1>3, <1>4, <1>5, <1>6, <1>7 DEF Typed, TypeOK, Canvas

LEMMA BudgetTyped ==
  ASSUME budget \in 0..BudgetMax, NEW link, ApplyTileBudget(link)
  PROVE  (budget \in 0..BudgetMax)' /\ (maxTiles \in 0..BudgetMax)'
<1> USE TransportAssumption
<1>1. NextBudget(link) \in 0..BudgetMax
  <2> DEFINE b == IF budget > 0 THEN budget ELSE BudgetMax
             moved == CASE link = "congested" -> b \div 2
                        [] link = "healthy" -> b + BudgetMin
                        [] OTHER -> b
  <2>1. b \in Nat /\ b \div 2 \in Nat
    OBVIOUS
  <2>2. moved \in Nat
    <3> HIDE DEF b
    <3>1. CASE link = "congested"
      BY <2>1, <3>1
    <3>2. CASE link = "healthy"
      BY <2>1, <3>2
    <3>3. CASE link # "congested" /\ link # "healthy"
      BY <2>1, <3>3
    <3> QED
      BY <3>1, <3>2, <3>3
  <2>3. NextBudget(link) =
          IF moved < BudgetMin THEN BudgetMin ELSE IF moved > BudgetMax THEN BudgetMax ELSE moved
    BY DEF NextBudget
  <2> HIDE DEF moved
  <2> QED
    BY <2>2, <2>3
<1> QED
  BY <1>1 DEF ApplyTileBudget

LEMMA ModeTyped ==
  ASSUME Typed, NEW on \in BOOLEAN, SetTiledMode(on)
  PROVE  (/\ tiled \in BOOLEAN /\ keyReq \in BOOLEAN
          /\ budget \in 0..BudgetMax /\ maxTiles \in 0..BudgetMax)'
<1>1. budget \in 0..BudgetMax /\ keyReq \in BOOLEAN
  BY DEF Typed, TypeOK
<1>2. CASE on
  BY <1>1, <1>2, BudgetTyped DEF SetTiledMode
<1>3. CASE ~on
  BY <1>1, <1>3, TransportAssumption DEF SetTiledMode
<1> QED
  BY <1>2, <1>3

LEMMA EncodeTyped == ASSUME Typed, Encode PROVE Typed'
<1> DEFINE f == TakeFrame(raw)
           e == [enc EXCEPT !.force = enc.force \/ keyReq]
           b == Build(e, f.image, f.dirty, maxTiles)
<1>1. /\ raw \in Seq(Frame) /\ raw # <<>> /\ enc \in Encoder /\ keyReq \in BOOLEAN
      /\ encoded \in Seq(Message)
  BY DEF Typed, TypeOK, Frame, Encode
<1>2. 1 \in Tiles
  BY EncoderAssumption DEF Tiles
<1>3. f.image \in Image /\ f.dirty \in SUBSET Tiles /\ f.rest \in Seq(Frame)
  BY <1>1, <1>2, TakeKeepsChanges
<1>4. raw' = f.rest
  BY DEF Encode, EncodeTiles, EncodeWhole
<1>5. /\ UNCHANGED <<screen, tiled, maxTiles, budget, dropped, repair, wire, asked, tileQ,
                    canvas, damaged, nacked>>
  BY DEF Encode, viewerVars
<1>6. CASE EncodeTiles
  <2>1. e \in Encoder
    BY <1>1 DEF Encoder
  <2>2. b.enc \in Encoder /\ b.tiles \subseteq Tiles
    <3> HIDE DEF e, f
    <3> QED
      BY <1>2, <1>3, <2>1, BuildLooks, BuildSends
  <2>3. enc' = b.enc /\ keyReq' = FALSE /\ UNCHANGED encoded
    BY <1>6 DEF EncodeTiles
  <2>4. cached' \in Image \cup {NoImage} /\ outgoing' \in Seq(TileMessage)
    <3>1. CASE b.tiles = {}
      BY <1>6, <3>1 DEF EncodeTiles, Typed, TypeOK
    <3>2. CASE b.tiles # {}
      <4>1. PICK order \in MouseFirst(b.tiles) :
              outgoing' = [k \in DOMAIN order |-> Tile(f.image, order[k])]
        BY <1>6, <3>2 DEF EncodeTiles
      <4>2. cached' = f.image
        BY <1>6, <3>2 DEF EncodeTiles
      <4> HIDE DEF f, b
      <4>3. /\ order \in Seq(b.tiles) /\ DOMAIN order = 1..Len(order) /\ Len(order) \in Nat
            /\ \A k \in DOMAIN order : order[k] \in Tiles
        BY <2>2, MouseFirstSendsAll
      <4>4. \A k \in DOMAIN order : Tile(f.image, order[k]) \in TileMessage
        BY <1>3, <4>3, MessageShape
      <4>5. outgoing' \in Seq(TileMessage)
        BY <4>1, <4>3, <4>4
      <4> QED
        BY <1>3, <4>2, <4>5
    <3> QED
      BY <3>1, <3>2
  <2> HIDE DEF b, e, f
  <2>5. outgoing' \in Seq(Message)
    BY <2>4, MessageShape
  <2> QED
    BY <1>3, <1>4, <1>5, <2>2, <2>3, <2>4, <2>5 DEF Typed, TypeOK, Frame
<1>7. CASE EncodeWhole
  <2>1. UNCHANGED <<keyReq, enc, cached, outgoing>>
    BY <1>7 DEF EncodeWhole
  <2>2. encoded' \in Seq(Message)
    BY <1>1, <1>7 DEF EncodeWhole, Message
  <2> HIDE DEF f
  <2> QED
    BY <1>3, <1>4, <1>5, <2>1, <2>2 DEF Typed, TypeOK, Frame
<1> QED
  BY <1>6, <1>7 DEF Encode

\* Taking a message from a queue and putting it in another.
LEMMA QueueTypes ==
  ASSUME NEW M, NEW q \in Seq(M)
  PROVE  /\ q # <<>> => Head(q) \in M /\ Tail(q) \in Seq(M)
         /\ \A m \in M : Append(q, m) \in Seq(M)
  OBVIOUS

LEMMA TypedStep == Typed /\ [Next]_vars => Typed'
<1> SUFFICES ASSUME Typed, [Next]_vars PROVE Typed'
  OBVIOUS
<1> USE DEF encoderVars, viewerVars
<1>1. /\ outgoing \in Seq(TileMessage) /\ tileQ \in Seq(TileMessage)
      /\ outgoing \in Seq(Message) /\ encoded \in Seq(Message)
      /\ wire \in Seq(Message) /\ tileQ \in Seq(Message)
      /\ TileMessage \subseteq Message
  BY MessageShape DEF Typed, TypeOK
<1>2. ASSUME NEW image \in Image, NEW hint \in BOOLEAN, Capture(image, hint) PROVE Typed'
  <2> DEFINE dirty == IF hint /\ image.size = screen.size
                      THEN {i \in Tiles : image.px[i] # screen.px[i]} ELSE {}
             new == [image |-> image, dirty |-> dirty]
  <2>1. dirty \in SUBSET Tiles /\ raw \in Seq(Frame)
    BY DEF Typed, TypeOK, Frame
  <2>2. raw' = Append(raw, new) \/ raw' = raw
    BY <1>2 DEF Capture
  <2> HIDE DEF dirty
  <2>3. new \in Frame
    BY <2>1 DEF Frame
  <2>4. raw' \in Seq(Frame)
    BY <2>1, <2>2, <2>3, QueueTypes
  <2> HIDE DEF new
  <2> QED
    BY <1>2, <2>4 DEF Capture, Typed, TypeOK, Frame
<1>3. CASE Encode
  BY <1>3, EncodeTyped
<1>4. CASE PutTile
  <2>1. Head(outgoing) \in Message /\ Tail(outgoing) \in Seq(TileMessage)
    BY <1>1, <1>4, QueueTypes DEF PutTile
  <2>2. encoded' \in Seq(Message) /\ dropped' \in BOOLEAN
    <3>1. Append(encoded, Head(outgoing)) \in Seq(Message)
      BY <1>1, <2>1, QueueTypes
    <3> QED
      BY <1>1, <1>4, <3>1 DEF PutTile, Typed, TypeOK
  <2>3. outgoing' \in Seq(TileMessage) /\ outgoing' \in Seq(Message)
    BY <1>1, <1>4, <2>1 DEF PutTile
  <2> QED
    BY <1>4, <2>2, <2>3 DEF PutTile, Typed, TypeOK
<1>5. CASE EndFrame
  BY <1>5 DEF EndFrame, Typed, TypeOK, Encoder
<1>6. CASE Drain
  <2>1. encoded' \in Seq(Message) /\ wire' \in Seq(Message)
    BY <1>1, <1>6 DEF Drain
  <2> QED
    BY <1>6, <2>1 DEF Drain, Typed, TypeOK
<1>7. CASE HandleKeyFrameRequest
  <2>1. (/\ tiled \in BOOLEAN /\ keyReq \in BOOLEAN /\ asked \in BOOLEAN
         /\ budget \in 0..BudgetMax /\ maxTiles \in 0..BudgetMax)'
    <3>1. CASE SetTiledMode(TRUE)
      BY <1>7, <3>1, ModeTyped DEF HandleKeyFrameRequest
    <3>2. CASE keyReq' = TRUE /\ UNCHANGED <<tiled, budget, maxTiles>>
      BY <1>7, <3>2 DEF HandleKeyFrameRequest, Typed, TypeOK
    <3> QED
      BY <1>7, <3>1, <3>2 DEF HandleKeyFrameRequest
  <2> QED
    BY <1>7, <2>1 DEF HandleKeyFrameRequest, Typed, TypeOK
<1>8. CASE SwitchTransport
  <2>1. (/\ tiled \in BOOLEAN /\ keyReq \in BOOLEAN
         /\ budget \in 0..BudgetMax /\ maxTiles \in 0..BudgetMax)'
    BY <1>8, ModeTyped DEF SwitchTransport
  <2> QED
    BY <1>8, <2>1 DEF SwitchTransport, Typed, TypeOK
<1>9. CASE StartRepair
  BY <1>9 DEF StartRepair, Typed, TypeOK
<1>10. ASSUME NEW link \in Links, NEW keyFrame \in BOOLEAN, QualityTimer(link, keyFrame)
       PROVE  Typed'
  <2>1. (budget \in 0..BudgetMax)' /\ (maxTiles \in 0..BudgetMax)'
    BY <1>10, BudgetTyped DEF QualityTimer, Typed, TypeOK
  <2> QED
    BY <1>10, <2>1 DEF QualityTimer, Typed, TypeOK
<1>11. ASSUME NEW i \in Tiles, PutRepair(i) PROVE Typed'
  <2>1. repair.image \in Image /\ Tile(repair.image, i) \in Message
    BY <1>1, <1>11, MessageShape DEF PutRepair, Typed
  <2>2. encoded' \in Seq(Message)
    <3>1. Append(encoded, Tile(repair.image, i)) \in Seq(Message)
      BY <1>1, <2>1, QueueTypes
    <3> QED
      BY <1>1, <1>11, <3>1 DEF PutRepair
  <2>3. repair' \in [image : Image \cup {NoImage}, tiles : SUBSET Tiles]
        /\ repair'.image = repair.image
    BY <1>11 DEF PutRepair, Typed, TypeOK
  <2> QED
    BY <1>11, <2>1, <2>2, <2>3 DEF PutRepair, Typed, TypeOK
<1>12. CASE Receive
  <2>1. Head(wire) \in Message /\ Tail(wire) \in Seq(Message)
    BY <1>1, <1>12, QueueTypes DEF Receive
  <2>2. tileQ' \in Seq(TileMessage) /\ asked' \in BOOLEAN
    <3>1. Head(wire) = WholeFrame \/ Head(wire) \in TileMessage
      BY <2>1, MessageShape
    <3>2. Head(wire) \in TileMessage => Append(tileQ, Head(wire)) \in Seq(TileMessage)
      BY <1>1, QueueTypes
    <3> QED
      BY <1>1, <1>12, <3>1, <3>2 DEF Receive, Typed, TypeOK
  <2>3. tileQ' \in Seq(Message) /\ wire' \in Seq(Message)
    BY <1>1, <1>12, <2>1, <2>2 DEF Receive
  <2> QED
    BY <1>12, <2>2, <2>3 DEF Receive, Typed, TypeOK
<1>13. CASE Apply
  <2>1. Head(tileQ) \in TileMessage /\ Tail(tileQ) \in Seq(TileMessage)
    BY <1>1, <1>13, QueueTypes DEF Apply
  <2>2. tileQ' \in Seq(TileMessage) /\ tileQ' \in Seq(Message)
    BY <1>1, <1>13, <2>1 DEF Apply
  <2>3. canvas' \in Canvas
    BY <1>13, <2>1 DEF Apply, Paint, NoCanvas, TileMessage, Typed, TypeOK, Canvas
  <2> QED
    BY <1>13, <2>2, <2>3 DEF Apply, Typed, TypeOK, Canvas
<1>14. CASE SendNack
  BY <1>14 DEF SendNack, Typed, TypeOK
<1>15. CASE Rejoin
  <2>1. canvas' \in Canvas
    BY <1>15 DEF Rejoin, NoCanvas, Canvas
  <2>2. wire' \in Seq(Message) /\ tileQ' \in Seq(Message) /\ tileQ' \in Seq(TileMessage)
    BY <1>15 DEF Rejoin
  <2> QED
    BY <1>15, <2>1, <2>2 DEF Rejoin, Typed, TypeOK, Canvas
<1>16. ASSUME NEW kind \in Damage, ApplyDamaged(kind) PROVE Typed'
  <2>1. Head(tileQ) \in TileMessage /\ Tail(tileQ) \in Seq(TileMessage)
    BY <1>1, <1>16, QueueTypes DEF ApplyDamaged
  <2>2. tileQ' \in Seq(TileMessage) /\ tileQ' \in Seq(Message)
    BY <1>1, <1>16, <2>1 DEF ApplyDamaged
  <2>3. damaged' \subseteq Tiles
    BY <1>16, <2>1 DEF ApplyDamaged, TileMessage, Typed, TypeOK
  <2> QED
    BY <1>16, <2>2, <2>3 DEF ApplyDamaged, Typed, TypeOK
<1>17. CASE UNCHANGED vars
  BY <1>17 DEF vars, Typed, TypeOK
<1> QED
  BY <1>2, <1>3, <1>4, <1>5, <1>6, <1>7, <1>8, <1>9, <1>10, <1>11, <1>12, <1>13, <1>14,
     <1>15, <1>16, <1>17 DEF Next, TransportStep, RepairStep

\* The types of the pipeline, for any grid, queues and damage.
THEOREM TypeCorrect == Spec => []TypeOK
<1>1. Typed => TypeOK
  BY DEF Typed
<1> QED
  BY <1>1, InitTyped, TypedStep, PTL DEF Spec

-----------------------------------------------------------------------------
\* The queue q ends by telling px in tile i, or tells nothing of it and what is
\* before it does.
Behind(q, i, size, px, before) ==
  LastTells(q, i, size, px) \/ (Telling(q, i, size) = {} /\ before)

LEMMA BehindJoined ==
  ASSUME NEW a \in Seq(Message), NEW b \in Seq(Message), NEW i, NEW size, NEW px,
         NEW before \in BOOLEAN
  PROVE  Behind(a \o b, i, size, px, before)
           <=> Behind(b, i, size, px, Behind(a, i, size, px, before))
BY JoinedTells DEF Behind

LEMMA BehindNothing ==
  ASSUME NEW i, NEW size, NEW px, NEW before \in BOOLEAN
  PROVE  Behind(<<>>, i, size, px, before) <=> before
BY DEF Behind, LastTells, Telling

\* The first message of a queue told before the rest, the last one after it.
LEMMA BehindHead ==
  ASSUME NEW q \in Seq(Message), q # <<>>, NEW i, NEW size, NEW px, NEW before \in BOOLEAN
  PROVE  Behind(q, i, size, px, before)
           <=> Behind(Tail(q), i, size, px, Behind(<<Head(q)>>, i, size, px, before))
<1> DEFINE a == <<Head(q)>>
           b == Tail(q)
<1>1. a \in Seq(Message) /\ b \in Seq(Message) /\ q = a \o b
  OBVIOUS
<1> HIDE DEF a, b
<1>2. Behind(a \o b, i, size, px, before) <=> Behind(b, i, size, px, Behind(a, i, size, px, before))
  BY <1>1, BehindJoined
<1> QED
  BY <1>1, <1>2 DEF a, b

LEMMA BehindLast ==
  ASSUME NEW q \in Seq(Message), NEW m \in Message, NEW i, NEW size, NEW px,
         NEW before \in BOOLEAN
  PROVE  Behind(Append(q, m), i, size, px, before)
           <=> Behind(<<m>>, i, size, px, Behind(q, i, size, px, before))
<1> DEFINE b == <<m>>
<1>1. b \in Seq(Message) /\ Append(q, m) = q \o b
  OBVIOUS
<1> HIDE DEF b
<1>2. Behind(q \o b, i, size, px, before) <=> Behind(b, i, size, px, Behind(q, i, size, px, before))
  BY <1>1, BehindJoined
<1> QED
  BY <1>1, <1>2 DEF b

\* WillShow, queue by queue: canvas c, queues t, w, e and tiles o before them.
Arrives(c, t, w, e, o, i, size, px) ==
  Behind(o, i, size, px,
         Behind(e, i, size, px,
                Behind(w, i, size, px,
                       Behind(t, i, size, px, c.size = size /\ c.px[i] = px))))

LEMMA ByQueue ==
  ASSUME NEW c, NEW t \in Seq(Message), NEW w \in Seq(Message), NEW e \in Seq(Message),
         NEW o \in Seq(Message), NEW i, NEW size, NEW px
  PROVE  Behind(t \o w \o e \o o, i, size, px, c.size = size /\ c.px[i] = px)
           <=> Arrives(c, t, w, e, o, i, size, px)
<1> DEFINE shown == c.size = size /\ c.px[i] = px
           P(q) == Behind(q, i, size, px, shown)
<1>1. t \o w \in Seq(Message) /\ t \o w \o e \in Seq(Message) /\ shown \in BOOLEAN
  OBVIOUS
<1> HIDE DEF shown
<1>2. P(t \o w) <=> Behind(w, i, size, px, P(t))
  BY <1>1, BehindJoined
<1>3. P(t \o w \o e) <=> Behind(e, i, size, px, P(t \o w))
  BY <1>1, BehindJoined
<1>4. P(t \o w \o e \o o) <=> Behind(o, i, size, px, P(t \o w \o e))
  BY <1>1, BehindJoined
<1>5. P(t \o w \o e \o o)
        <=> Behind(o, i, size, px, Behind(e, i, size, px, Behind(w, i, size, px, P(t))))
  BY <1>2, <1>3, <1>4 DEF Behind
<1> QED
  BY <1>5 DEF Arrives, shown

LEMMA WillShowArrives ==
  ASSUME Typed, Typed', NEW i, NEW size, NEW px
  PROVE  /\ WillShow(i, size, px)
              <=> Arrives(canvas, tileQ, wire, encoded, outgoing, i, size, px)
         /\ WillShow(i, size, px)'
              <=> Arrives(canvas', tileQ', wire', encoded', outgoing', i, size, px)
<1>1. /\ tileQ \in Seq(Message) /\ wire \in Seq(Message)
      /\ encoded \in Seq(Message) /\ outgoing \in Seq(Message)
  BY DEF Typed, TypeOK
<1>2. /\ tileQ' \in Seq(Message) /\ wire' \in Seq(Message)
      /\ encoded' \in Seq(Message) /\ outgoing' \in Seq(Message)
  BY DEF Typed, TypeOK
<1>3. WillShow(i, size, px)
        <=> Behind(tileQ \o wire \o encoded \o outgoing, i, size, px,
                   canvas.size = size /\ canvas.px[i] = px)
  BY DEF WillShow, Behind
<1>4. WillShow(i, size, px)'
        <=> Behind(tileQ' \o wire' \o encoded' \o outgoing', i, size, px,
                   canvas'.size = size /\ canvas'.px[i] = px)
  BY DEF WillShow, Behind
<1> QED
  BY <1>1, <1>2, <1>3, <1>4, ByQueue

\* Tiles that are known to be damaged, asked for, or still to be sent again.
Excused == damaged \cup nacked \cup repair.tiles

SkipInv == Typed /\ SkippedTilesAreCorrect

\* A step that neither changes the encoder's record nor, for a tile that is not
\* excused, what will arrive.
LEMMA SkipKept ==
  ASSUME SkipInv, Typed', Excused \subseteq Excused',
         (tiled /\ ~KeyFrameComing)' => tiled /\ ~KeyFrameComing,
         enc'.size = enc.size, enc'.hash = enc.hash,
         \A i \in Tiles \ Excused', size \in Sizes \cup {NoSize}, px \in Content \cup {Unsent} :
           Arrives(canvas, tileQ, wire, encoded, outgoing, i, size, px)
             => Arrives(canvas', tileQ', wire', encoded', outgoing', i, size, px)
  PROVE  SkippedTilesAreCorrect'
<1>1. SUFFICES ASSUME tiled', ~KeyFrameComing', NEW i \in Tiles \ Excused'
               PROVE  WillShow(i, enc.size, enc.hash[i])'
  BY DEF SkippedTilesAreCorrect, Excused
<1>2. PICK size \in Sizes \cup {NoSize}, px \in Content \cup {Unsent} :
        size = enc.size /\ px = enc.hash[i]
  BY DEF SkipInv, Typed, TypeOK, Encoder
<1>3. WillShow(i, size, px)
  <2>1. WillShow(i, enc.size, enc.hash[i])
    BY <1>1 DEF SkipInv, Excused, SkippedTilesAreCorrect
  <2> QED
    BY <1>2, <2>1
<1>4. WillShow(i, size, px)'
  BY <1>3, WillShowArrives DEF SkipInv
<1>5. size = enc'.size /\ px = enc'.hash[i]
  BY <1>2
<1> QED
  BY <1>4, <1>5 DEF WillShow

\* A message that moves from one queue to the next tells what it told before.
LEMMA Moved ==
  ASSUME NEW a \in Seq(Message), NEW b \in Seq(Message), a # <<>>,
         NEW i, NEW size, NEW px, NEW before \in BOOLEAN
  PROVE  Behind(a, i, size, px, Behind(b, i, size, px, before))
           <=> Behind(Tail(a), i, size, px, Behind(Append(b, Head(a)), i, size, px, before))
<1>1. Head(a) \in Message
  BY QueueTypes
<1>2. Behind(b, i, size, px, before) \in BOOLEAN
  BY DEF Behind
<1>3. Behind(a, i, size, px, Behind(b, i, size, px, before))
        <=> Behind(Tail(a), i, size, px,
                   Behind(<<Head(a)>>, i, size, px, Behind(b, i, size, px, before)))
  BY <1>2, BehindHead
<1>4. Behind(Append(b, Head(a)), i, size, px, before)
        <=> Behind(<<Head(a)>>, i, size, px, Behind(b, i, size, px, before))
  BY <1>1, BehindLast
<1> QED
  BY <1>3, <1>4 DEF Behind

\* A painted tile shows what its message told.
LEMMA Painted ==
  ASSUME NEW c \in Canvas, NEW m \in TileMessage, NEW i \in Tiles, NEW size, NEW px,
         Behind(<<m>>, i, size, px, c.size = size /\ c.px[i] = px)
  PROVE  Paint(c, m).size = size /\ Paint(c, m).px[i] = px
<1>1. m \in Message /\ m # WholeFrame
  BY MessageShape
<1>2. \/ m = [tile |-> i, size |-> size, px |-> px]
      \/ m.tile # i /\ m.size = size /\ c.size = size /\ c.px[i] = px
  BY <1>1, OneTells DEF Behind
<1>3. CASE m = [tile |-> i, size |-> size, px |-> px]
  BY <1>3 DEF Paint, NoCanvas, Canvas
<1>4. CASE m.tile # i /\ m.size = size /\ c.size = size /\ c.px[i] = px
  BY <1>4 DEF Paint, TileMessage, Canvas
<1> QED
  BY <1>2, <1>3, <1>4

\* Encoding: the tiles of the frame tell what the encoder recorded, and leave
\* the rest of the picture as it was to arrive.
LEMMA EncodeSkips == ASSUME SkipInv, Typed', Encode PROVE SkippedTilesAreCorrect'
<1> DEFINE f == TakeFrame(raw)
           e == [enc EXCEPT !.force = enc.force \/ keyReq]
           b == Build(e, f.image, f.dirty, maxTiles)
<1>1. /\ raw \in Seq(Frame) /\ raw # <<>> /\ enc \in Encoder
      /\ outgoing = <<>> /\ ~dropped
      /\ UNCHANGED <<tiled, dropped, asked, canvas, tileQ, wire, damaged, nacked, repair>>
  BY DEF SkipInv, Typed, TypeOK, Frame, Encode, viewerVars
<1>2. 1 \in Tiles
  BY EncoderAssumption DEF Tiles
<1>3. f.image \in Image /\ f.dirty \in SUBSET Tiles
  BY <1>1, <1>2, TakeKeepsChanges
<1>4. Excused' = Excused
  BY <1>1 DEF Excused
<1>5. CASE EncodeWhole
  <2>1. ~tiled'
    BY <1>1, <1>5 DEF EncodeWhole
  <2> QED
    BY <2>1 DEF SkippedTilesAreCorrect
<1>6. CASE EncodeTiles
  <2>1. /\ e \in Encoder /\ e.force = (enc.force \/ keyReq)
        /\ e.hash = enc.hash /\ e.size = enc.size
    BY <1>1 DEF Encoder
  <2>2. enc' = b.enc /\ UNCHANGED encoded
    BY <1>6 DEF EncodeTiles
  <2>3. /\ b.tiles \subseteq Tiles
        /\ b.enc.size = f.image.size
        /\ \A i \in b.tiles : b.enc.hash[i] = f.image.px[i]
        /\ ~b.enc.force =>
             \/ b.tiles = Tiles
             \/ /\ ~e.force /\ e.size = f.image.size
                /\ \A i \in Tiles \ b.tiles : b.enc.hash[i] = e.hash[i]
    <3> HIDE DEF e, f
    <3> QED
      BY <1>3, <2>1, BuildSends
  <2>4. CASE b.tiles = {}
    <3>1. UNCHANGED outgoing
      BY <1>6, <2>4 DEF EncodeTiles
    <3>2. ~b.enc.force => ~e.force /\ e.size = b.enc.size
                          /\ \A i \in Tiles : b.enc.hash[i] = e.hash[i]
      BY <1>2, <2>3, <2>4
    <3> HIDE DEF b, e, f
    <3>3. ASSUME tiled', ~KeyFrameComing'
          PROVE  tiled /\ ~KeyFrameComing /\ enc'.size = enc.size
                 /\ \A i \in Tiles : enc'.hash[i] = enc.hash[i]
      BY <1>1, <2>1, <2>2, <3>2, <3>3 DEF KeyFrameComing
    <3> SUFFICES ASSUME tiled', ~KeyFrameComing', NEW i \in Tiles \ Excused'
                 PROVE  WillShow(i, enc.size, enc.hash[i])'
      BY DEF SkippedTilesAreCorrect, Excused
    <3>4. WillShow(i, enc.size, enc.hash[i])
      BY <1>4, <3>3 DEF SkipInv, Excused, SkippedTilesAreCorrect
    <3> QED
      BY <1>1, <2>2, <3>1, <3>3, <3>4 DEF WillShow
  <2>5. CASE b.tiles # {}
    <3>1. PICK order \in MouseFirst(b.tiles) :
            outgoing' = [k \in DOMAIN order |-> Tile(f.image, order[k])]
      BY <1>6, <2>5 DEF EncodeTiles
    <3> HIDE DEF b, e, f
    <3>2. /\ order \in Seq(b.tiles) /\ DOMAIN order = 1..Len(order) /\ Len(order) \in Nat
          /\ \A i \in b.tiles : \E k \in DOMAIN order : order[k] = i
          /\ \A j, k \in DOMAIN order : order[j] = order[k] => j = k
          /\ \A k \in DOMAIN order : order[k] \in b.tiles
      BY <2>3, MouseFirstSendsAll
    <3>3. /\ DOMAIN outgoing' = DOMAIN order
          /\ \A k \in DOMAIN order :
               /\ outgoing'[k] \in TileMessage /\ outgoing'[k] # WholeFrame
               /\ outgoing'[k] = [tile |-> order[k], size |-> f.image.size,
                                  px |-> f.image.px[order[k]]]
      BY <1>3, <2>3, <3>1, <3>2, MessageShape DEF Tile
    <3>4. ASSUME NEW i \in b.tiles, NEW size, NEW px, size = f.image.size, px = f.image.px[i]
          PROVE  LastTells(outgoing', i, size, px)
      <4>1. PICK k \in DOMAIN order : order[k] = i
        BY <3>2
      <4>2. Telling(outgoing', i, size) = {k}
        BY <3>2, <3>3, <3>4, <4>1 DEF Telling
      <4>3. outgoing'[k] = [tile |-> i, size |-> size, px |-> px] /\ k <= k
        BY <3>2, <3>3, <3>4, <4>1
      <4> QED
        BY <4>2, <4>3 DEF LastTells
    <3>5. ASSUME NEW i \in Tiles \ b.tiles, NEW size, size = f.image.size
          PROVE  Telling(outgoing', i, size) = {}
      BY <3>2, <3>3, <3>5 DEF Telling
    <3>6. SkippedTilesAreCorrect'
      <4> SUFFICES ASSUME tiled', ~KeyFrameComing', NEW i \in Tiles \ Excused'
                   PROVE  WillShow(i, enc.size, enc.hash[i])'
        BY DEF SkippedTilesAreCorrect, Excused
      <4>1. PICK size, px : size = enc'.size /\ px = enc'.hash[i]
        OBVIOUS
      <4>2. ~b.enc.force /\ size = f.image.size
        BY <2>2, <2>3, <4>1 DEF KeyFrameComing
      <4>3. Arrives(canvas', tileQ', wire', encoded', outgoing', i, size, px)
        <5>1. CASE i \in b.tiles
          <6>1. px = f.image.px[i]
            BY <2>2, <2>3, <4>1, <5>1
          <6> QED
            BY <3>4, <4>2, <5>1, <6>1 DEF Arrives, Behind
        <5>2. CASE i \notin b.tiles
          <6>1. ~KeyFrameComing /\ size = enc.size /\ px = enc.hash[i]
            BY <1>1, <2>1, <2>2, <2>3, <4>1, <4>2, <5>2 DEF KeyFrameComing
          <6>2. WillShow(i, enc.size, enc.hash[i])
            BY <1>1, <1>4, <6>1 DEF SkipInv, Excused, SkippedTilesAreCorrect
          <6>3. Arrives(canvas, tileQ, wire, encoded, <<>>, i, size, px)
            BY <1>1, <6>1, <6>2, WillShowArrives DEF SkipInv
          <6>4. Behind(encoded, i, size, px,
                   Behind(wire, i, size, px,
                     Behind(tileQ, i, size, px, canvas.size = size /\ canvas.px[i] = px)))
            BY <6>3, BehindNothing DEF Arrives, Behind
          <6>5. Telling(outgoing', i, size) = {}
            BY <3>5, <4>2, <5>2
          <6> QED
            BY <1>1, <2>2, <6>4, <6>5 DEF Arrives, Behind
        <5> QED
          BY <5>1, <5>2
      <4>4. WillShow(i, size, px)'
        BY <4>3, WillShowArrives DEF SkipInv
      <4> QED
        BY <4>1, <4>4 DEF WillShow
    <3> QED
      BY <3>6
  <2> QED
    BY <2>4, <2>5
<1> QED
  BY <1>5, <1>6 DEF Encode

\* The steps that neither damage a tile nor ask for one or send one again.
Deliver ==
  \/ \E image \in Image, hint \in BOOLEAN : Capture(image, hint)
  \/ Encode \/ PutTile \/ EndFrame
  \/ Drain \/ HandleKeyFrameRequest \/ SwitchTransport
  \/ \E link \in Links, keyFrame \in BOOLEAN : QualityTimer(link, keyFrame)
  \/ Receive \/ Apply \/ Rejoin

LEMMA DeliverSkips ==
  ASSUME FastLink, SkipInv, Typed', Deliver \/ UNCHANGED vars
  PROVE  SkippedTilesAreCorrect'
<1> USE DEF encoderVars, viewerVars
<1>1. Typed'
  OBVIOUS
<1>2. /\ outgoing \in Seq(Message) /\ encoded \in Seq(Message)
      /\ wire \in Seq(Message) /\ tileQ \in Seq(Message) /\ tileQ \in Seq(TileMessage)
      /\ canvas \in Canvas /\ enc \in Encoder
      /\ tiled \in BOOLEAN /\ dropped \in BOOLEAN /\ asked \in BOOLEAN /\ keyReq \in BOOLEAN
  BY DEF SkipInv, Typed, TypeOK, Canvas
\* Steps that leave the encoder's record, the queues and the canvas alone.
<1>3. ASSUME UNCHANGED <<damaged, nacked, repair, outgoing, encoded, wire, tileQ, canvas>>,
             enc'.size = enc.size, enc'.hash = enc.hash,
             (tiled /\ ~KeyFrameComing)' => tiled /\ ~KeyFrameComing
      PROVE  SkippedTilesAreCorrect'
  <2>1. Excused' = Excused
    BY <1>3 DEF Excused
  <2> QED
    BY <1>1, <1>3, <2>1, SkipKept
\* Steps that leave the encoder alone, and what will arrive too unless they make
\* a key frame due.
<1>4. ASSUME UNCHANGED <<damaged, nacked, repair, enc>>,
             (tiled /\ ~KeyFrameComing)' =>
               /\ tiled /\ ~KeyFrameComing
               /\ \A i \in Tiles, size \in Sizes \cup {NoSize}, px \in Content \cup {Unsent} :
                    Arrives(canvas, tileQ, wire, encoded, outgoing, i, size, px)
                      => Arrives(canvas', tileQ', wire', encoded', outgoing', i, size, px)
      PROVE  SkippedTilesAreCorrect'
  <2>1. Excused' = Excused
    BY <1>4 DEF Excused
  <2>2. CASE (tiled /\ ~KeyFrameComing)'
    BY <1>1, <1>4, <2>1, <2>2, SkipKept
  <2>3. CASE ~(tiled /\ ~KeyFrameComing)'
    BY <2>3 DEF SkippedTilesAreCorrect
  <2> QED
    BY <2>2, <2>3
<1>5. ASSUME NEW image \in Image, NEW hint \in BOOLEAN, Capture(image, hint) PROVE SkippedTilesAreCorrect'
  BY <1>3, <1>5 DEF Capture, KeyFrameComing
<1>6. CASE Encode
  BY <1>1, <1>6, EncodeSkips
<1>7. CASE PutTile
  <2>1. /\ UNCHANGED <<damaged, nacked, repair, enc, canvas, tileQ, wire, tiled, keyReq, asked>>
        /\ outgoing # <<>> /\ outgoing' = Tail(outgoing)
    BY <1>7 DEF PutTile
  <2>2. CASE encoded' = Append(encoded, Head(outgoing)) /\ UNCHANGED dropped
    <3>1. ASSUME NEW i \in Tiles, NEW size \in Sizes \cup {NoSize}, NEW px \in Content \cup {Unsent},
                 Arrives(canvas, tileQ, wire, encoded, outgoing, i, size, px)
          PROVE  Arrives(canvas', tileQ', wire', encoded', outgoing', i, size, px)
      <4> DEFINE X == Behind(wire, i, size, px,
                        Behind(tileQ, i, size, px, canvas.size = size /\ canvas.px[i] = px))
      <4>1. X \in BOOLEAN
        BY DEF Behind
      <4>2. Behind(outgoing, i, size, px, Behind(encoded, i, size, px, X))
        BY <3>1 DEF Arrives
      <4>3. Arrives(canvas', tileQ', wire', encoded', outgoing', i, size, px)
              <=> Behind(outgoing', i, size, px, Behind(encoded', i, size, px, X))
        BY <2>1 DEF Arrives
      <4> HIDE DEF X
      <4> QED
        BY <1>2, <2>1, <2>2, <4>1, <4>2, <4>3, Moved
    <3> QED
      BY <1>4, <2>1, <2>2, <3>1 DEF KeyFrameComing
  <2>3. CASE dropped' = TRUE
    BY <1>4, <2>1, <2>3 DEF KeyFrameComing
  <2> QED
    BY <1>7, <2>2, <2>3 DEF PutTile
<1>8. CASE EndFrame
  <2>1. enc'.force = TRUE /\ enc'.size = enc.size /\ enc'.hash = enc.hash
    BY <1>2, <1>8 DEF EndFrame, Encoder
  <2> QED
    BY <1>3, <1>8, <2>1 DEF EndFrame, KeyFrameComing
<1>9. CASE Drain
  <2>1. /\ UNCHANGED <<damaged, nacked, repair, enc, canvas, tileQ, outgoing, tiled, keyReq,
                       asked, dropped>>
        /\ encoded' = <<>> /\ wire = <<>> /\ wire' = encoded
    BY <1>9 DEF Drain
  <2>2. ASSUME NEW i \in Tiles, NEW size \in Sizes \cup {NoSize}, NEW px \in Content \cup {Unsent},
               Arrives(canvas, tileQ, wire, encoded, outgoing, i, size, px)
        PROVE  Arrives(canvas', tileQ', wire', encoded', outgoing', i, size, px)
    <3> DEFINE X == Behind(tileQ, i, size, px, canvas.size = size /\ canvas.px[i] = px)
    <3>1. X \in BOOLEAN /\ Behind(encoded, i, size, px, X) \in BOOLEAN
      BY DEF Behind
    <3>2. Behind(outgoing, i, size, px, Behind(encoded, i, size, px, Behind(<<>>, i, size, px, X)))
      BY <2>1, <2>2 DEF Arrives
    <3>3. Arrives(canvas', tileQ', wire', encoded', outgoing', i, size, px)
            <=> Behind(outgoing, i, size, px, Behind(<<>>, i, size, px, Behind(encoded, i, size, px, X)))
      BY <2>1 DEF Arrives
    <3> HIDE DEF X
    <3>4. /\ Behind(<<>>, i, size, px, X) <=> X
          /\ Behind(<<>>, i, size, px, Behind(encoded, i, size, px, X))
               <=> Behind(encoded, i, size, px, X)
      BY <3>1, BehindNothing
    <3> QED
      BY <3>2, <3>3, <3>4 DEF Behind
  <2> QED
    BY <1>4, <2>1, <2>2 DEF KeyFrameComing
<1>10. CASE HandleKeyFrameRequest
  BY <1>4, <1>10 DEF HandleKeyFrameRequest, SetTiledMode, KeyFrameComing
<1>11. CASE SwitchTransport
  BY <1>4, <1>11 DEF SwitchTransport, SetTiledMode, KeyFrameComing
<1>12. ASSUME NEW link \in Links, NEW keyFrame \in BOOLEAN, QualityTimer(link, keyFrame)
       PROVE  SkippedTilesAreCorrect'
  BY <1>3, <1>12 DEF QualityTimer, KeyFrameComing
<1>13. CASE Receive
  <2>1. /\ UNCHANGED <<damaged, nacked, repair, enc, canvas, encoded, outgoing, tiled, keyReq,
                       dropped>>
        /\ wire # <<>> /\ wire' = Tail(wire)
    BY <1>13 DEF Receive
  <2>2. CASE Head(wire) = WholeFrame /\ UNCHANGED <<tileQ, asked>>
    <3>1. ASSUME NEW i \in Tiles, NEW size \in Sizes \cup {NoSize}, NEW px \in Content \cup {Unsent},
                 Arrives(canvas, tileQ, wire, encoded, outgoing, i, size, px)
          PROVE  Arrives(canvas', tileQ', wire', encoded', outgoing', i, size, px)
      <4> DEFINE X == Behind(tileQ, i, size, px, canvas.size = size /\ canvas.px[i] = px)
      <4>1. X \in BOOLEAN /\ WholeFrame \in Message
        BY DEF Behind, Message
      <4>2. Behind(outgoing, i, size, px, Behind(encoded, i, size, px, Behind(wire, i, size, px, X)))
        BY <3>1 DEF Arrives
      <4>3. Arrives(canvas', tileQ', wire', encoded', outgoing', i, size, px)
              <=> Behind(outgoing, i, size, px,
                         Behind(encoded, i, size, px, Behind(Tail(wire), i, size, px, X)))
        BY <2>1, <2>2 DEF Arrives
      <4> HIDE DEF X
      <4>4. Behind(<<WholeFrame>>, i, size, px, X) <=> X
        <5>1. WholeFrame # [tile |-> i, size |-> size, px |-> px]
          BY EncoderAssumption DEF WholeFrame, Tiles
        <5> QED
          BY <4>1, <5>1, OneTells DEF Behind
      <4>5. Behind(wire, i, size, px, X)
              <=> Behind(Tail(wire), i, size, px, Behind(<<WholeFrame>>, i, size, px, X))
        BY <1>2, <2>1, <2>2, <4>1, BehindHead
      <4> QED
        BY <4>2, <4>3, <4>4, <4>5 DEF Behind
    <3> QED
      BY <1>4, <2>1, <2>2, <3>1 DEF KeyFrameComing
  <2>3. CASE tileQ' = Append(tileQ, Head(wire)) /\ UNCHANGED asked
    <3>1. ASSUME NEW i \in Tiles, NEW size \in Sizes \cup {NoSize}, NEW px \in Content \cup {Unsent},
                 Arrives(canvas, tileQ, wire, encoded, outgoing, i, size, px)
          PROVE  Arrives(canvas', tileQ', wire', encoded', outgoing', i, size, px)
      <4> DEFINE X == canvas.size = size /\ canvas.px[i] = px
      <4>1. X \in BOOLEAN
        OBVIOUS
      <4>2. Behind(outgoing, i, size, px,
                   Behind(encoded, i, size, px, Behind(wire, i, size, px, Behind(tileQ, i, size, px, X))))
        BY <3>1 DEF Arrives
      <4>3. Arrives(canvas', tileQ', wire', encoded', outgoing', i, size, px)
              <=> Behind(outgoing, i, size, px,
                         Behind(encoded, i, size, px,
                                Behind(Tail(wire), i, size, px,
                                       Behind(Append(tileQ, Head(wire)), i, size, px, X))))
        BY <2>1, <2>3 DEF Arrives
      <4> HIDE DEF X
      <4>4. Behind(wire, i, size, px, Behind(tileQ, i, size, px, X))
              <=> Behind(Tail(wire), i, size, px,
                         Behind(Append(tileQ, Head(wire)), i, size, px, X))
        BY <1>2, <2>1, <4>1, Moved
      <4> QED
        BY <4>2, <4>3, <4>4 DEF Behind
    <3> QED
      BY <1>4, <2>1, <2>3, <3>1 DEF KeyFrameComing
  <2>4. CASE asked' = TRUE
    BY <1>4, <2>1, <2>4 DEF KeyFrameComing
  <2> QED
    BY <1>13, <2>2, <2>3, <2>4 DEF Receive
<1>14. CASE Apply
  <2>1. /\ UNCHANGED <<damaged, nacked, repair, enc, wire, encoded, outgoing, tiled, keyReq,
                       asked, dropped>>
        /\ tileQ # <<>> /\ tileQ' = Tail(tileQ)
        /\ canvas' = Paint(canvas, Head(tileQ)) /\ Head(tileQ) \in TileMessage
    BY <1>2, <1>14, QueueTypes DEF Apply
  <2>2. ASSUME NEW i \in Tiles, NEW size \in Sizes \cup {NoSize}, NEW px \in Content \cup {Unsent},
               Arrives(canvas, tileQ, wire, encoded, outgoing, i, size, px)
        PROVE  Arrives(canvas', tileQ', wire', encoded', outgoing', i, size, px)
    <3> DEFINE X == canvas.size = size /\ canvas.px[i] = px
               Y == canvas'.size = size /\ canvas'.px[i] = px
    <3>1. Behind(tileQ, i, size, px, X)
            => Behind(Tail(tileQ), i, size, px, Behind(<<Head(tileQ)>>, i, size, px, X))
      BY <1>2, <2>1, BehindHead
    <3>2. Behind(<<Head(tileQ)>>, i, size, px, X) => Y
      BY <1>2, <2>1, Painted
    <3>3. Behind(outgoing, i, size, px,
                 Behind(encoded, i, size, px, Behind(wire, i, size, px, Behind(tileQ, i, size, px, X))))
      BY <2>2 DEF Arrives
    <3>4. Arrives(canvas', tileQ', wire', encoded', outgoing', i, size, px)
            <=> Behind(outgoing, i, size, px,
                       Behind(encoded, i, size, px,
                              Behind(wire, i, size, px, Behind(Tail(tileQ), i, size, px, Y))))
      BY <2>1 DEF Arrives
    <3> HIDE DEF X, Y
    <3> QED
      BY <3>1, <3>2, <3>3, <3>4 DEF Behind
  <2> QED
    BY <1>4, <2>1, <2>2 DEF KeyFrameComing
<1>15. CASE Rejoin
  BY <1>15 DEF Rejoin, KeyFrameComing, SkippedTilesAreCorrect
<1>16. CASE UNCHANGED vars
  BY <1>3, <1>16 DEF vars, KeyFrameComing
<1> QED
  BY <1>5, <1>6, <1>7, <1>8, <1>9, <1>10, <1>11, <1>12, <1>13, <1>14, <1>15, <1>16 DEF Deliver

\* Nothing was damaged, so that nothing is sent again.
Undamaged == damaged = {} /\ nacked = {} /\ repair.tiles = {}

\* What the encoder skips as unchanged the viewer has or will have, whatever the
\* full queues drop, the budget leaves out, a new desktop size or a reconnection
\* discards: as long as no batch is dropped before a slow socket and no tile is
\* damaged (tile_encoder.cpp, buildTiles; host.cpp, processFrames;
\* remote_controller.cpp, handleScreenTile and applyTile).
THEOREM SkippedAreCorrect ==
  ASSUME FastLink, Damage = {} PROVE Spec => []SkippedTilesAreCorrect
<1>1. Init => SkipInv /\ Undamaged
  BY InitTyped DEF Init, SkipInv, Undamaged, SkippedTilesAreCorrect
<1>2. SkipInv /\ Undamaged /\ [Next]_vars => SkipInv' /\ Undamaged'
  <2> SUFFICES ASSUME SkipInv, Undamaged, [Next]_vars PROVE SkipInv' /\ Undamaged'
    OBVIOUS
  <2>1. Typed'
    BY TypedStep DEF SkipInv
  <2>2. Deliver \/ UNCHANGED vars
    BY DEF Next, TransportStep, RepairStep, Deliver, Undamaged, StartRepair, PutRepair, SendNack
  <2>3. SkippedTilesAreCorrect'
    BY <2>1, <2>2, DeliverSkips
  <2>4. Undamaged'
    BY <2>2 DEF Undamaged, Deliver, Capture, Encode, PutTile, EndFrame, Drain,
                HandleKeyFrameRequest, SwitchTransport, QualityTimer, Receive, Apply, Rejoin,
                encoderVars, viewerVars, vars
  <2> QED
    BY <2>1, <2>3, <2>4 DEF SkipInv
<1>3. SkipInv => SkippedTilesAreCorrect
  BY DEF SkipInv
<1> QED
  BY <1>1, <1>2, <1>3, PTL DEF Spec
=============================================================================
