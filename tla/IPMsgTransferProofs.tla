------------------------ MODULE IPMsgTransferProofs ------------------------
(***************************************************************************)
(* The receiving side of a file transfer, for any files, chunks, attempts, *)
(* slots and bounds.  Nothing is assumed of the network and the sender:    *)
(* the proof never looks at what a connection carries.                     *)
(***************************************************************************)
EXTENDS IPMsgTransfer, SequenceTheorems, TLAPS

\* d is a sequence, of whatever chunks.
IsSeq(d) == d \in Seq({d[i] : i \in DOMAIN d})

Fields == {"prompts", "sock", "dig", "ctx", "of", "disk", "mark", "moved"}

\* Which fields, files and counters there are.
ReceiverTyped ==
  /\ DOMAIN rtask = Files /\ rtask = [f \in Files |-> rtask[f]]
  /\ DOMAIN recv = Fields /\ recv = [x \in Fields |-> recv[x]]
  /\ DOMAIN recv.disk = Files /\ recv.disk = [f \in Files |-> recv.disk[f]]
  /\ DOMAIN recv.ctx \subseteq Files /\ recv.ctx = [f \in DOMAIN recv.ctx |-> recv.ctx[f]]
  /\ DOMAIN recv.mark \subseteq Files

\* What lies behind the n-th chunk is a last chunk, which does not move the
\* bookmark on, or was skipped.
TailIsLast(d, n) == \A k \in DOMAIN d : k > n => d[k] \in {0, Chunks}

\* n chunks of f were written to the path it has now.
Backed(f, n) == n <= Len(recv.disk[f]) \/ f \in recv.moved \/ LastChunk[f] = "small"

(* What is being received is not reported complete: that ends the context  *)
(* with it.  A last chunk that QFile holds cannot spoil a file that is     *)
(* whole without it.                                                       *)
Receives(f) ==
  /\ {"got", "held"} \subseteq DOMAIN recv.ctx[f]
  /\ recv.ctx[f].got \in 0 .. Chunks
  /\ Backed(f, recv.ctx[f].got)
  /\ TailIsLast(recv.disk[f], recv.ctx[f].got)
  /\ rtask[f] # "Completed"
  /\ recv.ctx[f].held => LastChunk[f] = "small"
  /\ recv.ctx[f].held /\ recv.disk[f] = Whole => recv.ctx[f].got = Chunks

Marks(f) ==
  /\ recv.mark[f] \in 0 .. Chunks
  /\ Backed(f, recv.mark[f])
  /\ TailIsLast(recv.disk[f], recv.mark[f])

FileInv(f) ==
  /\ IsSeq(recv.disk[f])
  /\ f \in DOMAIN recv.ctx => Receives(f)
  /\ f \in DOMAIN recv.mark => Marks(f)
  /\ rtask[f] = "Completed" => recv.disk[f] = Whole

IInv == ReceiverTyped /\ \A f \in Files : FileInv(f)

-----------------------------------------------------------------------------
(* What is on disk.                                                        *)

LEMMA SeqIs ==
  ASSUME NEW S, NEW d \in Seq(S)
  PROVE  IsSeq(d) /\ Len(d) \in Nat /\ DOMAIN d = 1 .. Len(d)
<1>1. /\ Len(d) \in Nat /\ DOMAIN d = 1 .. Len(d) /\ d \in [1 .. Len(d) -> S]
  BY LenProperties
<1> DEFINE range == {d[i] : i \in DOMAIN d}
<1>2. d \in [1 .. Len(d) -> range]
  BY <1>1
<1>3. d \in Seq(range)
  BY <1>1, <1>2
<1> QED
  BY <1>1, <1>3 DEF IsSeq

(* writeReceivedData: a chunk is written at its place; what lies behind it *)
(* stays, what lies before it stays or is skipped.                         *)
LEMMA WriteIs ==
  ASSUME NEW d, IsSeq(d), NEW p \in Nat, NEW i
  PROVE  LET w == Written(d, p, i)
         IN  /\ IsSeq(w) /\ Len(w) = (IF Len(d) < p THEN p ELSE Len(d))
             /\ Len(d) \in Nat /\ DOMAIN d = 1 .. Len(d) /\ DOMAIN w = 1 .. Len(w)
             /\ \A k \in DOMAIN w :
                  w[k] = IF k = p THEN i ELSE IF k \in DOMAIN d THEN d[k] ELSE 0
<1> DEFINE S == {d[j] : j \in DOMAIN d} \cup {i, 0}
           len == IF Len(d) < p THEN p ELSE Len(d)
           w == Written(d, p, i)
<1>1. Len(d) \in Nat /\ DOMAIN d = 1 .. Len(d) /\ \A j \in DOMAIN d : d[j] \in S
  BY LenProperties DEF IsSeq
<1>2. i \in S /\ 0 \in S /\ len \in Nat
  BY <1>1
<1> HIDE DEF S
<1>3. w = [k \in 1 .. len |-> IF k = p THEN i ELSE IF k <= Len(d) THEN d[k] ELSE 0]
  BY DEF Written
<1>4. \A k \in 1 .. len : (IF k = p THEN i ELSE IF k <= Len(d) THEN d[k] ELSE 0) \in S
  BY <1>1, <1>2
<1> HIDE DEF len
<1>5. w \in Seq(S) /\ Len(w) = len
  BY <1>2, <1>3, <1>4
<1>6. \A k \in 1 .. len : w[k] = IF k = p THEN i ELSE IF k \in DOMAIN d THEN d[k] ELSE 0
  BY <1>1, <1>2, <1>3
<1> HIDE DEF w
<1>7. IsSeq(w) /\ DOMAIN w = 1 .. len
  BY <1>5, SeqIs
<1> QED
  BY <1>1, <1>5, <1>6, <1>7 DEF w, len

(* With the chunk QFile holds the disk is a sequence still, whole if it    *)
(* was; its tail is the same.                                              *)
LEMMA FlushedIs ==
  ASSUME IInv, NEW f \in Files
  PROVE  /\ IsSeq(Flushed(f)) /\ Len(recv.disk[f]) <= Len(Flushed(f))
         /\ Len(Flushed(f)) \in Nat /\ DOMAIN Flushed(f) = 1 .. Len(Flushed(f))
         /\ recv.disk[f] = Whole => Flushed(f) = Whole
         /\ f \in DOMAIN recv.ctx => TailIsLast(Flushed(f), recv.ctx[f].got)
         /\ f \in DOMAIN recv.mark => TailIsLast(Flushed(f), recv.mark[f])
<1> DEFINE d == recv.disk[f]
<1>1. IsSeq(d) /\ Len(d) \in Nat /\ DOMAIN d = 1 .. Len(d)
  BY LenProperties DEF IInv, FileInv, IsSeq
<1>2. CASE ~(f \in DOMAIN recv.ctx /\ recv.ctx[f].held)
  BY <1>1, <1>2 DEF Flushed, IInv, FileInv, Receives, Marks
<1>3. CASE f \in DOMAIN recv.ctx /\ recv.ctx[f].held
  <2> DEFINE g == recv.ctx[f].got
             w == Flushed(f)
  <2>1. /\ g \in Nat /\ Receives(f)
        /\ f \in DOMAIN recv.mark => recv.mark[f] \in Nat /\ TailIsLast(d, recv.mark[f])
    BY <1>3 DEF IInv, FileInv, Receives, Marks
  <2>2. w = Written(d, g, Chunks)
    BY <1>3 DEF Flushed
  <2> HIDE DEF d, g, w
  <2>3. /\ IsSeq(w) /\ Len(w) = (IF Len(d) < g THEN g ELSE Len(d)) /\ DOMAIN w = 1 .. Len(w)
        /\ \A k \in DOMAIN w :
             w[k] = IF k = g THEN Chunks ELSE IF k \in DOMAIN d THEN d[k] ELSE 0
    BY <1>1, <2>1, <2>2, WriteIs
  <2>4. d = Whole => w = Whole
    <3> SUFFICES ASSUME d = Whole PROVE w = Whole
      OBVIOUS
    <3>1. g = Chunks
      BY <1>3, <2>1 DEF Receives, d, g
    <3>2. Len(d) = Chunks
      BY TransferAssumption DEF Whole
    <3> QED
      BY <2>2, <3>1, <3>2, TransferAssumption DEF Written, Whole
  <2>5. \A n : TailIsLast(d, n) => TailIsLast(w, n)
    BY <2>3 DEF TailIsLast
  <2>6. TailIsLast(d, g)
    BY <2>1 DEF Receives, d, g
  <2> QED
    BY <1>1, <2>1, <2>3, <2>4, <2>5, <2>6 DEF d, g, w
<1> QED
  BY <1>2, <1>3

-----------------------------------------------------------------------------
(* The handlers of the receiver.                                           *)

(* What a handler of f leaves alone of the other files.                    *)
LEMMA OthersKeep ==
  ASSUME IInv, NEW f \in Files,
         \A x \in Files \ {f} :
           /\ recv'.disk[x] = recv.disk[x] /\ (rtask'[x] = rtask[x] \/ rtask'[x] # "Completed")
           /\ x \in DOMAIN recv'.ctx => x \in DOMAIN recv.ctx /\ recv'.ctx[x] = recv.ctx[x]
           /\ x \in DOMAIN recv'.mark => x \in DOMAIN recv.mark /\ recv'.mark[x] = recv.mark[x]
           /\ x \in recv.moved => x \in recv'.moved
  PROVE  \A x \in Files \ {f} : FileInv(x)'
BY DEF IInv, FileInv, Receives, Marks, Backed, Whole

(* A handler that touches no chunk, no count and no bookmark, and reports  *)
(* nothing complete.                                                       *)
LEMMA QuietKeeps ==
  ASSUME IInv, DOMAIN recv' = Fields, recv' = [x \in Fields |-> recv'[x]],
         recv'.disk = recv.disk, recv'.mark = recv.mark, recv'.moved = recv.moved,
         DOMAIN recv'.ctx = DOMAIN recv.ctx,
         recv'.ctx = [x \in DOMAIN recv.ctx |-> recv'.ctx[x]],
         \A x \in DOMAIN recv.ctx : /\ recv'.ctx[x].got = recv.ctx[x].got
                                    /\ recv'.ctx[x].held = recv.ctx[x].held
                                    /\ DOMAIN recv'.ctx[x] = DOMAIN recv.ctx[x],
         DOMAIN rtask' = Files, rtask' = [x \in Files |-> rtask'[x]],
         \A x \in Files : rtask'[x] = "Completed" => rtask[x] = "Completed"
  PROVE  IInv'
<1>1. ReceiverTyped'
  BY DEF IInv, ReceiverTyped
<1>2. ASSUME NEW x \in Files PROVE FileInv(x)'
  BY DEF IInv, FileInv, Receives, Marks, Backed, Whole
<1> QED
  BY <1>1, <1>2 DEF IInv

(* A receive that ends drops its context and bookmark and closes the file. *)
LEMMA FinishedKeeps ==
  ASSUME IInv, NEW f \in Files, NEW status,
         status = "Completed" => recv.disk[f] = Whole,
         recv' = Finished(recv, f), rtask' = [rtask EXCEPT ![f] = status]
  PROVE  IInv'
<1>1. /\ DOMAIN recv' = Fields /\ recv' = [x \in Fields |-> recv'[x]]
      /\ recv'.disk = [recv.disk EXCEPT ![f] = Flushed(f)]
      /\ recv'.mark = Drop(recv.mark, f) /\ recv'.ctx = Drop(recv.ctx, f)
      /\ recv'.moved = recv.moved \ {f}
  BY DEF Finished, IInv, ReceiverTyped, Fields
<1>2. /\ \A x \in DOMAIN recv'.mark : x # f /\ x \in DOMAIN recv.mark /\ recv'.mark[x] = recv.mark[x]
      /\ \A x \in DOMAIN recv'.ctx : x # f /\ x \in DOMAIN recv.ctx /\ recv'.ctx[x] = recv.ctx[x]
      /\ recv'.ctx = [x \in DOMAIN recv'.ctx |-> recv'.ctx[x]]
  <2> DEFINE m == recv'.mark
             c == recv'.ctx
  <2>1. m = Drop(recv.mark, f) /\ c = Drop(recv.ctx, f)
    BY <1>1
  <2> HIDE DEF m, c
  <2>2. \A x \in DOMAIN m : x # f /\ x \in DOMAIN recv.mark /\ m[x] = recv.mark[x]
    BY <2>1 DEF Drop, Restrict
  <2>3. \A x \in DOMAIN c : x # f /\ x \in DOMAIN recv.ctx /\ c[x] = recv.ctx[x]
    BY <2>1 DEF Drop, Restrict
  <2>4. c = [x \in DOMAIN c |-> c[x]]
    BY <2>1 DEF Drop, Restrict
  <2> QED
    BY <2>2, <2>3, <2>4 DEF m, c
<1>3. /\ DOMAIN rtask' = Files /\ rtask' = [x \in Files |-> rtask'[x]]
      /\ \A x \in Files : rtask'[x] = IF x = f THEN status ELSE rtask[x]
  BY DEF IInv, ReceiverTyped
<1>4. /\ DOMAIN recv'.disk = Files /\ recv'.disk = [x \in Files |-> recv'.disk[x]]
      /\ \A x \in Files : recv'.disk[x] = IF x = f THEN Flushed(f) ELSE recv.disk[x]
  BY <1>1 DEF IInv, ReceiverTyped
<1>5. ReceiverTyped'
  BY <1>1, <1>2, <1>3, <1>4 DEF IInv, ReceiverTyped
<1>6. FileInv(f)'
  <2>1. IsSeq(recv'.disk[f]) /\ (recv.disk[f] = Whole => recv'.disk[f] = Whole)
    BY <1>4, FlushedIs
  <2> QED
    BY <1>2, <1>3, <2>1 DEF FileInv, Whole
<1>7. \A x \in Files \ {f} : FileInv(x)'
  BY <1>1, <1>2, <1>3, <1>4, OthersKeep
<1> QED
  BY <1>5, <1>6, <1>7 DEF IInv

LEMMA ReceiveStartKeeps ==
  ASSUME IInv, NEW f \in Files, NEW n, ReceiveStart(f, n)
  PROVE  IInv'
<1>1. /\ DOMAIN recv' = Fields /\ recv' = [x \in Fields |-> recv'[x]]
      /\ recv'.disk = recv.disk /\ recv'.mark = recv.mark /\ recv'.ctx = recv.ctx
      /\ recv'.moved = recv.moved
      /\ rtask' = [rtask EXCEPT ![f] = "Queued"]
  BY DEF ReceiveStart, IInv, ReceiverTyped, Fields
<1>2. /\ DOMAIN rtask' = Files /\ rtask' = [x \in Files |-> rtask'[x]]
      /\ \A x \in Files : rtask'[x] = "Completed" => rtask[x] = "Completed"
  BY <1>1 DEF IInv, ReceiverTyped
<1>3. recv.ctx = [x \in DOMAIN recv.ctx |-> recv.ctx[x]]
  BY DEF IInv, ReceiverTyped
<1> QED
  BY <1>1, <1>2, <1>3, QuietKeeps

LEMMA AcceptFileKeeps ==
  ASSUME IInv, NEW f \in Files, AcceptFile(f)
  PROVE  IInv'
<1> DEFINE off == MarkOf(f)
           r == [recv EXCEPT !.prompts[f] = @ - 1]
           c == [conn |-> recv.sock[f], got |-> off, dig |-> recv.dig[f],
                 paused |-> FALSE, stuck |-> FALSE, held |-> FALSE]
<1>1. /\ DOMAIN r = Fields /\ r = [x \in Fields |-> r[x]]
      /\ r.disk = recv.disk /\ r.mark = recv.mark /\ r.ctx = recv.ctx /\ r.moved = recv.moved
  BY DEF IInv, ReceiverTyped, Fields
<1>2. CASE recv' = r /\ UNCHANGED rtask
  <2>1. /\ recv.ctx = [x \in DOMAIN recv.ctx |-> recv.ctx[x]]
        /\ DOMAIN rtask = Files /\ rtask = [x \in Files |-> rtask[x]]
    BY DEF IInv, ReceiverTyped
  <2> HIDE DEF r
  <2> QED
    BY <1>1, <1>2, <2>1, QuietKeeps
<1>3. ASSUME NEW other \in BOOLEAN,
             recv' = [r EXCEPT !.ctx = Put(@, f, c), !.of = @ \cup {<<f, recv.sock[f]>>},
                               !.mark = Put(@, f, off), !.disk[f] = Opened(f, off, other),
                               !.moved = IF off = 0 THEN @ \ {f}
                                         ELSE IF other THEN @ \cup {f} ELSE @],
             rtask' = [rtask EXCEPT ![f] = "Transferring"]
      PROVE  IInv'
  <2> DEFINE d == Opened(f, off, other)
             moved == IF off = 0 THEN recv.moved \ {f}
                      ELSE IF other THEN recv.moved \cup {f} ELSE recv.moved
  <2>1. off \in 0 .. Chunks /\ TailIsLast(d, off) /\ IsSeq(d) /\ Len(d) \in Nat
    <3>1. IsSeq(recv.disk[f]) /\ Len(recv.disk[f]) \in Nat
      BY LenProperties DEF IInv, FileInv, IsSeq
    <3>2. IsSeq(<<>>) /\ Len(<<>>) = 0 /\ DOMAIN <<>> = {}
      <4>1. IsSeq(<<>>)
        BY SeqIs, EmptySeq
      <4> QED
        BY <4>1
    <3>3. d = <<>> \/ (d = recv.disk[f] /\ f \in DOMAIN recv.mark /\ off = recv.mark[f])
      BY DEF Opened, MarkOf
    <3>4. off \in 0 .. Chunks
      BY TransferAssumption DEF IInv, FileInv, Marks, MarkOf
    <3> QED
      BY <3>1, <3>2, <3>3, <3>4 DEF TailIsLast, IInv, FileInv, Marks
  <2>2. off <= Len(d) \/ f \in moved \/ LastChunk[f] = "small"
    <3>1. CASE off = 0 \/ other
      BY <1>3, <2>1, <3>1
    <3>2. CASE ~(off = 0 \/ other)
      BY <1>3, <3>2 DEF Opened, MarkOf, IInv, FileInv, Marks, Backed
    <3> QED
      BY <3>1, <3>2
  <2> HIDE DEF r, off, d
  <2>3. /\ DOMAIN recv' = Fields /\ recv' = [x \in Fields |-> recv'[x]]
        /\ recv'.disk = [recv.disk EXCEPT ![f] = d] /\ recv'.moved = moved
        /\ recv'.mark = Put(recv.mark, f, off) /\ recv'.ctx = Put(recv.ctx, f, c)
    BY <1>1, <1>3 DEF Fields, d
  <2>4. c.got = off /\ c.held = FALSE /\ {"got", "held"} \subseteq DOMAIN c
    OBVIOUS
  <2> HIDE DEF c
  <2>5. /\ DOMAIN recv'.disk = Files /\ recv'.disk = [x \in Files |-> recv'.disk[x]]
        /\ \A x \in Files : recv'.disk[x] = IF x = f THEN d ELSE recv.disk[x]
    BY <2>3 DEF IInv, ReceiverTyped
  <2>6. /\ DOMAIN rtask' = Files /\ rtask' = [x \in Files |-> rtask'[x]]
        /\ \A x \in Files : rtask'[x] = IF x = f THEN "Transferring" ELSE rtask[x]
    BY <1>3 DEF IInv, ReceiverTyped
  <2>7. /\ DOMAIN recv'.mark = DOMAIN recv.mark \cup {f} /\ recv'.mark[f] = off
        /\ \A x \in DOMAIN recv.mark : x # f => recv'.mark[x] = recv.mark[x]
        /\ DOMAIN recv'.ctx = DOMAIN recv.ctx \cup {f} /\ recv'.ctx[f] = c
        /\ \A x \in DOMAIN recv.ctx : x # f => recv'.ctx[x] = recv.ctx[x]
        /\ recv'.ctx = [x \in DOMAIN recv'.ctx |-> recv'.ctx[x]]
    <3> DEFINE m == recv'.mark
               k == recv'.ctx
    <3>1. m = Put(recv.mark, f, off) /\ k = Put(recv.ctx, f, c)
      BY <2>3
    <3> HIDE DEF m, k
    <3>2. /\ DOMAIN m = DOMAIN recv.mark \cup {f} /\ m[f] = off
          /\ \A x \in DOMAIN recv.mark : x # f => m[x] = recv.mark[x]
      BY <3>1 DEF Put
    <3>3. /\ DOMAIN k = DOMAIN recv.ctx \cup {f} /\ k[f] = c
          /\ \A x \in DOMAIN recv.ctx : x # f => k[x] = recv.ctx[x]
      BY <3>1 DEF Put
    <3>4. k = [x \in DOMAIN k |-> k[x]]
      BY <3>1 DEF Put
    <3> QED
      BY <3>2, <3>3, <3>4 DEF m, k
  <2>8. ReceiverTyped'
    BY <2>3, <2>5, <2>6, <2>7 DEF IInv, ReceiverTyped
  <2>9. Receives(f)' /\ Marks(f)' /\ IsSeq(recv'.disk[f])
    <3>1. recv'.disk[f] = d /\ recv'.moved = moved /\ rtask'[f] = "Transferring"
      BY <2>3, <2>5, <2>6
    <3>2. off <= Len(recv'.disk[f]) \/ f \in recv'.moved \/ LastChunk[f] = "small"
      BY <2>2, <3>1
    <3>3. recv'.ctx[f].got = off /\ ~recv'.ctx[f].held /\ recv'.mark[f] = off
      BY <2>4, <2>7
    <3> QED
      BY <2>1, <2>4, <2>7, <3>1, <3>2, <3>3 DEF Receives, Marks, Backed
  <2>10. FileInv(f)'
    BY <2>6, <2>9 DEF FileInv
  <2>11. \A x \in Files \ {f} : FileInv(x)'
    <3>1. recv.moved \ {f} \subseteq recv'.moved
      BY <2>3
    <3> QED
      BY <2>5, <2>6, <2>7, <3>1, OthersKeep
  <2> QED
    BY <2>8, <2>10, <2>11 DEF IInv
<1> QED
  BY <1>2, <1>3 DEF AcceptFile

LEMMA RejectFileKeeps ==
  ASSUME IInv, NEW f \in Files, RejectFile(f)
  PROVE  IInv'
<1>1. /\ DOMAIN recv' = Fields /\ recv' = [x \in Fields |-> recv'[x]]
      /\ recv'.disk = recv.disk /\ recv'.mark = recv.mark /\ recv'.ctx = recv.ctx
      /\ recv'.moved = recv.moved
  BY DEF RejectFile, IInv, ReceiverTyped, Fields
<1>2. /\ DOMAIN rtask' = Files /\ rtask' = [x \in Files |-> rtask'[x]]
      /\ \A x \in Files : rtask'[x] = "Completed" => rtask[x] = "Completed"
  BY DEF RejectFile, IInv, ReceiverTyped
<1>3. recv.ctx = [x \in DOMAIN recv.ctx |-> recv.ctx[x]]
  BY DEF IInv, ReceiverTyped
<1> QED
  BY <1>1, <1>2, <1>3, QuietKeeps

LEMMA ReceiveChunkKeeps ==
  ASSUME IInv, NEW f \in Files, NEW n, ReceiveChunk(f, n)
  PROVE  IInv'
<1> DEFINE i == Head(send.wire[f][n].toR).i
           c == recv.ctx[f]
           held == i = Chunks /\ LastChunk[f] = "small"
           marks == i # Chunks \/ LastChunk[f] = "full" \/ MarkOf(f) = 0
           d == IF held THEN Flushed(f) ELSE Written(Flushed(f), c.got + 1, i)
<1>1. CASE UNCHANGED <<recv, rtask>>
  BY <1>1 DEF IInv, ReceiverTyped, FileInv, Receives, Marks, Backed, Whole
<1>2. CASE recv' = Finished(recv, f) /\ rtask' = [rtask EXCEPT ![f] = "Failed"]
  BY <1>2, FinishedKeeps
<1>3. CASE /\ f \in DOMAIN recv.ctx /\ c.got # Chunks /\ UNCHANGED rtask
           /\ recv' = [recv EXCEPT !.ctx[f].got = @ + 1, !.ctx[f].held = held,
                                   !.mark = IF marks THEN Put(@, f, c.got + 1) ELSE @,
                                   !.disk[f] = d]
  <2> DEFINE g == c.got
             m == recv'.mark
  <2>1. /\ g \in Nat /\ g < Chunks /\ Receives(f) /\ {"got", "held"} \subseteq DOMAIN c
        /\ rtask[f] # "Completed"
    BY <1>3, TransferAssumption DEF IInv, FileInv, Receives
  <2>2. /\ IsSeq(Flushed(f)) /\ Len(recv.disk[f]) <= Len(Flushed(f))
        /\ Len(Flushed(f)) \in Nat /\ DOMAIN Flushed(f) = 1 .. Len(Flushed(f))
        /\ TailIsLast(Flushed(f), g) /\ Len(recv.disk[f]) \in Nat
        /\ f \in DOMAIN recv.mark => TailIsLast(Flushed(f), recv.mark[f])
    <3>1. Len(recv.disk[f]) \in Nat
      BY LenProperties DEF IInv, FileInv, IsSeq
    <3> QED
      BY <1>3, <3>1, FlushedIs
  <2>3. LET w == Written(Flushed(f), g + 1, i)
        IN  /\ IsSeq(w) /\ DOMAIN w = 1 .. Len(w)
            /\ Len(w) = IF Len(Flushed(f)) < g + 1 THEN g + 1 ELSE Len(Flushed(f))
            /\ \A k \in DOMAIN w : w[k] = IF k = g + 1 THEN i
                                          ELSE IF k \in DOMAIN Flushed(f) THEN Flushed(f)[k] ELSE 0
    BY <2>1, <2>2, WriteIs
  <2>4. /\ IsSeq(d) /\ Len(d) \in Nat /\ Len(recv.disk[f]) <= Len(d) /\ TailIsLast(d, g + 1)
        /\ held \/ g + 1 <= Len(d)
    <3> HIDE DEF g, i
    <3>1. CASE held
      BY <2>1, <2>2, <3>1 DEF TailIsLast
    <3>2. CASE ~held
      BY <2>1, <2>2, <2>3, <3>2 DEF TailIsLast, g
    <3> QED
      BY <3>1, <3>2
  <2>5. held /\ d = Whole => g + 1 = Chunks
    <3> SUFFICES ASSUME held, d = Whole PROVE g + 1 = Chunks
      OBVIOUS
    <3>1. Flushed(f) = Whole /\ DOMAIN Whole = 1 .. Chunks
      BY DEF Whole
    <3>2. g + 1 \in DOMAIN Whole /\ Whole[g + 1] = g + 1
      BY <2>1, <3>1, TransferAssumption DEF Whole
    <3> HIDE DEF g
    <3>3. TailIsLast(Whole, g) /\ g + 1 > g
      BY <2>1, <2>2, <3>1
    <3>4. Whole[g + 1] \in {0, Chunks}
      BY <3>2, <3>3 DEF TailIsLast
    <3> QED
      BY <2>1, <3>2, <3>4
  <2>6. ~marks /\ f \in DOMAIN recv.mark => TailIsLast(d, recv.mark[f])
    <3> SUFFICES ASSUME ~marks, f \in DOMAIN recv.mark PROVE TailIsLast(d, recv.mark[f])
      OBVIOUS
    <3>1. i = Chunks /\ TailIsLast(Flushed(f), recv.mark[f])
      BY <2>2
    <3> HIDE DEF g, i
    <3>2. TailIsLast(Written(Flushed(f), g + 1, i), recv.mark[f])
      BY <2>3, <3>1 DEF TailIsLast
    <3> QED
      BY <3>1, <3>2 DEF g
  <2>7. /\ DOMAIN recv' = Fields /\ recv' = [x \in Fields |-> recv'[x]]
        /\ recv'.disk = [recv.disk EXCEPT ![f] = d] /\ recv'.moved = recv.moved
        /\ m = IF marks THEN Put(recv.mark, f, g + 1) ELSE recv.mark
        /\ recv'.ctx = [recv.ctx EXCEPT ![f].got = @ + 1, ![f].held = held]
    BY <1>3 DEF IInv, ReceiverTyped, Fields
  <2> DEFINE next == [[c EXCEPT !.got = @ + 1] EXCEPT !.held = held]
  <2>8. /\ DOMAIN recv'.ctx = DOMAIN recv.ctx
        /\ recv'.ctx = [x \in DOMAIN recv.ctx |-> recv'.ctx[x]]
        /\ recv'.ctx[f].got = g + 1 /\ recv'.ctx[f].held = held
        /\ {"got", "held"} \subseteq DOMAIN recv'.ctx[f]
        /\ \A x \in DOMAIN recv.ctx : x # f => recv'.ctx[x] = recv.ctx[x]
    <3> HIDE DEF held
    <3>1. next.got = g + 1 /\ next.held = held /\ {"got", "held"} \subseteq DOMAIN next
      BY <2>1
    <3>2. recv'.ctx = [recv.ctx EXCEPT ![f] = next]
      BY <1>3, <2>7
    <3> HIDE DEF next
    <3> QED
      BY <1>3, <3>1, <3>2
  <2> HIDE DEF g, d, held, m, next
  <2>9. /\ DOMAIN recv'.disk = Files /\ recv'.disk = [x \in Files |-> recv'.disk[x]]
        /\ \A x \in Files : recv'.disk[x] = IF x = f THEN d ELSE recv.disk[x]
    BY <2>7 DEF IInv, ReceiverTyped
  <2>10. /\ DOMAIN m \subseteq Files
         /\ \A x \in Files : x \in DOMAIN m /\ x # f => x \in DOMAIN recv.mark /\ m[x] = recv.mark[x]
         /\ f \in DOMAIN m =>
              \/ marks /\ m[f] = g + 1
              \/ ~marks /\ f \in DOMAIN recv.mark /\ m[f] = recv.mark[f]
    <3> HIDE DEF marks
    <3> QED
      BY <2>7 DEF Put, IInv, ReceiverTyped
  <2>11. ReceiverTyped'
    BY <1>3, <2>7, <2>8, <2>9, <2>10 DEF IInv, ReceiverTyped, m
  <2>12. Receives(f)'
    <3>1. /\ recv'.ctx[f].got = g + 1 /\ g + 1 \in 0 .. Chunks
          /\ {"got", "held"} \subseteq DOMAIN recv'.ctx[f]
      BY <2>1, <2>8, TransferAssumption
    <3>2. recv'.disk[f] = d /\ rtask'[f] # "Completed"
      BY <1>3, <2>1, <2>9
    <3>3. Backed(f, recv.ctx[f].got)'
      BY <2>4, <3>1, <3>2 DEF Backed, held
    <3>4. /\ recv'.ctx[f].held => LastChunk[f] = "small"
          /\ recv'.ctx[f].held /\ recv'.disk[f] = Whole => recv'.ctx[f].got = Chunks
      BY <2>5, <2>8, <3>1, <3>2 DEF held
    <3> QED
      BY <2>4, <3>1, <3>2, <3>3, <3>4 DEF Receives, Whole
  <2>13. f \in DOMAIN m => Marks(f)'
    <3>1. recv'.disk[f] = d /\ recv'.mark = m
      BY <1>3, <2>9 DEF m
    <3>2. CASE marks /\ m[f] = g + 1
      <4>1. g + 1 \in 0 .. Chunks
        BY <2>1, TransferAssumption
      <4>2. Backed(f, recv.mark[f])'
        BY <2>4, <3>1, <3>2 DEF Backed, held
      <4> QED
        BY <2>4, <3>1, <3>2, <4>1, <4>2 DEF Marks
    <3>3. CASE ~marks /\ f \in DOMAIN recv.mark /\ m[f] = recv.mark[f]
      <4>1. recv.mark[f] \in 0 .. Chunks /\ Backed(f, recv.mark[f])
        BY <3>3 DEF IInv, FileInv, Marks
      <4>2. recv.mark[f] <= Len(recv.disk[f]) => recv.mark[f] <= Len(d)
        BY <2>2, <2>4, <4>1, TransferAssumption
      <4>3. Backed(f, recv.mark[f])'
        BY <2>7, <3>1, <3>3, <4>1, <4>2 DEF Backed
      <4> QED
        BY <2>6, <3>1, <3>3, <4>1, <4>3 DEF Marks
    <3> QED
      BY <2>10, <3>2, <3>3
  <2>14. FileInv(f)'
    BY <1>3, <2>1, <2>4, <2>9, <2>12, <2>13 DEF FileInv, m
  <2>15. \A x \in Files \ {f} : FileInv(x)'
    <3>1. \A x \in Files \ {f} :
            /\ recv'.disk[x] = recv.disk[x]
            /\ x \in DOMAIN recv'.ctx => x \in DOMAIN recv.ctx /\ recv'.ctx[x] = recv.ctx[x]
            /\ x \in DOMAIN recv'.mark => x \in DOMAIN recv.mark /\ recv'.mark[x] = recv.mark[x]
      BY <2>8, <2>9, <2>10 DEF m
    <3> QED
      BY <1>3, <2>7, <3>1, OthersKeep
  <2> QED
    BY <2>11, <2>14, <2>15 DEF IInv
<1> QED
  BY <1>1, <1>2, <1>3 DEF ReceiveChunk

LEMMA ReceiveVerifyKeeps ==
  ASSUME IInv, NEW f \in Files, NEW n, ReceiveVerify(f, n)
  PROVE  IInv'
<1> DEFINE ok == f \in DOMAIN recv.ctx /\ Matches(f)
<1>1. CASE UNCHANGED <<recv, rtask>>
  BY <1>1 DEF IInv, ReceiverTyped, FileInv, Receives, Marks, Backed, Whole
<1>2. CASE f \in DOMAIN recv.ctx /\ recv' = [recv EXCEPT !.ctx[f].stuck = TRUE] /\ UNCHANGED rtask
  <2>1. /\ DOMAIN recv' = Fields /\ recv' = [x \in Fields |-> recv'[x]]
        /\ recv'.disk = recv.disk /\ recv'.mark = recv.mark /\ recv'.moved = recv.moved
        /\ DOMAIN recv'.ctx = DOMAIN recv.ctx
        /\ recv'.ctx = [x \in DOMAIN recv.ctx |-> recv'.ctx[x]]
        /\ \A x \in DOMAIN recv.ctx : /\ recv'.ctx[x].got = recv.ctx[x].got
                                      /\ recv'.ctx[x].held = recv.ctx[x].held
                                      /\ DOMAIN recv'.ctx[x] = DOMAIN recv.ctx[x]
    <3>1. /\ DOMAIN recv' = Fields /\ recv' = [x \in Fields |-> recv'[x]]
          /\ recv'.disk = recv.disk /\ recv'.mark = recv.mark /\ recv'.moved = recv.moved
          /\ recv'.ctx = [recv.ctx EXCEPT ![f].stuck = TRUE]
      BY <1>2 DEF IInv, ReceiverTyped, Fields
    <3>2. recv.ctx = [x \in DOMAIN recv.ctx |-> recv.ctx[x]]
      BY DEF IInv, ReceiverTyped
    <3> DEFINE next == [recv.ctx[f] EXCEPT !.stuck = TRUE]
    <3>3. /\ DOMAIN next = DOMAIN recv.ctx[f]
          /\ next.got = recv.ctx[f].got /\ next.held = recv.ctx[f].held
      BY <1>2 DEF IInv, ReceiverTyped, FileInv, Receives
    <3>4. recv'.ctx = [recv.ctx EXCEPT ![f] = next]
      BY <3>1
    <3> HIDE DEF next
    <3>5. /\ DOMAIN recv'.ctx = DOMAIN recv.ctx
          /\ recv'.ctx = [x \in DOMAIN recv.ctx |-> recv'.ctx[x]]
          /\ \A x \in DOMAIN recv.ctx : recv'.ctx[x] = IF x = f THEN next ELSE recv.ctx[x]
      BY <3>2, <3>4
    <3> QED
      BY <3>1, <3>3, <3>5
  <2>2. /\ DOMAIN rtask' = Files /\ rtask' = [x \in Files |-> rtask'[x]]
        /\ \A x \in Files : rtask'[x] = "Completed" => rtask[x] = "Completed"
    BY <1>2 DEF IInv, ReceiverTyped
  <2> QED
    BY <2>1, <2>2, QuietKeeps
<1>3. CASE /\ recv' = Finished(recv, f)
           /\ rtask' = [rtask EXCEPT ![f] = IF @ = "none" THEN @ ELSE IF ok THEN "Completed" ELSE "Failed"]
  <2> DEFINE status == IF rtask[f] = "none" THEN "none" ELSE IF ok THEN "Completed" ELSE "Failed"
  <2>1. rtask' = [rtask EXCEPT ![f] = status]
    BY <1>3 DEF IInv, ReceiverTyped
  <2>2. status = "Completed" => recv.disk[f] = Whole
    BY DEF Matches
  <2> HIDE DEF status
  <2> QED
    BY <1>3, <2>1, <2>2, FinishedKeeps
<1> QED
  BY <1>1, <1>2, <1>3 DEF ReceiveVerify

LEMMA PauseReceiveKeeps ==
  ASSUME IInv, NEW f \in Files, PauseReceive(f)
  PROVE  IInv'
<1>1. /\ f \in DOMAIN recv.ctx /\ recv' = [recv EXCEPT !.ctx[f].paused = TRUE]
      /\ rtask' = [rtask EXCEPT ![f] = "Paused"]
  BY DEF PauseReceive
<1>2. /\ DOMAIN recv' = Fields /\ recv' = [x \in Fields |-> recv'[x]]
      /\ recv'.disk = recv.disk /\ recv'.mark = recv.mark /\ recv'.moved = recv.moved
      /\ DOMAIN recv'.ctx = DOMAIN recv.ctx
      /\ recv'.ctx = [x \in DOMAIN recv.ctx |-> recv'.ctx[x]]
      /\ \A x \in DOMAIN recv.ctx : /\ recv'.ctx[x].got = recv.ctx[x].got
                                    /\ recv'.ctx[x].held = recv.ctx[x].held
                                    /\ DOMAIN recv'.ctx[x] = DOMAIN recv.ctx[x]
  <2>1. /\ DOMAIN recv' = Fields /\ recv' = [x \in Fields |-> recv'[x]]
        /\ recv'.disk = recv.disk /\ recv'.mark = recv.mark /\ recv'.moved = recv.moved
        /\ recv'.ctx = [recv.ctx EXCEPT ![f].paused = TRUE]
    BY <1>1 DEF IInv, ReceiverTyped, Fields
  <2>2. recv.ctx = [x \in DOMAIN recv.ctx |-> recv.ctx[x]]
    BY DEF IInv, ReceiverTyped
  <2> DEFINE next == [recv.ctx[f] EXCEPT !.paused = TRUE]
  <2>3. /\ DOMAIN next = DOMAIN recv.ctx[f]
        /\ next.got = recv.ctx[f].got /\ next.held = recv.ctx[f].held
    BY <1>1 DEF IInv, ReceiverTyped, FileInv, Receives
  <2>4. recv'.ctx = [recv.ctx EXCEPT ![f] = next]
    BY <2>1
  <2> HIDE DEF next
  <2>5. /\ DOMAIN recv'.ctx = DOMAIN recv.ctx
        /\ recv'.ctx = [x \in DOMAIN recv.ctx |-> recv'.ctx[x]]
        /\ \A x \in DOMAIN recv.ctx : recv'.ctx[x] = IF x = f THEN next ELSE recv.ctx[x]
    BY <2>2, <2>4
  <2> QED
    BY <2>1, <2>3, <2>5
<1>3. /\ DOMAIN rtask' = Files /\ rtask' = [x \in Files |-> rtask'[x]]
      /\ \A x \in Files : rtask'[x] = "Completed" => rtask[x] = "Completed"
  BY <1>1 DEF IInv, ReceiverTyped
<1> QED
  BY <1>2, <1>3, QuietKeeps

LEMMA ReceiverRestartKeeps ==
  ASSUME IInv, ReceiverRestart
  PROVE  IInv'
<1>1. PICK mark \in {recv.mark, <<>>}, disk \in {recv.disk, [f \in Files |-> Flushed(f)]} :
        recv' = [prompts |-> [f \in Files |-> 0], sock |-> [f \in Files |-> 0],
                 dig |-> [f \in Files |-> FALSE], ctx |-> <<>>, of |-> {},
                 disk |-> disk, mark |-> mark, moved |-> recv.moved]
  BY DEF ReceiverRestart
<1>2. /\ DOMAIN recv' = Fields /\ recv' = [x \in Fields |-> recv'[x]]
      /\ recv'.disk = disk /\ recv'.mark = mark /\ recv'.ctx = <<>> /\ recv'.moved = recv.moved
  BY <1>1 DEF Fields
<1>3. rtask' = [f \in Files |-> "none"]
  BY DEF ReceiverRestart
<1>4. DOMAIN <<>> = {} /\ <<>> = [x \in {} |-> <<>>[x]]
  OBVIOUS
<1>5. DOMAIN mark \subseteq Files /\ \A f \in DOMAIN mark : f \in DOMAIN recv.mark /\ mark[f] = recv.mark[f]
  <2>1. CASE mark = recv.mark
    BY <2>1 DEF IInv, ReceiverTyped
  <2>2. CASE mark = <<>>
    BY <1>4, <2>2
  <2> QED
    BY <2>1, <2>2
<1>6. DOMAIN disk = Files /\ disk = [f \in Files |-> disk[f]]
  BY DEF IInv, ReceiverTyped
<1>7. ReceiverTyped'
  BY <1>2, <1>3, <1>4, <1>5, <1>6 DEF ReceiverTyped
<1>8. ASSUME NEW f \in Files PROVE FileInv(f)'
  <2>1. disk[f] = recv.disk[f] \/ disk[f] = Flushed(f)
    BY DEF IInv, ReceiverTyped
  <2>2. IsSeq(recv.disk[f]) /\ Len(recv.disk[f]) \in Nat
    BY LenProperties DEF IInv, FileInv, IsSeq
  <2>3. /\ IsSeq(disk[f]) /\ Len(disk[f]) \in Nat /\ Len(recv.disk[f]) <= Len(disk[f])
        /\ f \in DOMAIN recv.mark => TailIsLast(disk[f], recv.mark[f])
    <3>1. CASE disk[f] = recv.disk[f]
      BY <2>2, <3>1 DEF IInv, FileInv, Marks
    <3>2. CASE disk[f] = Flushed(f)
      BY <3>2, FlushedIs
    <3> QED
      BY <2>1, <3>1, <3>2
  <2>4. f \in DOMAIN mark => Marks(f)'
    <3> SUFFICES ASSUME f \in DOMAIN mark PROVE Marks(f)'
      OBVIOUS
    <3>1. f \in DOMAIN recv.mark /\ mark[f] = recv.mark[f] /\ Marks(f)
      BY <1>5 DEF IInv, FileInv
    <3>2. recv.mark[f] <= Len(recv.disk[f]) => recv.mark[f] <= Len(disk[f])
      BY <2>2, <2>3, <3>1, TransferAssumption DEF Marks
    <3> QED
      BY <1>2, <2>3, <3>1, <3>2 DEF Marks, Backed
  <2>5. f \notin DOMAIN recv'.ctx /\ rtask'[f] # "Completed"
    BY <1>2, <1>3, <1>4
  <2> QED
    BY <1>2, <2>3, <2>4, <2>5 DEF FileInv
<1> QED
  BY <1>7, <1>8 DEF IInv

(* The sender and the network write into connections, nothing else.        *)
LEMMA SenderKeeps ==
  ASSUME IInv, ReceiverSame
  PROVE  IInv'
BY DEF ReceiverSame, IInv, ReceiverTyped, FileInv, Receives, Marks, Backed, Whole

LEMMA StepKeeps == IInv /\ [Next]_vars => IInv'
<1> SUFFICES ASSUME IInv, [Next]_vars PROVE IInv'
  OBVIOUS
<1>1. CASE Machine
  <2>1. CASE KeyReady
    BY <2>1, SenderKeeps DEF KeyReady
  <2>2. ASSUME NEW i \in DOMAIN send.retry, RetryTimer(i) PROVE IInv'
    BY <2>2, SenderKeeps DEF RetryTimer
  <2>3. ASSUME NEW f \in Files, KeyTimeout(f) \/ BytesWritten(f) PROVE IInv'
    BY <2>3, SenderKeeps DEF KeyTimeout, BytesWritten
  <2>4. ASSUME NEW f \in Files, AcceptFile(f) \/ RejectFile(f) PROVE IInv'
    BY <2>4, AcceptFileKeeps, RejectFileKeeps
  <2>5. ASSUME NEW f \in Files, NEW n,
               Connected(f, n) \/ ReadAccept(f, n) \/ ReadReject(f, n) \/ SocketError(f, n)
        PROVE  IInv'
    BY <2>5, SenderKeeps DEF Connected, ReadAccept, ReadReject, SocketError
  <2>6. ASSUME NEW f \in Files, NEW n,
               ReceiveStart(f, n) \/ ReceiveChunk(f, n) \/ ReceiveVerify(f, n)
        PROVE  IInv'
    BY <2>6, ReceiveStartKeeps, ReceiveChunkKeeps, ReceiveVerifyKeeps
  <2> QED
    BY <1>1, <2>1, <2>2, <2>3, <2>4, <2>5, <2>6 DEF Machine
<1>2. CASE Users
  <2> PICK f \in Files :
        \/ SendFile(f) \/ PauseFile(f) \/ ResumeFile(f) \/ ResumeSaved(f) \/ CancelFile(f)
        \/ RemoveTransfer(f) \/ PauseReceive(f) \/ CancelReceive(f) \/ RemoveReceive(f)
        \/ DismissFile(f)
    BY <1>2 DEF Users
  <2>1. CASE SendFile(f) \/ PauseFile(f) \/ ResumeFile(f) \/ ResumeSaved(f)
    BY <2>1, SenderKeeps DEF SendFile, PauseFile, ResumeFile, ResumeSaved
  <2>2. CASE CancelFile(f) \/ RemoveTransfer(f)
    BY <2>2, SenderKeeps DEF CancelFile, RemoveTransfer
  <2>3. CASE PauseReceive(f)
    BY <2>3, PauseReceiveKeeps
  <2>4. CASE CancelReceive(f) \/ RemoveReceive(f)
    BY <2>4, FinishedKeeps DEF CancelReceive, RemoveReceive, StopReceive
  <2>5. CASE DismissFile(f)
    <3>1. /\ DOMAIN recv' = Fields /\ recv' = [x \in Fields |-> recv'[x]] /\ UNCHANGED rtask
          /\ recv'.disk = recv.disk /\ recv'.mark = recv.mark /\ recv'.ctx = recv.ctx
          /\ recv'.moved = recv.moved
      BY <2>5 DEF DismissFile, IInv, ReceiverTyped, Fields
    <3>2. /\ recv.ctx = [x \in DOMAIN recv.ctx |-> recv.ctx[x]]
          /\ DOMAIN rtask = Files /\ rtask = [x \in Files |-> rtask[x]]
      BY DEF IInv, ReceiverTyped
    <3> QED
      BY <3>1, <3>2, QuietKeeps
  <2> QED
    BY <2>1, <2>2, <2>3, <2>4, <2>5
<1>3. CASE Environment
  <2>1. CASE SenderRestart
    BY <2>1, SenderKeeps DEF SenderRestart
  <2>2. CASE ReceiverRestart
    BY <2>2, ReceiverRestartKeeps
  <2>3. ASSUME NEW f \in Files, NEW n,
               LinkFails(f, n) \/ LoseTail(f, n) \/ GarbledStart(f, n) \/ GarbledAnswers(f, n)
        PROVE  IInv'
    BY <2>3, SenderKeeps DEF LinkFails, LoseTail, GarbledStart, GarbledAnswers, ReceiverSame
  <2> QED
    BY <1>3, <2>1, <2>2, <2>3 DEF Environment
<1>4. CASE UNCHANGED vars
  BY <1>4, SenderKeeps DEF vars, ReceiverSame
<1> QED
  BY <1>1, <1>2, <1>3, <1>4 DEF Next

LEMMA InitOK == Init => IInv
<1> SUFFICES ASSUME Init PROVE IInv
  OBVIOUS
<1>1. /\ recv.disk = [f \in Files |-> <<>>] /\ recv.ctx = <<>> /\ recv.mark = <<>>
      /\ DOMAIN recv = Fields /\ recv = [x \in Fields |-> recv[x]]
      /\ rtask = [f \in Files |-> "none"]
  BY DEF Init, Fields
<1>2. DOMAIN <<>> = {} /\ <<>> = [x \in {} |-> <<>>[x]]
  OBVIOUS
<1>3. IsSeq(<<>>)
  BY SeqIs, EmptySeq
<1> QED
  BY <1>1, <1>2, <1>3 DEF IInv, ReceiverTyped, FileInv

-----------------------------------------------------------------------------
(* finishReceive: what is reported complete is the file that was sent,     *)
(* whatever retries, second prompts, other paths, late chunks, restarts    *)
(* and chunks that QFile holds went before.                                *)
THEOREM CompleteIsWhole == Spec => []ReceivedIsWhole
<1>1. IInv => ReceivedIsWhole
  BY DEF IInv, FileInv, ReceivedIsWhole
<1> QED
  BY <1>1, InitOK, StepKeeps, PTL DEF Spec

(* saveTransferState: a bookmark beyond what is on disk comes only of      *)
(* another path after the bookmark was made, or of a last chunk that QFile *)
(* holds; no interleaving of contexts, prompts and restarts makes one else.*)
THEOREM BookmarkBacked == Spec => []BookmarkIsBacked
<1>1. IInv => BookmarkIsBacked
  BY DEF IInv, ReceiverTyped, FileInv, Marks, Backed, BookmarkIsBacked
<1> QED
  BY <1>1, InitOK, StepKeeps, PTL DEF Spec
=============================================================================
