--------------------------- MODULE IPMsgTransfer ---------------------------
(***************************************************************************)
(* File transfers of the messenger, src/src/app/ipmsg_manager.cpp: the     *)
(* queue of the sender with its limit of concurrent transfers, the wait    *)
(* for a session key, connections that fail and are tried again, and the   *)
(* receiver with its consent, its chunk digests and its resume bookmark.   *)
(* One sender, one receiver.  A file is Chunks chunks, numbered in order,  *)
(* the last one perhaps shorter than the others; what the receiver has on  *)
(* disk, under the path it was last accepted under, is the sequence of the *)
(* chunks written there, with 0 for what was skipped.                      *)
(* Every handler runs on the GUI thread of its machine and is one step.    *)
(***************************************************************************)
EXTENDS Naturals, FiniteSets, SequencesExt

CONSTANTS
  Files,        \* fileIds of what the user sends
  LastChunk,    \* the last chunk of each: "full", "short", or "small", no more than QFile's buffer
  MaxActive,    \* m_maxConcurrentTransfers
  MaxAttempts,  \* m_maxRetries
  Chunks,       \* chunks of a file
  Window,       \* s_maxInFlight, in chunks
  Clicks,       \* bound: what the two users do besides answering
  Faults        \* bound: failing links and restarts

ASSUME TransferAssumption ==
  /\ MaxActive \in Nat \ {0} /\ MaxAttempts \in Nat \ {0}
  /\ LastChunk \in [Files -> {"full", "short", "small"}]
  /\ Chunks \in Nat \ {0} /\ Window \in Nat \ {0}
  /\ Clicks \in Nat /\ Faults \in Nat

VARIABLES
  task,     \* the sender's m_tasks: file -> TransferStatus
  saved,    \* the files in the sender's state file
  keyed,    \* hasEstablishedSession of the peer
  send,     \* the sender's machinery: queue, retry timers, contexts, connections
  rtask,    \* the receiver's m_tasks
  recv,     \* the receiver's machinery
  clicks, faults,
  seen      \* what happened that TransfersEnd excepts

vars == <<task, saved, keyed, send, rtask, recv, clicks, faults, seen>>

Terminal == {"Completed", "Failed", "Cancelled"}
Status == Terminal \cup {"none", "Queued", "Transferring", "Paused"}

Put(map, k, v) == [x \in DOMAIN map \cup {k} |-> IF x = k THEN v ELSE map[x]]
Drop(map, k) == Restrict(map, DOMAIN map \ {k})

-----------------------------------------------------------------------------
(* Connections: wire[f][n] is the n-th connection made for file f.         *)

\* Sender-side end of a connection that is given up: what was written may still
\* arrive (LoseTail), its signals are disconnected.
Hang(s, f, n) == IF n = 0 \/ s.wire[f][n].st = "gone" THEN s
                 ELSE [s EXCEPT !.wire[f][n].st = "over", !.wire[f][n].toS = <<>>]

ToReceiver(s, f, n, msgs) ==
  IF n # 0 /\ s.wire[f][n].st \in {"connecting", "up"}
  THEN [s EXCEPT !.wire[f][n].toR = @ \o msgs] ELSE s

Start(dig) == [t |-> "START", dig |-> dig]
Accept(off) == [t |-> "ACCEPT", off |-> off]
Reject == [t |-> "REJECT"]
Chunk(i) == [t |-> "CHUNK", i |-> i]
Verify == [t |-> "VERIFY"]

-----------------------------------------------------------------------------
(* The sender's machinery.  A job is a file, its attempt and whether chunk *)
(* digests were computed for it.                                           *)

Connect(s, j) ==
  [s EXCEPT !.wire[j.file] = Append(@, [toR |-> <<>>, toS |-> <<>>, st |-> "connecting", dig |-> j.dig]),
            !.ctx[j.file].conn = Len(s.wire[j.file]) + 1]

\* Mutant: no timer for a peer that never answers the key exchange.
StartJobUntimed(s, j) ==
  LET c == [attempts |-> j.attempts, dig |-> j.dig, conn |-> 0, pending |-> ~keyed,
            open |-> FALSE, sent |-> 0, inFlight |-> 0, paused |-> FALSE]
      s1 == [s EXCEPT !.ctx = Put(@, j.file, c)]
  IN  IF keyed THEN Connect(s1, j) ELSE [s1 EXCEPT !.keyJobs = Put(@, j.file, j)]

StartJob(s, j) ==
  LET c == [attempts |-> j.attempts, dig |-> j.dig, conn |-> 0, pending |-> ~keyed,
            open |-> FALSE, sent |-> 0, inFlight |-> 0, paused |-> FALSE]
      s1 == [s EXCEPT !.ctx = Put(@, j.file, c)]
  IN  IF keyed THEN Connect(s1, j)
      ELSE [s1 EXCEPT !.keyJobs = Put(@, j.file, j), !.keyTimers = @ \cup {j.file}]

\* pumpTransferQueue
PumpQueue(s) ==
  FoldLeft(LAMBDA acc, j : IF Cardinality(DOMAIN acc.ctx) < MaxActive
                           THEN StartJob(acc, j)
                           ELSE [acc EXCEPT !.queue = Append(@, j)],
           [s EXCEPT !.queue = <<>>], s.queue)

\* Mutant: the slot is freed and nobody told.
CleanupQuietly(s, f) ==
  IF f \notin DOMAIN s.ctx THEN s ELSE [Hang(s, f, s.ctx[f].conn) EXCEPT !.ctx = Drop(@, f)]

\* cleanupSender, without a look at the task
Cleanup(s, f) ==
  IF f \notin DOMAIN s.ctx THEN s
  ELSE PumpQueue([Hang(s, f, s.ctx[f].conn) EXCEPT !.ctx = Drop(@, f)])

\* pumpSender and finalizeSender: the chunks the window lets through, and after
\* the last one the digest and the end of the connection.
Fill(s, f) ==
  LET c == s.ctx[f]
      k == IF Window - c.inFlight < Chunks - c.sent THEN Window - c.inFlight ELSE Chunks - c.sent
      chunks == [i \in 1 .. k |-> Chunk(c.sent + i)]
      last == c.sent + k = Chunks
  IN  IF last
      THEN PumpQueue([Hang(ToReceiver(s, f, c.conn, Append(chunks, Verify)), f, c.conn)
                        EXCEPT !.ctx = Drop(@, f)])
      ELSE [ToReceiver(s, f, c.conn, chunks)
              EXCEPT !.ctx[f].sent = @ + k, !.ctx[f].inFlight = @ + k]
Ends(c) == Chunks - c.sent <= Window - c.inFlight


-----------------------------------------------------------------------------
(* Sender: what its user does, key exchange, connections, timers.          *)

Init ==
  /\ task = [f \in Files |-> "none"] /\ saved = {} /\ keyed = FALSE
  /\ send = [queue |-> <<>>, retry |-> <<>>, ctx |-> <<>>, keyJobs |-> <<>>, keyTimers |-> {},
             wire |-> [f \in Files |-> <<>>], past |-> {}]
  /\ rtask = [f \in Files |-> "none"]
  /\ recv = [prompts |-> [f \in Files |-> 0], sock |-> [f \in Files |-> 0],
             dig |-> [f \in Files |-> FALSE], ctx |-> <<>>, of |-> {},
             disk |-> [f \in Files |-> <<>>], mark |-> <<>>, moved |-> {}]
  /\ clicks = Clicks /\ faults = Faults /\ seen = {}

ReceiverSame == UNCHANGED <<rtask, recv>>
SenderSame == UNCHANGED <<task, saved, keyed>>
Click == clicks > 0 /\ clicks' = clicks - 1 /\ UNCHANGED faults
Fault == faults > 0 /\ faults' = faults - 1 /\ UNCHANGED clicks
NoBudget == UNCHANGED <<clicks, faults>>
Happens(e) == seen' = seen \cup e

\* sendFileData, for one file.  Its fileId is made of the sender's id among
\* others, which is new after a restart: what was sent before gets another one.
SendFile(f) ==
  /\ Click /\ task[f] = "none" /\ f \notin DOMAIN send.ctx /\ f \notin send.past
  /\ task' = [task EXCEPT ![f] = "Queued"]
  /\ saved' = saved \cup {f}
  /\ send' = PumpQueue([send EXCEPT !.queue = Append(@, [file |-> f, attempts |-> 1, dig |-> TRUE])])
  /\ UNCHANGED <<keyed, seen>> /\ ReceiverSame

PauseFile(f) ==
  /\ Click /\ task[f] = "Transferring" /\ f \in DOMAIN send.ctx
  /\ task' = [task EXCEPT ![f] = "Paused"]
  /\ send' = [send EXCEPT !.ctx[f].paused = TRUE]
  /\ Happens({"paused"}) /\ UNCHANGED <<saved, keyed>> /\ ReceiverSame

\* resumeFile of a task that is there is retryFile: a new job without digests,
\* whatever context the file still has.
ResumeFile(f) ==
  /\ Click /\ task[f] = "Paused"
  /\ task' = [task EXCEPT ![f] = "Queued"]
  /\ saved' = saved \cup {f}
  /\ send' = PumpQueue([send EXCEPT !.queue = Append(@, [file |-> f, attempts |-> 1, dig |-> FALSE])])
  /\ UNCHANGED <<keyed, seen>> /\ ReceiverSame

\* resumeFile after a restart: the task that is rebuilt has no peer, and
\* retryFile gives up after it marked the task as queued.
ResumeSaved(f) ==
  /\ Click /\ task[f] = "none" /\ f \in saved
  /\ task' = [task EXCEPT ![f] = "Queued"]
  /\ UNCHANGED <<saved, keyed, send, seen>> /\ ReceiverSame

CancelFile(f) ==
  /\ Click /\ task[f] \notin Terminal \cup {"none"}
  /\ send' = Cleanup([send EXCEPT !.keyJobs = Drop(@, f)], f)
  /\ task' = [task EXCEPT ![f] = "Cancelled"]
  /\ saved' = saved \ {f}
  /\ UNCHANGED <<keyed, seen>> /\ ReceiverSame

Retrying(f) == \E i \in DOMAIN send.retry : send.retry[i].file = f

RemoveTransfer(f) ==
  /\ Click /\ task[f] \in Terminal
  /\ send' = LET s == Cleanup(send, f) IN [s EXCEPT !.keyJobs = Drop(@, f)]
  /\ task' = [task EXCEPT ![f] = "none"]
  /\ saved' = saved \ {f}
  /\ Happens(IF Retrying(f) THEN {"removed"} ELSE {})
  /\ UNCHANGED keyed /\ ReceiverSame

Waiting(s) == {f \in DOMAIN s.keyJobs : f \in DOMAIN s.ctx /\ s.ctx[f].pending}
Unpend(s, j) == Connect([s EXCEPT !.ctx[j.file].pending = FALSE], j)

\* onEncryptionReadyForTransfer
KeyReady ==
  /\ ~keyed /\ DOMAIN send.keyJobs # {}
  /\ keyed' = TRUE
  /\ send' = [FoldSet(LAMBDA f, s : Unpend(s, send.keyJobs[f]), send, Waiting(send))
                EXCEPT !.keyJobs = <<>>]
  /\ UNCHANGED <<task, saved, seen>> /\ NoBudget /\ ReceiverSame

\* The 5 s timer of a job is never stopped; it serves whatever waits under its fileId.
KeyTimeout(f) ==
  /\ f \in send.keyTimers
  /\ send' = LET s == [send EXCEPT !.keyTimers = @ \ {f}, !.keyJobs = Drop(@, f)]
             IN  IF f \in Waiting(send) THEN Unpend(s, send.keyJobs[f]) ELSE s
  /\ SenderSame /\ UNCHANGED seen /\ NoBudget /\ ReceiverSame

Connected(f, n) ==
  /\ send.wire[f][n].st = "connecting"
  /\ LET s == [send EXCEPT !.wire[f][n].st = "up"]
     IN  send' = IF f \in DOMAIN s.ctx THEN ToReceiver(s, f, n, <<Start(s.wire[f][n].dig)>>) ELSE s
  /\ SenderSame /\ UNCHANGED seen /\ NoBudget /\ ReceiverSame

\* readyRead of a sending socket: the context is found by fileId, not by socket.
ReadAccept(f, n) ==
  /\ send.wire[f][n].st = "up" /\ send.wire[f][n].toS # <<>>
  /\ Head(send.wire[f][n].toS).t = "ACCEPT"
  /\ LET off == Head(send.wire[f][n].toS).off
         s == [send EXCEPT !.wire[f][n].toS = Tail(@)]
         s1 == [s EXCEPT !.ctx[f].open = TRUE, !.ctx[f].sent = off]
     IN  \/ /\ f \notin DOMAIN s.ctx
            /\ send' = s /\ SenderSame /\ UNCHANGED seen /\ NoBudget
         \/ /\ f \in DOMAIN s.ctx /\ s.ctx[f].conn # 0
            /\ IF s.ctx[f].paused
               THEN send' = s1 /\ task' = [task EXCEPT ![f] = "Transferring"] /\ UNCHANGED saved
               ELSE /\ send' = Fill(s1, f)
                    /\ task' = [task EXCEPT ![f] = IF Ends(s1.ctx[f]) THEN "Completed" ELSE "Transferring"]
                    /\ saved' = IF Ends(s1.ctx[f]) THEN saved \ {f} ELSE saved
            /\ UNCHANGED <<keyed, seen>> /\ NoBudget
         \/ \* the file cannot be opened: the context stays
            /\ f \in DOMAIN s.ctx /\ Fault
            /\ send' = s /\ Happens({"unreadable"}) /\ SenderSame
  /\ ReceiverSame

ReadReject(f, n) ==
  /\ send.wire[f][n].st = "up" /\ send.wire[f][n].toS # <<>>
  /\ Head(send.wire[f][n].toS).t = "REJECT"
  /\ send' = Cleanup([send EXCEPT !.wire[f][n].toS = Tail(@)], f)
  /\ SenderSame /\ UNCHANGED seen /\ NoBudget /\ ReceiverSame

\* onSendProgress and onSendChunkWritten: the socket took one chunk
BytesWritten(f) ==
  /\ f \in DOMAIN send.ctx
  /\ send.ctx[f].inFlight > 0 /\ ~send.ctx[f].paused
  /\ send.wire[f][send.ctx[f].conn].st = "up"
  /\ LET s == [send EXCEPT !.ctx[f].inFlight = @ - 1]
     IN  /\ send' = Fill(s, f)
         /\ task' = [task EXCEPT ![f] = IF Ends(s.ctx[f]) THEN "Completed" ELSE @]
         /\ saved' = IF Ends(s.ctx[f]) THEN saved \ {f} ELSE saved
  /\ UNCHANGED <<keyed, seen>> /\ NoBudget /\ ReceiverSame

\* handleSendFailure, for whatever context the file has now
SocketError(f, n) ==
  /\ send.wire[f][n].st = "cut"
  /\ LET s == Hang(send, f, n)
     IN  IF f \notin DOMAIN s.ctx THEN send' = s /\ UNCHANGED task
         ELSE LET c == s.ctx[f]
                  s1 == [Hang(s, f, c.conn) EXCEPT !.ctx = Drop(@, f)]
              IN  IF c.attempts < MaxAttempts
                  THEN /\ send' = [s1 EXCEPT !.retry =
                             Append(@, [file |-> f, attempts |-> c.attempts + 1, dig |-> c.dig])]
                       /\ task' = [task EXCEPT ![f] = IF @ = "none" THEN @ ELSE "Queued"]
                  ELSE /\ send' = PumpQueue(s1)
                       /\ task' = [task EXCEPT ![f] = IF @ = "none" THEN @ ELSE "Failed"]
  /\ UNCHANGED <<saved, keyed, seen>> /\ NoBudget /\ ReceiverSame

\* Mutant: the job is queued again and not pumped.
RetryTimerQuietly(i) ==
  /\ i \in DOMAIN send.retry
  /\ LET j == send.retry[i]
         s == [send EXCEPT !.retry = RemoveAt(@, i)]
     IN  send' = IF task[j.file] = "none" THEN s ELSE [s EXCEPT !.queue = <<j>> \o @]
  /\ SenderSame /\ UNCHANGED seen /\ NoBudget /\ ReceiverSame

\* The back-off timer: nothing is pumped if the transfer was removed meanwhile.
RetryTimer(i) ==
  /\ i \in DOMAIN send.retry
  /\ LET j == send.retry[i]
         s == [send EXCEPT !.retry = RemoveAt(@, i)]
     IN  send' = IF task[j.file] = "none" THEN s
                 ELSE PumpQueue([s EXCEPT !.queue = <<j>> \o @])
  /\ SenderSame /\ UNCHANGED seen /\ NoBudget /\ ReceiverSame

-----------------------------------------------------------------------------
(* Receiver.                                                               *)

\* The receiver learns of the end of a connection with its last byte;
\* onTcpDisconnected then deletes the socket, context, bookmark and maps stay.
Ended(c) == c.st = "gone" \/ (c.st = "over" /\ c.toR = <<>>)
Open(f) == recv.sock[f] # 0 /\ ~Ended(send.wire[f][recv.sock[f]])
Arrives(f, n, kind) == /\ send.wire[f][n].st # "gone" /\ send.wire[f][n].toR # <<>>
                       /\ Head(send.wire[f][n].toR).t = kind
Consume(f, n) == send' = [send EXCEPT !.wire[f][n].toR = Tail(@)]
Answer(s, f, m) == LET n == recv.sock[f]
                   IN  IF s.wire[f][n].st = "up" THEN [s EXCEPT !.wire[f][n].toS = Append(@, m)] ELSE s

\* FILE_START.  With a bookmark the file is accepted at once, under the path in
\* the bookmark; acceptFile puts the relative name behind it once more, and the
\* file cannot be created below a file: nothing is answered.
ReceiveStart(f, n) ==
  /\ Arrives(f, n, "START") /\ Consume(f, n)
  /\ rtask' = [rtask EXCEPT ![f] = "Queued"]
  /\ LET resumes == f \in DOMAIN recv.mark /\ recv.mark[f] > 0
         r == [recv EXCEPT !.sock[f] = n, !.dig[f] = Head(send.wire[f][n].toR).dig]
     IN  /\ recv' = IF resumes THEN r ELSE [r EXCEPT !.prompts[f] = @ + 1]
         /\ Happens((IF resumes THEN {"resume"} ELSE {}) \cup
                    (IF recv.sock[f] > n THEN {"overtaken"} ELSE {}))
  /\ SenderSame /\ NoBudget

Whole == [i \in 1 .. Chunks |-> i]

\* A chunk is written at its place, over what is there and behind what is not.
Written(d, p, i) ==
  [k \in 1 .. (IF Len(d) < p THEN p ELSE Len(d)) |->
     IF k = p THEN i ELSE IF k <= Len(d) THEN d[k] ELSE 0]

\* With the chunk that QFile still holds, which goes to the disk when the file
\* is closed or written to.
Flushed(f) == IF f \in DOMAIN recv.ctx /\ recv.ctx[f].held
              THEN Written(recv.disk[f], recv.ctx[f].got, Chunks) ELSE recv.disk[f]

\* Mutant: opened for writing only, which truncates, also when resuming.
OpenedTruncated(f, off, other) == <<>>

\* What acceptFile opens: a new file, or from an offset on the file as it is,
\* except under another path.
Opened(f, off, other) == IF off = 0 \/ other THEN <<>> ELSE recv.disk[f]

MarkOf(f) == IF f \in DOMAIN recv.mark THEN recv.mark[f] ELSE 0

\* acceptFile after the user said yes and chose a path; a context that is
\* replaced is not closed.
AcceptFile(f) ==
  /\ recv.prompts[f] > 0
  /\ LET off == MarkOf(f)
         n == recv.sock[f]
         r == [recv EXCEPT !.prompts[f] = @ - 1]
     IN  IF ~Open(f) \/ rtask[f] = "none" THEN recv' = r /\ UNCHANGED <<rtask, send>>
         ELSE /\ \E other \in BOOLEAN :
                   recv' = [r EXCEPT
                     !.ctx = Put(@, f, [conn |-> n, got |-> off, dig |-> recv.dig[f],
                                        paused |-> FALSE, stuck |-> FALSE, held |-> FALSE]),
                     !.of = @ \cup {<<f, n>>}, !.mark = Put(@, f, off),
                     !.disk[f] = Opened(f, off, other),
                     !.moved = IF off = 0 THEN @ \ {f} ELSE IF other THEN @ \cup {f} ELSE @]
              /\ send' = Answer(send, f, Accept(off))
              /\ rtask' = [rtask EXCEPT ![f] = "Transferring"]
  /\ SenderSame /\ UNCHANGED seen /\ NoBudget

RejectFile(f) ==
  /\ recv.prompts[f] > 0
  /\ send' = IF Open(f) THEN Answer(send, f, Reject) ELSE send
  /\ recv' = [recv EXCEPT !.prompts[f] = @ - 1, !.sock[f] = 0]
  /\ rtask' = [rtask EXCEPT ![f] = IF @ = "none" THEN @ ELSE "Cancelled"]
  /\ SenderSame /\ UNCHANGED seen /\ NoBudget

\* The user says yes and then closes the dialog for the path.
DismissFile(f) ==
  /\ recv.prompts[f] > 0 /\ Click
  /\ recv' = [recv EXCEPT !.prompts[f] = @ - 1]
  /\ Happens({"dismissed"}) /\ SenderSame /\ UNCHANGED <<send, rtask>>

Finished(r, f) ==
  [r EXCEPT !.ctx = Drop(@, f), !.mark = Drop(@, f), !.disk[f] = Flushed(f), !.moved = @ \ {f},
            !.of = IF f \in DOMAIN r.ctx THEN @ \ {<<f, r.ctx[f].conn>>} ELSE @]

Paused(f, n) == <<f, n>> \in recv.of /\ f \in DOMAIN recv.ctx /\ recv.ctx[f].paused

\* writeReceivedData, one frame.  The bookmark goes on by whole chunks, and to
\* whatever comes first.
ReceiveChunk(f, n) ==
  /\ Arrives(f, n, "CHUNK") /\ ~Paused(f, n) /\ Consume(f, n)
  /\ LET i == Head(send.wire[f][n].toR).i
         c == recv.ctx[f]
         held == i = Chunks /\ LastChunk[f] = "small"
         marks == i # Chunks \/ LastChunk[f] = "full" \/ MarkOf(f) = 0
     IN  IF <<f, n>> \notin recv.of \/ f \notin DOMAIN recv.ctx THEN UNCHANGED <<recv, rtask>>
         ELSE IF c.stuck \/ c.got = Chunks THEN UNCHANGED <<recv, rtask>>
         ELSE IF c.dig /\ i # c.got + 1
         THEN recv' = Finished(recv, f) /\ rtask' = [rtask EXCEPT ![f] = "Failed"]
         ELSE /\ recv' = [recv EXCEPT !.ctx[f].got = @ + 1, !.ctx[f].held = held,
                                      !.mark = IF marks THEN Put(@, f, c.got + 1) ELSE @,
                                      !.disk[f] = IF held THEN Flushed(f)
                                                  ELSE Written(Flushed(f), c.got + 1, i)]
              /\ UNCHANGED rtask
  /\ SenderSame /\ UNCHANGED seen /\ NoBudget

\* Mutant: a file of the right length is taken for the right file.
MatchesLength(f) == Len(recv.disk[f]) = Chunks

\* verifyFileIntegrity, of what is on disk while the file is still open
Matches(f) == recv.disk[f] = Whole

\* FILE_VERIFY, read as a frame while chunks are missing; split by the network
\* it is neither.
ReceiveVerify(f, n) ==
  /\ Arrives(f, n, "VERIFY") /\ ~Paused(f, n) /\ Consume(f, n)
  /\ LET mapped == <<f, n>> \in recv.of
         here == f \in DOMAIN recv.ctx
         ok == here /\ Matches(f)
     IN  \/ mapped /\ ~here /\ UNCHANGED <<recv, rtask>>
         \/ /\ mapped /\ here /\ (recv.ctx[f].stuck \/ recv.ctx[f].got < Chunks)
            /\ recv' = [recv EXCEPT !.ctx[f].stuck = TRUE] /\ UNCHANGED rtask
         \/ /\ ~mapped \/ (here /\ ~recv.ctx[f].stuck /\ recv.ctx[f].got = Chunks)
            /\ \/ /\ recv' = Finished(recv, f)
                  /\ rtask' = [rtask EXCEPT ![f] = IF @ = "none" THEN @ ELSE IF ok THEN "Completed" ELSE "Failed"]
               \/ faults > 0 /\ UNCHANGED <<recv, rtask>>
  /\ SenderSame /\ UNCHANGED seen /\ NoBudget

\* The question about a file is modal: nothing else is clicked while one is open.
NoQuestion == \A f \in Files : recv.prompts[f] = 0

\* pauseFile of a receive; nothing reads on later.
PauseReceive(f) ==
  /\ Click /\ NoQuestion /\ rtask[f] = "Transferring" /\ f \in DOMAIN recv.ctx
  /\ recv' = [recv EXCEPT !.ctx[f].paused = TRUE]
  /\ rtask' = [rtask EXCEPT ![f] = "Paused"]
  /\ Happens({"paused"}) /\ SenderSame /\ UNCHANGED send

\* cancelFile and, of an ended task, removeTransfer on the receiving side
StopReceive(f, status) ==
  /\ Click /\ NoQuestion
  /\ recv' = Finished(recv, f)
  /\ rtask' = [rtask EXCEPT ![f] = status]
  /\ LET n == recv.ctx[f].conn
     IN  send' = IF f \in DOMAIN recv.ctx /\ send.wire[f][n].st = "up"
                 THEN [send EXCEPT !.wire[f][n] = [@ EXCEPT !.st = "cut", !.toR = <<>>, !.toS = <<>>]]
                 ELSE send
  /\ SenderSame /\ UNCHANGED seen
CancelReceive(f) == rtask[f] \notin Terminal \cup {"none"} /\ StopReceive(f, "Cancelled")
RemoveReceive(f) == rtask[f] \in Terminal /\ StopReceive(f, "none")

-----------------------------------------------------------------------------
(* Network and restarts.                                                   *)

LinkFails(f, n) ==
  /\ Fault /\ send.wire[f][n].st \in {"connecting", "up"}
  /\ send' = [send EXCEPT !.wire[f][n].st = "cut", !.wire[f][n].toS = <<>>]
  /\ SenderSame /\ UNCHANGED seen /\ ReceiverSame

\* What a socket had not handed over when it was cut, aborted, or closed and
\* deleted (finalizeSender) is lost.
LoseTail(f, n) ==
  /\ send.wire[f][n].st \in {"cut", "over"} /\ send.wire[f][n].toR # <<>>
  /\ send' = [send EXCEPT !.wire[f][n].toR = Front(@)]
  /\ SenderSame /\ UNCHANGED seen /\ NoBudget /\ ReceiverSame

AllHung(w) == [f \in Files |-> [n \in DOMAIN w[f] |->
                 IF w[f][n].st = "gone" THEN w[f][n] ELSE [w[f][n] EXCEPT !.st = "over", !.toS = <<>>]]]

Used(f) == task[f] # "none" \/ send.wire[f] # <<>>

\* The sender starts with a new id and without sessions.
SenderRestart ==
  /\ Fault /\ \E f \in Files : task[f] # "none"
  /\ task' = [f \in Files |-> "none"] /\ keyed' = FALSE
  /\ send' = [queue |-> <<>>, retry |-> <<>>, ctx |-> <<>>, keyJobs |-> <<>>, keyTimers |-> {},
              wire |-> AllHung(send.wire), past |-> send.past \cup {f \in Files : Used(f)}]
  /\ UNCHANGED <<saved, seen>> /\ ReceiverSame

\* What QFile holds is lost in a crash.  A crash inside saveTransferState leaves
\* an empty file: every bookmark is lost.  The sender may see the new id only,
\* with which it has no session.
ReceiverRestart ==
  /\ Fault /\ \E f \in Files : rtask[f] # "none"
  /\ rtask' = [f \in Files |-> "none"]
  /\ \E mark \in {recv.mark, <<>>}, disk \in {recv.disk, [f \in Files |-> Flushed(f)]} :
       recv' = [prompts |-> [f \in Files |-> 0], sock |-> [f \in Files |-> 0],
                dig |-> [f \in Files |-> FALSE], ctx |-> <<>>, of |-> {},
                disk |-> disk, mark |-> mark, moved |-> recv.moved]
  /\ send' = [send EXCEPT !.wire = [f \in Files |-> [n \in DOMAIN @[f] |->
                CASE @[f][n].st \in {"connecting", "up", "cut"} -> [@[f][n] EXCEPT !.st = "cut", !.toR = <<>>, !.toS = <<>>]
                  [] OTHER -> [@[f][n] EXCEPT !.st = "gone", !.toR = <<>>]]]]
  /\ keyed' \in {keyed, FALSE} /\ UNCHANGED <<task, saved, seen>>

\* A document that arrives in two reads, as a FILE_START with the digests of
\* many chunks may, or two answers in one, does not parse and is dropped.
GarbledStart(f, n) ==
  /\ Fault /\ Arrives(f, n, "START") /\ Consume(f, n)
  /\ Happens({"garbled"}) /\ SenderSame /\ UNCHANGED <<rtask, recv>>

GarbledAnswers(f, n) ==
  /\ send.wire[f][n].st = "up" /\ send.wire[f][n].toS # <<>>
  /\ (Len(send.wire[f][n].toS) > 1 /\ NoBudget) \/ Fault
  /\ send' = [send EXCEPT !.wire[f][n].toS = <<>>]
  /\ Happens({"garbled"}) /\ SenderSame /\ ReceiverSame

-----------------------------------------------------------------------------
Machine ==
  \/ KeyReady
  \/ \E i \in DOMAIN send.retry : RetryTimer(i)
  \/ \E f \in Files : KeyTimeout(f) \/ BytesWritten(f) \/ AcceptFile(f) \/ RejectFile(f)
  \/ \E f \in Files : \E n \in DOMAIN send.wire[f] :
       \/ Connected(f, n) \/ ReadAccept(f, n) \/ ReadReject(f, n) \/ SocketError(f, n)
       \/ ReceiveStart(f, n) \/ ReceiveChunk(f, n) \/ ReceiveVerify(f, n)

Users == \E f \in Files :
  \/ SendFile(f) \/ PauseFile(f) \/ ResumeFile(f) \/ ResumeSaved(f) \/ CancelFile(f) \/ RemoveTransfer(f)
  \/ PauseReceive(f) \/ CancelReceive(f) \/ RemoveReceive(f) \/ DismissFile(f)

Environment ==
  \/ SenderRestart \/ ReceiverRestart
  \/ \E f \in Files : \E n \in DOMAIN send.wire[f] : 
       \/ LinkFails(f, n) \/ LoseTail(f, n) \/ GarbledStart(f, n) \/ GarbledAnswers(f, n)

Next == Machine \/ Users \/ Environment

\* Events, timers and answers of the users come sooner or later; nobody has to
\* click on anything and no link has to fail.
Spec == Init /\ [][Next]_vars /\ WF_vars(Machine)

-----------------------------------------------------------------------------
\* Statuses, contexts within the limit, and every job for a known file.
TypeOK ==
  /\ task \in [Files -> Status] /\ rtask \in [Files -> Status]
  /\ saved \subseteq Files /\ keyed \in BOOLEAN
  /\ DOMAIN send.ctx \subseteq Files /\ Cardinality(DOMAIN send.ctx) <= MaxActive
  /\ DOMAIN recv.mark \subseteq Files

\* finishReceive: a received file is reported complete only if it is the file
\* that was sent, whatever retries, second prompts and late chunks of an older
\* connection wrote into it.
ReceivedIsWhole == \A f \in Files : rtask[f] = "Completed" => recv.disk[f] = Whole

\* saveTransferState: the bookmark of a receive, kept over retries, second
\* prompts and restarts, never claims more than is on disk: except for a file
\* that was accepted under another path when there was a bookmark, and for one
\* whose last chunk QFile holds.
BookmarkIsBacked ==
  \A f \in DOMAIN recv.mark :
    recv.mark[f] <= Len(recv.disk[f]) \/ f \in recv.moved \/ LastChunk[f] = "small"

\* The same without exceptions: ipmsg_manager.cpp:3685 says of the bookmark that
\* it lets a retry "skip the bytes we already verified and committed".
BookmarkIsCommitted == \A f \in DOMAIN recv.mark : recv.mark[f] <= Len(recv.disk[f])

\* pumpTransferQueue: a job waits only while the slots are taken or a back-off
\* timer, which pumps, is running (unless its transfer was removed: RetryTimer).
NoIdleSlot ==
  send.queue # <<>> /\ Cardinality(DOMAIN send.ctx) < MaxActive
    => send.retry # <<>> \/ "removed" \in seen

\* m_pendingKeyJobs: a transfer that waits for a key has a job and a timer that
\* will connect it, and none waits once the session stands.
WaitsOnlyForKey ==
  \A f \in DOMAIN send.ctx :
    send.ctx[f].pending => ~keyed /\ f \in DOMAIN send.keyJobs /\ f \in send.keyTimers

Busy(f) == \/ f \in DOMAIN send.ctx
           \/ \E i \in DOMAIN send.queue : send.queue[i].file = f
           \/ Retrying(f)

\* A transfer comes to its end and frees its slot, unless a user paused,
\* dismissed or removed one, a source file was unreadable, one was to resume, or
\* a FILE_START or its answer was garbled, for which the sender has no time-out.
TransfersEnd == \A f \in Files : Busy(f) ~> (~Busy(f) \/ seen # {})

\* The same with resumed transfers: ipmsg_manager.cpp:3186 says a dropped
\* connection triggers the retry and the receiver resumes from the bookmark.
ResumedTransfersEnd == \A f \in Files : Busy(f) ~> (~Busy(f) \/ seen \ {"resume"} # {})
=============================================================================
