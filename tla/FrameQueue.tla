----------------------------- MODULE FrameQueue -----------------------------
(***************************************************************************)
(* core/frame_queue.h: the bounded queue between the capture, encode,      *)
(* network and decode threads.  One mutex guards it and two wait           *)
(* conditions, m_notFull and m_notEmpty, hold the threads that wait.       *)
(*                                                                         *)
(* A step of the model is one critical section.  A thread that waits has   *)
(* released the mutex; "woken" and "expired" are the windows in which its  *)
(* wait has ended and it has not got the mutex back, so that every other   *)
(* thread may run first.  m_shutdown is left out: no code sets it.         *)
(***************************************************************************)
EXTENDS Naturals, Sequences, FiniteSets

CONSTANTS Producers,  \* threads that call enqueue or enqueueNonBlocking
          Consumers,  \* threads that call dequeue
          Frames,     \* frame values
          Capacity,   \* m_maxSize
          NoReply     \* a thread that has completed no call yet

ASSUME QueueAssumption ==
  /\ Capacity \in Nat \ {0}
  /\ IsFiniteSet(Producers)
  /\ IsFiniteSet(Consumers)
  /\ Producers \cap Consumers = {}

Threads == Producers \cup Consumers

VARIABLES buf,    \* m_queue, oldest frame first
          pc,     \* where each thread is in its call
          arg,    \* the frame a blocked enqueue carries
          reply   \* the outcome of each thread's last completed call

vars == <<buf, pc, arg, reply>>

Waiting(S) == {t \in S : pc[t] = "blocked"}
Awake(S) == {t \in S : pc[t] = "woken"}

Outcome == [kind : {"accepted", "refused", "nothing", "cleared"}]
             \cup [kind : {"frame"}, frame : Frames] \cup {NoReply}

Full == Len(buf) >= Capacity

TypeOK ==
  /\ buf \in Seq(Frames)
  /\ pc \in [Threads -> {"idle", "blocked", "woken", "expired"}]
  /\ arg \in [Producers -> Frames]
  /\ reply \in [Threads -> Outcome]

Init ==
  /\ buf = <<>>
  /\ pc = [t \in Threads |-> "idle"]
  /\ arg \in [Producers -> Frames]
  /\ reply = [t \in Threads |-> NoReply]

-----------------------------------------------------------------------------
\* QWaitCondition::wakeOne on the condition that the threads in S wait on,
\* after thread t went to state s.
WakeOne(S, t, s) ==
  IF Waiting(S) = {}
  THEN pc' = [pc EXCEPT ![t] = s]
  ELSE \E w \in Waiting(S) : pc' = [pc EXCEPT ![t] = s, ![w] = "woken"]

Answer(t, r) == reply' = [reply EXCEPT ![t] = r]

\* Mutant: the frame goes in and no consumer hears of it.
PushSilently(p, f) ==
  /\ ~Full
  /\ buf' = Append(buf, f)
  /\ pc' = [pc EXCEPT ![p] = "idle"]
  /\ Answer(p, [kind |-> "accepted"])
  /\ UNCHANGED arg

\* m_queue.push, m_notEmpty.wakeOne and the return of p's call.
Push(p, f) ==
  /\ ~Full
  /\ buf' = Append(buf, f)
  /\ WakeOne(Consumers, p, "idle")
  /\ Answer(p, [kind |-> "accepted"])
  /\ UNCHANGED arg

\* m_notFull.wait: releases the mutex with the frame still in hand.
Block(p, f) ==
  /\ Full
  /\ pc' = [pc EXCEPT ![p] = "blocked"]
  /\ arg' = [arg EXCEPT ![p] = f]
  /\ UNCHANGED <<buf, reply>>

Enqueue(p, f) == pc[p] = "idle" /\ (Push(p, f) \/ Block(p, f))

\* Mutant: enqueue tests the size once (if, not while).
ResumeEnqueueUnchecked(p) ==
  /\ pc[p] = "woken"
  /\ buf' = Append(buf, arg[p])
  /\ WakeOne(Consumers, p, "idle")
  /\ Answer(p, [kind |-> "accepted"])
  /\ UNCHANGED arg

\* The while loop of enqueue tests the size again after the wait.
ResumeEnqueue(p) == pc[p] = "woken" /\ (Push(p, arg[p]) \/ Block(p, arg[p]))

EnqueueNonBlocking(p, f) ==
  /\ pc[p] = "idle"
  /\ \/ Push(p, f)
     \/ /\ Full
        /\ Answer(p, [kind |-> "refused"])
        /\ UNCHANGED <<buf, pc, arg>>

\* Mutants: the frame leaves without a wake-up for a blocked enqueue; the
\* newest frame leaves first.
PopSilently(c) ==
  /\ buf # <<>>
  /\ buf' = Tail(buf)
  /\ pc' = [pc EXCEPT ![c] = "idle"]
  /\ Answer(c, [kind |-> "frame", frame |-> Head(buf)])
  /\ UNCHANGED arg

PopNewest(c) ==
  /\ buf # <<>>
  /\ buf' = SubSeq(buf, 1, Len(buf) - 1)
  /\ WakeOne(Producers, c, "idle")
  /\ Answer(c, [kind |-> "frame", frame |-> buf[Len(buf)]])
  /\ UNCHANGED arg

\* m_queue.front, pop, m_notFull.wakeOne and the return of c's call.
Pop(c) ==
  /\ buf # <<>>
  /\ buf' = Tail(buf)
  /\ WakeOne(Producers, c, "idle")
  /\ Answer(c, [kind |-> "frame", frame |-> Head(buf)])
  /\ UNCHANGED arg

AwaitFrame(c) ==
  /\ buf = <<>>
  /\ pc' = [pc EXCEPT ![c] = "blocked"]
  /\ UNCHANGED <<buf, arg, reply>>

Dequeue(c) == pc[c] = "idle" /\ (Pop(c) \/ AwaitFrame(c))

ResumeDequeue(c) == pc[c] = "woken" /\ (Pop(c) \/ AwaitFrame(c))

\* The timeout of m_notEmpty.wait runs out.
Expire(c) ==
  /\ pc[c] = "blocked"
  /\ pc' = [pc EXCEPT ![c] = "expired"]
  /\ UNCHANGED <<buf, arg, reply>>

\* The expired wait has the mutex back; dequeue returns T() without another
\* look at the queue.
ReturnEmpty(c) ==
  /\ pc[c] = "expired"
  /\ pc' = [pc EXCEPT ![c] = "idle"]
  /\ Answer(c, [kind |-> "nothing"])
  /\ UNCHANGED <<buf, arg>>

\* clear: drops every frame and wakes every blocked enqueue.
Clear(t) ==
  /\ pc[t] = "idle"
  /\ buf' = <<>>
  /\ pc' = [u \in Threads |-> IF u \in Waiting(Producers) THEN "woken" ELSE pc[u]]
  /\ Answer(t, [kind |-> "cleared"])
  /\ UNCHANGED arg

Next ==
  \/ \E p \in Producers :
       \/ \E f \in Frames : Enqueue(p, f) \/ EnqueueNonBlocking(p, f)
       \/ ResumeEnqueue(p)
  \/ \E c \in Consumers :
       Dequeue(c) \/ ResumeDequeue(c) \/ Expire(c) \/ ReturnEmpty(c)
  \/ \E t \in Threads : Clear(t)

Spec == Init /\ [][Next]_vars

\* The consumers are loops that call dequeue again and again (processFrames,
\* drainQueue, the decode worker), and a woken thread gets the mutex in the end.
Fairness ==
  /\ \A p \in Producers : WF_vars(ResumeEnqueue(p))
  /\ \A c \in Consumers : WF_vars(Dequeue(c) \/ ResumeDequeue(c) \/ ReturnEmpty(c))

FairSpec == Spec /\ Fairness

-----------------------------------------------------------------------------
\* The queue never holds more than m_maxSize frames, whatever the order in
\* which woken and new producers get the mutex (frame_queue.h, enqueue and
\* enqueueNonBlocking).
CapacityBound == Len(buf) <= Capacity

\* A blocked enqueue is never forgotten: while a producer waits, the queue is
\* full, or each free slot has a woken producer on its way to it.
NoLostNotFull ==
  Waiting(Producers) # {} =>
    Len(buf) + Cardinality(Awake(Producers)) >= Capacity

\* A dequeue never sleeps next to a frame: while a consumer waits, there is a
\* woken consumer for every frame in the queue.
NoLostNotEmpty ==
  Waiting(Consumers) # {} => Cardinality(Awake(Consumers)) >= Len(buf)

\* No wake-up is lost on either side, whoever overtakes whom and whose wait runs
\* out when a frame arrives (frame_queue.h:73, 85).
Wakeups == NoLostNotFull /\ NoLostNotEmpty

\* The queue implements the channel its users rely on: each call takes effect
\* in one step, frames come out in the order in which they were accepted, and
\* a frame is refused only by a full queue.
Channel == INSTANCE BoundedChannel WITH items <- buf
ImplementsChannel == Channel!Spec

\* With consumers that keep calling dequeue, producers are never all stuck in
\* enqueue: one of them returns.  (Which one is the mutex's choice.)
BlockedEnqueueReturns ==
  (\A p \in Producers : pc[p] = "blocked") ~> (\E p \in Producers : pc[p] = "idle")
=============================================================================
