--------------------------- MODULE FrameQueueProofs --------------------------
(***************************************************************************)
(* FrameQueue, for any finite sets of producers and consumers and any      *)
(* capacity: its type, its bound, the two absences of a lost wake-up, and  *)
(* that it implements BoundedChannel.                                      *)
(***************************************************************************)
EXTENDS FrameQueue, FiniteSetTheorems, TLAPS

Inv == TypeOK /\ CapacityBound

LEMMA WakeOneType ==
  ASSUME TypeOK, NEW S \in SUBSET Threads, NEW t \in Threads,
         NEW s \in {"idle", "blocked", "woken", "expired"}, WakeOne(S, t, s)
  PROVE  pc' \in [Threads -> {"idle", "blocked", "woken", "expired"}]
BY DEF WakeOne, Waiting, TypeOK

LEMMA PushInv ==
  ASSUME Inv, NEW p \in Producers, NEW f \in Frames, Push(p, f)
  PROVE  Inv'
<1>1. pc' \in [Threads -> {"idle", "blocked", "woken", "expired"}]
  BY WakeOneType DEF Push, Inv, Threads
<1>2. buf' \in Seq(Frames) /\ Len(buf') = Len(buf) + 1 /\ Len(buf) \in Nat
  BY DEF Push, Inv, TypeOK
<1>3. reply' \in [Threads -> Outcome]
  BY DEF Push, Answer, Inv, TypeOK, Outcome, Threads
<1>4. CapacityBound'
  BY <1>2, QueueAssumption DEF Push, Full, Inv, CapacityBound
<1>. QED
  BY <1>1, <1>2, <1>3, <1>4 DEF Push, Inv, TypeOK

LEMMA PopInv ==
  ASSUME Inv, NEW c \in Consumers, Pop(c)
  PROVE  Inv'
<1>1. pc' \in [Threads -> {"idle", "blocked", "woken", "expired"}]
  BY WakeOneType DEF Pop, Inv, Threads
<1>2. /\ buf' \in Seq(Frames) /\ Len(buf') = Len(buf) - 1
      /\ Len(buf) \in Nat /\ Head(buf) \in Frames
  BY DEF Pop, Inv, TypeOK
<1>3. reply' \in [Threads -> Outcome]
  BY <1>2 DEF Pop, Answer, Inv, TypeOK, Outcome, Threads
<1>4. CapacityBound'
  BY <1>2, QueueAssumption DEF Inv, CapacityBound
<1>. QED
  BY <1>1, <1>2, <1>3, <1>4 DEF Pop, Inv, TypeOK

LEMMA InvStep == Inv /\ [Next]_vars => Inv'
<1>. SUFFICES ASSUME Inv, [Next]_vars PROVE Inv'
  OBVIOUS
<1>. USE DEF Inv, TypeOK, CapacityBound, Threads
<1>1. ASSUME NEW p \in Producers, NEW f \in Frames, Enqueue(p, f)
      PROVE  Inv'
  BY <1>1, PushInv DEF Enqueue, Block
<1>2. ASSUME NEW p \in Producers, ResumeEnqueue(p) PROVE Inv'
  BY <1>2, PushInv DEF ResumeEnqueue, Block
<1>3. ASSUME NEW p \in Producers, NEW f \in Frames, EnqueueNonBlocking(p, f)
      PROVE  Inv'
  BY <1>3, PushInv DEF EnqueueNonBlocking, Answer, Outcome
<1>4. ASSUME NEW c \in Consumers, Dequeue(c) PROVE Inv'
  BY <1>4, PopInv DEF Dequeue, AwaitFrame
<1>5. ASSUME NEW c \in Consumers, ResumeDequeue(c) PROVE Inv'
  BY <1>5, PopInv DEF ResumeDequeue, AwaitFrame
<1>6. ASSUME NEW c \in Consumers, Expire(c) \/ ReturnEmpty(c) PROVE Inv'
  BY <1>6 DEF Expire, ReturnEmpty, Answer, Outcome
<1>7. ASSUME NEW t \in Threads, Clear(t) PROVE Inv'
  <2>1. buf' \in Seq(Frames) /\ Len(buf') = 0
    BY <1>7 DEF Clear
  <2>. QED
    BY <1>7, <2>1, QueueAssumption DEF Clear, Answer, Outcome
<1>8. CASE UNCHANGED vars
  BY <1>8 DEF vars
<1>. QED
  BY <1>1, <1>2, <1>3, <1>4, <1>5, <1>6, <1>7, <1>8 DEF Next

LEMMA InvInit == Init => Inv
<1>. SUFFICES ASSUME Init PROVE Inv
  OBVIOUS
<1>1. buf \in Seq(Frames) /\ Len(buf) = 0
  BY DEF Init
<1>. QED
  BY <1>1, QueueAssumption DEF Init, Inv, TypeOK, CapacityBound, Outcome

\* The type of the queue's state, and its bound: never more than m_maxSize
\* frames, for any number of threads that block, wake up and race.
THEOREM Bounded == Spec => [](TypeOK /\ CapacityBound)
BY InvInit, InvStep, PTL DEF Spec, Inv

-----------------------------------------------------------------------------
\* Every step of the queue is a step of the channel, or changes nothing that
\* the channel's users see.
LEMMA ChannelStep == Inv /\ [Next]_vars => [Channel!Next]_(Channel!vars)
<1>. SUFFICES ASSUME Inv, [Next]_vars PROVE [Channel!Next]_(Channel!vars)
  OBVIOUS
<1>. USE DEF Channel!Next, Channel!vars, Channel!Answer, Answer, Threads
<1>1. ASSUME NEW p \in Producers, NEW f \in Frames, Push(p, f)
      PROVE  Channel!Accept(p, f)
  <2>1. Len(buf) < Capacity
    BY <1>1, QueueAssumption DEF Push, Full, Inv, TypeOK
  <2>. QED
    BY <1>1, <2>1 DEF Push, Channel!Accept
<1>2. ASSUME NEW c \in Consumers, Pop(c) PROVE Channel!Deliver(c)
  BY <1>2 DEF Pop, Channel!Deliver
<1>3. ASSUME NEW p \in Producers, NEW f \in Frames, Enqueue(p, f)
      PROVE  [Channel!Next]_(Channel!vars)
  BY <1>1, <1>3 DEF Enqueue, Block
<1>4. ASSUME NEW p \in Producers, ResumeEnqueue(p)
      PROVE  [Channel!Next]_(Channel!vars)
  <2>1. arg[p] \in Frames
    BY DEF Inv, TypeOK
  <2>. QED
    BY <1>1, <1>4, <2>1 DEF ResumeEnqueue, Block
<1>5. ASSUME NEW p \in Producers, NEW f \in Frames, EnqueueNonBlocking(p, f)
      PROVE  [Channel!Next]_(Channel!vars)
  <2>1. CASE Push(p, f)
    BY <1>1, <2>1
  <2>2. CASE Full /\ Answer(p, [kind |-> "refused"]) /\ UNCHANGED buf
    <3>1. Len(buf) = Capacity
      BY <2>2, QueueAssumption DEF Full, Inv, TypeOK, CapacityBound
    <3>. QED
      BY <2>2, <3>1 DEF Channel!Refuse
  <2>. QED
    BY <1>5, <2>1, <2>2 DEF EnqueueNonBlocking
<1>6. ASSUME NEW c \in Consumers, Dequeue(c) \/ ResumeDequeue(c)
      PROVE  [Channel!Next]_(Channel!vars)
  BY <1>2, <1>6 DEF Dequeue, ResumeDequeue, AwaitFrame
<1>7. ASSUME NEW c \in Consumers, Expire(c) \/ ReturnEmpty(c)
      PROVE  [Channel!Next]_(Channel!vars)
  BY <1>7 DEF Expire, ReturnEmpty, Channel!GiveUp
<1>8. ASSUME NEW t \in Threads, Clear(t) PROVE [Channel!Next]_(Channel!vars)
  BY <1>8 DEF Clear, Channel!Flush
<1>9. CASE UNCHANGED vars
  BY <1>9 DEF vars
<1>. QED
  BY <1>3, <1>4, <1>5, <1>6, <1>7, <1>8, <1>9 DEF Next

LEMMA ChannelInit == Init => Channel!Init
BY DEF Init, Channel!Init

\* FrameQueue implements the bounded first-in first-out channel its users
\* rely on, whichever threads wait and in which order they wake up.
THEOREM Implementation == Spec => ImplementsChannel
<1>1. Spec => []Inv
  BY InvInit, InvStep, PTL DEF Spec
<1>. QED
  BY <1>1, ChannelInit, ChannelStep, PTL DEF Spec, ImplementsChannel, Channel!Spec

-----------------------------------------------------------------------------
\* The two absences of a lost wake-up.

LEMMA CardRemove ==
  ASSUME NEW S, IsFiniteSet(S), NEW x
  PROVE  Cardinality(S \ {x}) \in Nat /\ Cardinality(S \ {x}) >= Cardinality(S) - 1
<1>1. Cardinality(S) \in Nat
  BY FS_CardinalityType
<1>2. CASE x \in S
  <2>1. IsFiniteSet(S \ {x}) /\ Cardinality(S \ {x}) = Cardinality(S) - 1
    BY <1>2, FS_RemoveElement
  <2>2. Cardinality(S \ {x}) \in Nat
    BY <2>1, FS_CardinalityType
  <2>. QED
    BY <1>1, <2>1, <2>2
<1>3. CASE x \notin S
  <2>1. S \ {x} = S
    BY <1>3
  <2>. QED
    BY <1>1, <2>1
<1>. QED
  BY <1>2, <1>3

LEMMA AwakeFinite ==
  ASSUME TypeOK
  PROVE  /\ IsFiniteSet(Awake(Producers)) /\ Cardinality(Awake(Producers)) \in Nat
         /\ IsFiniteSet(Awake(Consumers)) /\ Cardinality(Awake(Consumers)) \in Nat
<1>1. IsFiniteSet(Awake(Producers)) /\ IsFiniteSet(Awake(Consumers))
  BY QueueAssumption, FS_Subset DEF Awake
<1>. QED
  BY <1>1, FS_CardinalityType

LEMMA PushWakeups ==
  ASSUME Inv, Wakeups, NEW p \in Producers, NEW f \in Frames,
         pc[p] \in {"idle", "woken"}, Push(p, f)
  PROVE  Wakeups'
<1>. DEFINE AP == Awake(Producers)  AC == Awake(Consumers)
<1>0. /\ Len(buf') = Len(buf) + 1 /\ Len(buf) \in Nat
      /\ Len(buf) < Capacity /\ Capacity \in Nat
  BY QueueAssumption DEF Push, Full, Inv, TypeOK
<1>1. IsFiniteSet(AP) /\ Cardinality(AP) \in Nat /\ IsFiniteSet(AC) /\ Cardinality(AC) \in Nat
  BY AwakeFinite DEF Inv
<1>2. Waiting(Producers)' = Waiting(Producers) /\ AP' = AP \ {p}
  BY QueueAssumption DEF Push, WakeOne, Inv, TypeOK, Waiting, Awake, Threads
<1>3. Cardinality(AP \ {p}) \in Nat /\ Cardinality(AP \ {p}) >= Cardinality(AP) - 1
  BY <1>1, CardRemove
<1>4. NoLostNotFull'
  BY <1>0, <1>1, <1>2, <1>3 DEF Wakeups, NoLostNotFull
<1>5. NoLostNotEmpty'
  <2>1. CASE Waiting(Consumers) = {}
    <3>1. Waiting(Consumers)' = {}
      BY <2>1, QueueAssumption DEF Push, WakeOne, Inv, TypeOK, Waiting, Threads
    <3>. QED
      BY <3>1 DEF NoLostNotEmpty
  <2>2. CASE Waiting(Consumers) # {}
    <3>1. PICK w \in Waiting(Consumers) : pc' = [pc EXCEPT ![p] = "idle", ![w] = "woken"]
      BY <2>2 DEF Push, WakeOne
    <3>2. w \notin AC /\ AC' = AC \cup {w}
      BY <3>1, QueueAssumption DEF Inv, TypeOK, Waiting, Awake, Threads
    <3>3. Cardinality(AC') = Cardinality(AC) + 1
      BY <1>1, <3>2, FS_AddElement
    <3>. QED
      BY <1>0, <1>1, <2>2, <3>3 DEF Wakeups, NoLostNotEmpty
  <2>. QED
    BY <2>1, <2>2
<1>. QED
  BY <1>4, <1>5 DEF Wakeups

LEMMA PopWakeups ==
  ASSUME Inv, Wakeups, NEW c \in Consumers, pc[c] \in {"idle", "woken"}, Pop(c)
  PROVE  Wakeups'
<1>. DEFINE AP == Awake(Producers)  AC == Awake(Consumers)
<1>0. /\ Len(buf') = Len(buf) - 1 /\ Len(buf) \in Nat /\ Len(buf) >= 1
      /\ Capacity \in Nat
  BY QueueAssumption DEF Pop, Inv, TypeOK
<1>1. IsFiniteSet(AP) /\ Cardinality(AP) \in Nat /\ IsFiniteSet(AC) /\ Cardinality(AC) \in Nat
  BY AwakeFinite DEF Inv
<1>2. Waiting(Consumers)' = Waiting(Consumers) /\ AC' = AC \ {c}
  BY QueueAssumption DEF Pop, WakeOne, Inv, TypeOK, Waiting, Awake, Threads
<1>3. Cardinality(AC \ {c}) \in Nat /\ Cardinality(AC \ {c}) >= Cardinality(AC) - 1
  BY <1>1, CardRemove
<1>4. NoLostNotEmpty'
  BY <1>0, <1>1, <1>2, <1>3 DEF Wakeups, NoLostNotEmpty
<1>5. NoLostNotFull'
  <2>1. CASE Waiting(Producers) = {}
    <3>1. Waiting(Producers)' = {}
      BY <2>1, QueueAssumption DEF Pop, WakeOne, Inv, TypeOK, Waiting, Threads
    <3>. QED
      BY <3>1 DEF NoLostNotFull
  <2>2. CASE Waiting(Producers) # {}
    <3>1. PICK w \in Waiting(Producers) : pc' = [pc EXCEPT ![c] = "idle", ![w] = "woken"]
      BY <2>2 DEF Pop, WakeOne
    <3>2. w \notin AP /\ AP' = AP \cup {w}
      BY <3>1, QueueAssumption DEF Inv, TypeOK, Waiting, Awake, Threads
    <3>3. Cardinality(AP') = Cardinality(AP) + 1
      BY <1>1, <3>2, FS_AddElement
    <3>. QED
      BY <1>0, <1>1, <2>2, <3>3 DEF Wakeups, NoLostNotFull
  <2>. QED
    BY <2>1, <2>2
<1>. QED
  BY <1>4, <1>5 DEF Wakeups

LEMMA BlockWakeups ==
  ASSUME Inv, Wakeups, NEW p \in Producers, NEW f \in Frames, Block(p, f)
  PROVE  Wakeups'
<1>1. Waiting(Consumers)' = Waiting(Consumers) /\ Awake(Consumers)' = Awake(Consumers)
  BY QueueAssumption DEF Block, Inv, TypeOK, Waiting, Awake, Threads
<1>2. Len(buf)' >= Capacity /\ Len(buf)' \in Nat /\ Capacity \in Nat
  BY QueueAssumption DEF Block, Full, Inv, TypeOK
<1>3. Cardinality(Awake(Producers))' \in Nat
  <2>1. TypeOK'
    BY DEF Block, Inv, TypeOK, Threads
  <2>. QED
    BY <2>1, QueueAssumption, FS_Subset, FS_CardinalityType DEF Awake
<1>. QED
  BY <1>1, <1>2, <1>3 DEF Block, Wakeups, NoLostNotFull, NoLostNotEmpty

LEMMA AwaitWakeups ==
  ASSUME Inv, Wakeups, NEW c \in Consumers, AwaitFrame(c)
  PROVE  Wakeups'
<1>1. Waiting(Producers)' = Waiting(Producers) /\ Awake(Producers)' = Awake(Producers)
  BY QueueAssumption DEF AwaitFrame, Inv, TypeOK, Waiting, Awake, Threads
<1>2. Len(buf') = 0 /\ buf' = buf
  BY DEF AwaitFrame
<1>3. Cardinality(Awake(Consumers))' \in Nat
  BY QueueAssumption, FS_Subset, FS_CardinalityType DEF Awake
<1>. QED
  BY <1>1, <1>2, <1>3 DEF Wakeups, NoLostNotFull, NoLostNotEmpty

LEMMA WakeupsStep == Inv /\ Wakeups /\ [Next]_vars => Wakeups'
<1>. SUFFICES ASSUME Inv, Wakeups, [Next]_vars PROVE Wakeups'
  OBVIOUS
<1>0. \A p \in Producers : arg[p] \in Frames
  BY DEF Inv, TypeOK
<1>1. ASSUME NEW p \in Producers, NEW f \in Frames,
             pc[p] \in {"idle", "woken"}, Push(p, f) \/ Block(p, f)
      PROVE  Wakeups'
  BY <1>1, PushWakeups, BlockWakeups
<1>2. ASSUME NEW p \in Producers, NEW f \in Frames, Enqueue(p, f) PROVE Wakeups'
  BY <1>1, <1>2 DEF Enqueue
<1>3. ASSUME NEW p \in Producers, ResumeEnqueue(p) PROVE Wakeups'
  BY <1>0, <1>1, <1>3 DEF ResumeEnqueue
<1>4. ASSUME NEW p \in Producers, NEW f \in Frames, EnqueueNonBlocking(p, f)
      PROVE  Wakeups'
  <2>1. CASE UNCHANGED <<buf, pc, arg>>
    BY <2>1 DEF Wakeups, NoLostNotFull, NoLostNotEmpty, Waiting, Awake
  <2>. QED
    BY <1>1, <1>4, <2>1 DEF EnqueueNonBlocking
<1>5. ASSUME NEW c \in Consumers, Dequeue(c) \/ ResumeDequeue(c) PROVE Wakeups'
  BY <1>5, PopWakeups, AwaitWakeups DEF Dequeue, ResumeDequeue
<1>6. ASSUME NEW c \in Consumers, Expire(c) \/ ReturnEmpty(c) PROVE Wakeups'
  <2>1. /\ Waiting(Producers)' = Waiting(Producers) /\ Awake(Producers)' = Awake(Producers)
        /\ Waiting(Consumers)' \subseteq Waiting(Consumers)
        /\ Awake(Consumers)' = Awake(Consumers) /\ buf' = buf
    BY <1>6, QueueAssumption
       DEF Expire, ReturnEmpty, Inv, TypeOK, Waiting, Awake, Threads
  <2>. QED
    BY <2>1 DEF Wakeups, NoLostNotFull, NoLostNotEmpty
<1>7. ASSUME NEW t \in Threads, Clear(t) PROVE Wakeups'
  <2>1. Waiting(Producers)' = {} /\ Len(buf)' = 0
    BY <1>7 DEF Clear, Waiting, Threads
  <2>2. Cardinality(Awake(Consumers))' \in Nat
    BY QueueAssumption, FS_Subset, FS_CardinalityType DEF Awake
  <2>. QED
    BY <2>1, <2>2 DEF Wakeups, NoLostNotFull, NoLostNotEmpty
<1>8. CASE UNCHANGED vars
  BY <1>8 DEF vars, Wakeups, NoLostNotFull, NoLostNotEmpty, Waiting, Awake
<1>. QED
  BY <1>2, <1>3, <1>4, <1>5, <1>6, <1>7, <1>8 DEF Next

LEMMA WakeupsInit == Init => Wakeups
BY DEF Init, Wakeups, NoLostNotFull, NoLostNotEmpty, Waiting, Threads

\* No wake-up of m_notFull or m_notEmpty is lost: a producer never sleeps
\* beside a free slot nobody is coming for, nor a consumer beside a frame.
THEOREM NoLostWakeup == Spec => []Wakeups
<1>1. Init => Inv /\ Wakeups
  BY InvInit, WakeupsInit
<1>2. Inv /\ Wakeups /\ [Next]_vars => (Inv /\ Wakeups)'
  BY InvStep, WakeupsStep
<1>. QED
  BY <1>1, <1>2, PTL DEF Spec
=============================================================================
