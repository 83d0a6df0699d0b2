--------------------------- MODULE BoundedChannel ---------------------------
(***************************************************************************)
(* What a FrameQueue promises to the threads that share it: a first-in     *)
(* first-out channel of at most Capacity frames.  A call takes effect in   *)
(* one step, and that step tells the caller the outcome.                   *)
(***************************************************************************)
EXTENDS Naturals, Sequences

CONSTANTS Threads, Frames, Capacity, NoReply

VARIABLES items,   \* the frames in the channel, oldest first
          reply    \* reply[t] is the outcome of t's last completed call

vars == <<items, reply>>

Answer(t, r) == reply' = [reply EXCEPT ![t] = r]

Init == items = <<>> /\ reply = [t \in Threads |-> NoReply]

Accept(t, f) == /\ Len(items) < Capacity
                /\ items' = Append(items, f)
                /\ Answer(t, [kind |-> "accepted"])

Refuse(t) == /\ Len(items) = Capacity
             /\ Answer(t, [kind |-> "refused"])
             /\ UNCHANGED items

Deliver(t) == /\ items # <<>>
              /\ items' = Tail(items)
              /\ Answer(t, [kind |-> "frame", frame |-> Head(items)])

\* A dequeue that gave up: a frame may have come in after its wait expired.
GiveUp(t) == Answer(t, [kind |-> "nothing"]) /\ UNCHANGED items

Flush(t) == items' = <<>> /\ Answer(t, [kind |-> "cleared"])

Next == \E t \in Threads :
          \/ \E f \in Frames : Accept(t, f)
          \/ Refuse(t)
          \/ Deliver(t)
          \/ GiveUp(t)
          \/ Flush(t)

Spec == Init /\ [][Next]_vars
=============================================================================
