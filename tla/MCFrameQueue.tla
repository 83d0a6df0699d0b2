---------------------------- MODULE MCFrameQueue ----------------------------
\* FrameQueue on a small instance: two threads on each side, so that wake-ups
\* can go to either of two waiters, and two slots, so that the queue is neither
\* always full nor always empty.
EXTENDS FrameQueue
=============================================================================
