SPECIFICATION FairSpec
CONSTANTS
  Producers = {p1, p2}
  Consumers = {c1, c2}
  Frames = {f1, f2}
  Capacity = 2
  NoReply = NoReply
INVARIANT Wakeups
PROPERTIES ImplementsChannel BlockedEnqueueReturns
