CONSTANTS
  f1 = f1
  t1 = t1
  Forwarders <- MCForwarders
  Tees <- MCTees
  Capacity = 5
  MaxNonePolls = 2
  MaxSends = 2
SPECIFICATION Spec
INVARIANT LoopEndsOnNone
CHECK_DEADLOCK FALSE
