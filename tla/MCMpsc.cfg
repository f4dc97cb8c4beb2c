CONSTANTS
  f1 = f1
  t1 = t1
  Forwarders <- MCForwarders
  Tees <- MCTees
  Capacity = 5
  MaxSends = 3
  MaxNonePolls = 2
SPECIFICATION FairSpec
INVARIANT TypeOK
PROPERTY TeeReachesNext
CHECK_DEADLOCK FALSE
