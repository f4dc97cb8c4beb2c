\* Every ConsistencyBehavior with timeout_micros set: side replies may arrive
\* after the join has given up on them, and the tx sink may hang forever.
\* A run with a timeout contains every run without one (the timer need not
\* fire), so the safety properties cover timeout_micros = None too.
CONSTANTS
  Behaviors <- MCBehaviors
  Timeout = TRUE
  BufferSize = 1
  NumBatches = 3
  Values <- MCValues
SPECIFICATION SideStallSpec
INVARIANT TypeOK
INVARIANT DropAccounting
INVARIANT FailOnMismatchDetection
INVARIANT MismatchForwarding
PROPERTY Progress
