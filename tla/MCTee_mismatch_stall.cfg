\* SubchainOnMismatch with timeout_micros set and a mismatch sink that may err
\* or hang: is mismatch handling observational, as spec 4.4 says?
CONSTANTS
  Behaviors = {"SubchainOnMismatch"}
  Timeout = TRUE
  BufferSize = 1
  NumBatches = 2
  Values <- MCValues
SPECIFICATION MismatchStallSpec
PROPERTY SubchainObservational
