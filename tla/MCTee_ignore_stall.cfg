\* Ignore with the default timeout_micros = None and a tx sink that may err or
\* hang: is the main path untouched and every side error counted (spec 8.3)?
CONSTANTS
  Behaviors = {"Ignore"}
  Timeout = FALSE
  BufferSize = 1
  NumBatches = 3
  Values <- MCValues
SPECIFICATION SideStallSpec
PROPERTY IgnoreNonInterference
