\* Two pipelined requests over every key kind, two api versions, a small
\* body and one that fills the length prefix exactly.
CONSTANTS
  ApiKeys <- MCApiKeys
  UnknownKeys = {"Key99"}
  Versions = {0, 1}
  Payloads = {"small", "large"}
  PayloadSize <- MCPayloadSize
  ClientIdLen = 4
  LengthBits = 16
  MaxRequests = 2
SPECIFICATION FairSpec
INVARIANT TypeOK
INVARIANT WellFramed
INVARIANT Transparent
INVARIANT ClosedOnlyOnUnknownKey
PROPERTY EveryRequestAnswered
