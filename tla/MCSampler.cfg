CONSTANTS
  Numerator = 1
  Denominator = 100
  NumRequests = 2
  Values <- MCValues
SPECIFICATION FairSpec
INVARIANT TypeOK
INVARIANT SamplerContract
PROPERTY SampledAnswered
