\* Every batch of up to two requests against every bounded reply.
CONSTANTS
  NewPort <- MCNewPort
  MaxBatch = 2
SPECIFICATION Spec
INVARIANT TypeOK
INVARIANT RewriteCorrect
INVARIANT OthersUntouched
