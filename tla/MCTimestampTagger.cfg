\* Every batch of up to two commands, transactions of up to two commands.
CONSTANTS
  Commands <- MCCommands
  Keyed <- MCKeyed
  MaxBatch = 2
  MaxQueued = 2
SPECIFICATION Spec
INVARIANT TypeOK
 
