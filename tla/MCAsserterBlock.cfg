CONSTANTS
  Nil = Nil
  EmptyValue = EmptyValue
  NotInteger = NotInteger
  MaxOps = 2
  MaxTxs = 2
  MinUnixEpoch = 1
  MaxUnixEpoch = 3
  GenesisIndexes = {Nil, 1, 2}
  StartIndexes = {1, 2}
  Directions = {"forward", "backward"}
  OperationTypes <- MCOperationTypes
  OperationStatuses <- MCOperationStatuses
  OperationShapes <- MCOperationShapes
  Profiles <- MCProfiles
  Blocks <- MCBlocks
  Transactions <- MCTransactions

SPECIFICATION Spec

INVARIANT TypeOK
INVARIANT BlockAcceptsExactlyValid
