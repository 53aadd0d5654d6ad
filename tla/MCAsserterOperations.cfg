CONSTANTS
  Nil = Nil
  EmptyValue = EmptyValue
  NotInteger = NotInteger
  MaxOps = 3
  OperationTypes <- MCOperationTypes
  OperationStatuses <- MCOperationStatuses
  OperationShapes <- MCOperationShapes
  Profiles <- MCProfiles

SPECIFICATION Spec

INVARIANT TypeOK
INVARIANT OperationsAcceptsExactlyValid
