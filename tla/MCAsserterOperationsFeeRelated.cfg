CONSTANTS
  Nil = Nil
  EmptyValue = EmptyValue
  NotInteger = NotInteger
  MaxOps = 1
  OperationTypes <- MCOperationTypes
  OperationStatuses <- MCOperationStatuses
  OperationShapes <- EmptyRelatedFeeShapes
  Profiles <- MCProfiles

SPECIFICATION Spec


INVARIANT OperationsAcceptsExactlyValid
