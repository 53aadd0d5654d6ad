CONSTANTS
  Nil = Nil
  NotInteger = NotInteger
  MaxOps = 3
  DescriptionSets <- MCDescriptionSets
  OperationShapes <- EmptyAddressOperations

SPECIFICATION Spec

INVARIANT GroupConstraintsHold
