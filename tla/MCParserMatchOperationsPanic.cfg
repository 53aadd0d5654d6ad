CONSTANTS
  Nil = Nil
  NotInteger = NotInteger
  MaxOps = 3
  DescriptionSets <- PanicDescriptionSets
  OperationShapes <- NullMetadataOperations

SPECIFICATION Spec

INVARIANT MatchNeverPanics
