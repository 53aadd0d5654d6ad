CONSTANTS
  Nil = Nil
  NotInteger = NotInteger
  MaxOps = 3
  DescriptionSets <- MCDescriptionSets
  OperationShapes <- UnparsedAmountOperations

SPECIFICATION Spec

INVARIANT MatchesCoverDescriptions
