CONSTANTS
  Nil = Nil
  NotInteger = NotInteger
  MaxOps = 3
  DescriptionSets <- MCDescriptionSets
  OperationShapes <- ValidOperations

SPECIFICATION Spec

INVARIANT TypeOK
INVARIANT MatchesCoverDescriptions
INVARIANT GroupConstraintsHold
INVARIANT MatchIsGreedyFirstFit
