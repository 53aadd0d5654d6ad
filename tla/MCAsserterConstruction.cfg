CONSTANTS
  Nil = Nil
  EmptyValue = EmptyValue
  NotInteger = NotInteger
  MaxOps = 2
  MaxElems = 2
  CurveTypes = {"secp256k1", "edwards25519"}
  SignatureTypes = {"ecdsa", "ed25519"}
  OperationTypes <- MCOperationTypes
  OperationStatuses <- MCOperationStatuses
  OperationShapes <- MCOperationShapes
  Profiles <- MCProfiles
  Responses <- MCResponses
  Elements <- MCElements

SPECIFICATION Spec

INVARIANT TypeOK
INVARIANT ConstructionAcceptsExactlyValid
