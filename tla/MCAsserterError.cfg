CONSTANTS
  Nil = Nil
  Asserters <- MCAsserters
  Errors <- MCErrors

SPECIFICATION Spec

INVARIANT TypeOK
INVARIANT ErrorAcceptsExactlyCatalogued
