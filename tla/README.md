# TLA+ models of mesh-sdk-go's asserter and operation parser

This directory holds TLA+ models of the validation code of
`github.com/dominant-strategies/mesh-sdk-go` (the sources under `src/`),
the TLC configurations that check them, and `PROJECT.json`, which maps
every model definition to the Go lines it translates and lists the runs,
mutants, findings and hazards.

## The system

The library is pure, synchronous Go. No function starts a goroutine,
takes a lock, does I/O or keeps state between calls other than the
`Asserter`'s configuration, which is fixed at construction. What is hard
about this code is therefore not interleaving but *control*:

- long chains of early returns;
- running totals and flags carried across a loop and judged after it;
- greedy matching whose outcome depends on the order of its input;
- nil pointers that one validator lets through and the next dereferences.

| Part | Source | State it works on | Operations |
|---|---|---|---|
| Operations validator | `asserter/block.go` 34-440 | the operations slice, the `construction` flag, the `Asserter`'s `validations` profile and `ignoreRosettaSpecValidation`; locals `paymentTotal`, `feeTotal`, `paymentCount`, `feeCount`, `relatedOpsExists` | `Operations` loops over `Operation` (which calls `OperationIdentifier`, `OperationType`, `OperationStatus`, `AccountIdentifier`, `Amount`, `Currency`, `CoinChange`), then the payment/fee rules, then the related-operation rules, then `ValidatePaymentAndFee` |
| Block validator | `asserter/block.go` 264-314, 442-626 | a block, its transactions and related transactions; the `Asserter`'s genesis block and timestamp start index | `Block` calls `BlockIdentifier` twice, runs the genesis-dependent hash/index checks and the `Timestamp` window check, then `Transaction` for each transaction. `Transaction` runs `TransactionIdentifier`, then `Operations(…, false)`, then `RelatedTransactions` (`DuplicateRelatedTransaction`, `Direction`) |
| Error catalog check | `asserter/error.go` | the `Asserter`'s `errorTypeMap` | `Asserter.Error` |
| Construction validators | `asserter/construction.go` | request and response records | `ConstructionParseResponse` calls `Operations(…, true)`; the other validators check field presence and enum membership |
| Operation matcher | `parser/match_operations.go` | `Descriptions`, the operations slice, `matches []*Match` | `MatchOperations` runs `operationMatch` per operation (which calls `accountMatch`, `amountMatch`, `metadataMatch` and `coinActionMatch`), then the required-description check, then `comparisonMatch` (`checkOps` with `equalAmounts`/`equalAddresses`, and `compareOppositeMatches` with `oppositeAmounts`/`oppositeOrZeroAmounts`) |
| Types, mocks | `types/`, `mocks/` | generated records and testify mocks | none |

How the parts interact:

- `Block` → `Transaction` → `Operations` in non-construction mode.
- `ConstructionParseResponse` → `Operations` in construction mode.
- The parser's `MatchOperations` is run by callers on operations that the
  asserter has already accepted. Its runs therefore draw their inputs
  from operations with integer amounts and non-empty addresses. These
  include a transfer with no account and one with no amount, which the
  matcher must handle too. The runs that look for a fault add one
  malformed input.

## Modules

### `AsserterOperations` (the Operations validator)

- **Constants.** The configured operation types and statuses, and the set
  `Profiles` of `validations` configurations. Each profile has
  `Enabled`, `RelatedOpsExists`, `ChainType`, and for payment and fee a
  `Name`, a `Count` and a `ShouldBalance`. There is also the set
  `OperationShapes` of operations the caller may pass, and `MaxOps`.
- **State.** The inputs (`validations`, `ignoreSpec`, `construction`,
  `len`) are chosen in `Init`, with `len \in 0..MaxOps`. The operations
  seen so far (`ops`), the loop's locals (`paymentTotal`, `feeTotal`,
  `paymentCount`, `feeCount`, `relatedOpsExists`), a program counter and
  the `result` are variables.
- **Input is revealed lazily.** Each loop iteration picks the next
  operation from `OperationShapes`. This keeps the state space to the
  prefixes the loop actually reads.
- **Actions.** `Start` is the empty-construction check (lines 322-324).
  `OperationsLoop` is one iteration of the `for` loop (331-399):
  `Operation`, the payment and fee branches, then the related-operation
  ordering and duplicate checks. The first error ends the call through
  `Return`. `EndOfOperations` is lines 400-412, including
  `ValidatePaymentAndFee`.
- **Helpers.** The per-field validators are pure operators. Each is a
  `CASE` in the order of its early returns, returning `OK` or the
  sentinel error's name. `FirstError` picks the first failing check of a
  chain.
- **Modelling of Go behaviour.** A nil dereference is the result
  `"panic"`. Values that are not integers are the model values
  `EmptyValue` and `NotInteger`.
- **Not in `src/`.** `CoinChange` (a sibling file of the package that is
  not in this snapshot) is modelled from the specification.
- **Reference.** `AcceptableOperations(s)` is a whole-slice, declarative
  statement of which slices §4.1 of the specification accepts.

### `ParserMatchOperations` (the operation matcher)

- **Constants.** `DescriptionSets` (the `Descriptions` the caller may
  pass), `OperationShapes` and `MaxOps`.
- **State.** `descriptions`, `len`, `ops`, `matches`, a program counter
  and `result`.
- **How `matches` is represented.** `matches[d]` is `Nil` or a record of
  the 0-based positions of the matched operations and their parsed
  amounts, just like `[]*Match`.
- **`operationMatch(op, pos, m)`** is the greedy first-fit loop of
  lines 347-401, with the outcome of each description computed by
  `DescriptionOutcome` (352-387). It keeps the code's order:
  1. the already-matched skip;
  2. the type, account, amount, metadata and coin-action matchers;
  3. creating the empty `Match`;
  4. parsing the amount (and `continue` on failure);
  5. the append.
- **Actions.**
  - `Start`: the two empty-input errors.
  - `MatchOperation`: one iteration of the matching loop.
  - `RequireMatches`: 726-735.
  - `CompareMatches`: `comparisonMatch`.
- **Group constraints.** `checkOps` and `compareOppositeMatches` keep
  their validity checks, and the `len != 2` check, in the code's order.
  `equalAddresses` is a fold with the code's `base` variable, and
  `compareOppositeMatches` compares only the first operation of each
  group, as the code does.
- **Modelling of Go behaviour.** A nil `reflect.Type` (metadata value
  `Nil`) is a panic, and so is a negative group index in
  `matchIndexValid` (Go panics on `matches[-1]`).

### `AsserterBlock` (Block and Transaction)

- **Composition.** `Ops == INSTANCE AsserterOperations WITH len <- opsLen,
  ops <- txOps, pc <- opsPc, result <- opsResult`. Each transaction runs
  a fresh copy of the Operations loop (`ResetOperations`, lines 326-330,
  the locals of a new call) in non-construction mode. `OperationsStep`
  is one step of that inner loop.
- **State.** The asserter's `genesisIndex` and `timestampStartIndex`;
  the `block` (chosen in `Init`); `numTxs`; `txs`, the transactions
  revealed so far, each with the operations its Operations call read; a
  program counter `bpc` and `result`.
- **Actions.** `Start` is lines 571-617: `BlockHeader` with both
  identifiers, the genesis exemption `MonotonicityApplies` (599-601), the
  hash and index checks and the `Timestamp` window behind the
  `timestampStartIndex` gate. `StartTransaction` is 445-463,
  `EndTransaction` 471-481 with `RelatedTransactions` (483-528, after
  `DuplicateRelatedTransaction`), and `EndOfBlock` 619-626.
- **Epochs.** `MinUnixEpoch` and `MaxUnixEpoch` are constants set to 1
  and 3. The real values exceed TLC's integers, and only the order of the
  two bounds and the timestamp matters.
- **Not in `src/`.** `NetworkIdentifier` is modelled from the
  specification, as a flag `valid`.

### `AsserterConstruction` (construction.go)

- **One behaviour is one call** of one validator, named by `call`. The
  scalar fields of its response are chosen in `Init` from
  `Responses[call]`.
- **Lists are revealed lazily.** The list a validator loops over has
  length `n`, and its elements are revealed one per `LoopElement` step.
  These are the required public keys, the signers, the payloads and the
  signatures.
- **Operators per function.** Each function without a loop is one
  operator: `ConstructionMetadataResponse`,
  `TransactionIdentifierResponse`, `ConstructionCombineResponse`,
  `ConstructionDeriveResponse`, `PublicKey`, `SigningPayload`,
  `CurveType` and `SignatureType`. The checks before each loop
  (`…Start`) and the body of the `Signatures` loop (`Signature`) are
  operators too.
- **Parse composes Operations.** `ConstructionParseResponse` runs the
  `AsserterOperations` loop with `construction = TRUE`, then
  `AfterOperations` (the signed/signers rules, 155-162), the signer loop
  and `AccountArray`.
- **Bytes** are `"empty"`, `"zero"` (all zero bytes, `BytesArrayZero`) or
  `"data"`.
- **Not in `src/`.** `AssertUniqueAmounts` and `AccountArray` are
  modelled from the specification.

### `AsserterError` (error.go)

- **The call.** `Asserter.Error` is one action, `Call`, whose result is
  `AsserterErrorCheck`: the nil receiver, the structural `Error` (from the
  specification), the lenient skip (line 36), then the strict lookup of
  the code, the message and the retriable flag.
- **The receiver.** `errorTypeMap` is a function from codes to
  `[message, retriable]` records.

### MC modules

- **`MCAsserterOperations`** has three operation types (`PAYMENT`, `FEE`,
  `OTHER`) and one status. Its operations are a small set of good ones
  (every type, amounts -1/1, related lists `Nil`, `<<>>`, `<<0>>`,
  `<<0,0>>`, `<<1,0>>`, every index 0..2) plus one fault per validator
  branch. It has four profiles:
  - validations disabled;
  - account chain with balancing payments and one fee;
  - account chain with 2 payments, balancing fees and related operations
    required;
  - UTXO chain.
- **`MCParserMatchOperations`** has four `Descriptions` scenarios:
  - *Transfer*: opposite amounts, repeats, `ErrUnmatched`;
  - *FeeAndPayment*: optional descriptions, sub-account, equal amounts,
    equal addresses, opposite-or-zero;
  - *SubAccountAndCoin*: sub-account exists, metadata kinds, coin action;
  - *BadGroups*: groups naming an optional or out-of-range description,
    and a pair of length 3.

  Its operations have two accounts, values -2..1, two currencies, amount
  or account nil, sub-accounts, metadata kinds and coin changes.

- **`MCAsserterBlock`** has:
  - blocks with every identifier fault;
  - parents with an equal or a smaller index and an equal or a different
    hash;
  - timestamps on both sides of both window ends;
  - genesis indexes that are unset, equal to and different from the
    block's;
  - timestamp start indexes below and above the block's;
  - up to 2 transactions of 1 operation, with related transaction lists
    that are good, duplicated, or have a bad network, hash or direction.
- **`MCAsserterConstruction`** has:
  - every response field present, missing and malformed;
  - lists of up to 2 elements;
  - parse responses of up to 2 operations, with and without a status,
    under a disabled and an enabled profile;
  - signatures over payloads that request no type, `ecdsa` or are
    invalid, with keys and bytes of every kind and a nil entry.
- **`MCAsserterError`** has:
  - every catalog over codes 0 and 1 (messages `m`/`x`, both flags), in
    strict and lenient mode, and the nil receiver;
  - errors with codes -1..2, an empty, catalogued or other message, and
    both flags.

## Runs

| Run | Checks | Shows |
|---|---|---|
| `operations_valid` (pass) | `TypeOK`, `OperationsAcceptsExactlyValid` | Every slice of up to 3 operations is checked under every profile, in strict and lenient mode and in both contexts. The loop returns `OK` exactly when the whole slice satisfies the §4.1 rules: sequential indices, backward and duplicate-free related operations, negative fees with no related operations, counts, balances and related-operations-required. |
| `operations_panic` (violation) | `OperationsNeverPanics` | A payment-type operation with no amount is accepted by `Operation` (line 226) and then dereferenced at line 339. |
| `operations_fee_empty_related` (violation) | `OperationsAcceptsExactlyValid` | A fee whose `related_operations` is an empty list has no related operations, yet the `!= nil` test at line 345 rejects it. |
| `match_valid` (pass) | `TypeOK`, `MatchesCoverDescriptions`, `GroupConstraintsHold`, `MatchIsGreedyFirstFit` | Checked over the operations described above and all four scenarios. On success, every required description has an operation, a non-repeating one has at most one, and every operation is placed when `ErrUnmatched` is set. `MatchIsGreedyFirstFit`: each operation is placed with the lowest-numbered description that is still open and fits it (or nowhere). Whether a description is open depends on every earlier placement. Every equal-amount, equal-address, opposite and opposite-or-zero group holds for *all* its operations, not only the first ones the code compares. |
| `match_unparsed_amount` (violation) | `MatchesCoverDescriptions` | An amount that fails to parse leaves an empty `Match`, so a required description passes the nil check at line 728 with no operation. |
| `match_empty_address` (violation) | `GroupConstraintsHold` | `equalAddresses` treats an empty first address as "no base yet" (line 546), so a group with addresses `""` and `"A"` passes. |
| `match_panics` (violation) | `MatchNeverPanics` | Two inputs the matcher dereferences or indexes without checking. A metadata key whose value is `null` panics at line 192; TLC reports this one first. A negative index in an `EqualAmounts` (or other) group makes `matchIndexValid` read `matches[-1]` and panic at line 566. |
| `block_valid` (pass) | `TypeOK`, `BlockAcceptsExactlyValid` | `Block`, with each transaction's Operations loop composed in, returns nil exactly for the blocks a whole-block definition accepts. This covers the genesis exemption (unset, equal, different), the strict-mode timestamp gate and both window ends, payment counts fresh per transaction, and the duplicate and per-entry related-transaction checks. |
| `block_null_related` (violation) | `BlockNeverPanics` | A null entry in `related_transactions` passes the duplicate check and is dereferenced at line 497. |
| `construction_valid` (pass) | `TypeOK`, `ConstructionAcceptsExactlyValid` | Each construction validator returns nil exactly for what its contract accepts. For `ConstructionParseResponse` that is non-empty operations accepted in construction mode, `signed` exactly when signers exist, and valid, distinct signers. For `Signatures`, a requested signature type must equal the returned one. |
| `construction_null_signature` (violation) | `ConstructionNeverPanics` | A null entry in the signatures slice is dereferenced at line 310. |
| `error_valid` (pass) | `TypeOK`, `ErrorAcceptsExactlyCatalogued` | `Asserter.Error` accepts exactly the well-formed errors that, in strict mode, match a catalogued code, message and retriable flag. A lenient asserter accepts any well-formed error, and a nil receiver is an error, never a panic. |

Each property of a passing run has a mutant in `PROJECT.json`, and TLC
finds the property violated when that mutant replaces its definition:

- a loop that reads past the end of the slice;
- a related operation allowed to point at itself (`>` for `>=`);
- a matcher without the already-matched skip;
- a matcher that gives up at the first description that does not fit,
  instead of trying the next one;
- an opposite-amount check that skips `equalAmounts`;
- a block loop that reads past the last transaction;
- a genesis exemption that applies only when a genesis block is set;
- a construction loop that reads past the end of its list;
- a signature type comparison made even when none was requested;
- `Asserter.Error` without the nil-receiver check, and without the
  retriable comparison.

### Bounds

- **Three operations** are enough for every rule that relates
  operations to each other: a related list pointing at two earlier
  operations, a duplicate in a related list, two payments that balance,
  and a description that repeats next to one that does not.
- **Values -2..1** cover every sign and equality the comparisons tell
  apart.

- **Block:** two transactions of up to two operations each (a payment
  and a fee, at index 0 and 1) are enough to see the locals reset between
  transactions, a payment count fail in the second transaction only, and
  an out-of-order index inside a transaction. `block_valid` reaches
  893,076 distinct states.
- **Construction:** two elements per list are enough for a duplicate
  signer and for a good element followed by a bad one.
  The Parse operations include a payment and a fee at index 1, so a
  valid two-operation parse is explored as well as an out-of-order one.
- **Error:** two codes give a catalogued and an uncatalogued code, each
  with either entry.

The pass runs reach from 2,550 (`error_valid`) to 893,076
(`block_valid`) distinct states. Between them they reach success and
every error return of every scenario.

### Fairness

`Spec` asserts weak fairness of the non-stuttering actions. A running
synchronous call keeps executing, and nothing in the code can stop it
between two statements. No liveness property is checked. Every loop
runs over a finite slice and has no blocking step, so "the call returns"
holds by construction. Deadlock checking (left on in every run) already
shows that every call reaches its `"done"` state.

## Not modelled

- **No abstract specification.** A one-step contract for `Operations`
  ("the call returns nil exactly for the acceptable slices") would only
  restate `OperationsAcceptsExactlyValid`. The validators have no
  internal state that a refinement mapping could hide, so no refinement
  is checked.
- **`PartialBlockIdentifier`** (block.go 282-298) is translated as an
  operator of `AsserterBlock`, but no code in `src/` calls it, so no run
  exercises it.
- **Generated types and mocks** are not modelled: they have no
  behaviour. The types appear only as the record shapes of the inputs.
- **Formatting.** The wrapping of errors with `fmt.Errorf` and
  `types.PrintStruct` is left out. Results are the sentinel error a call
  wraps.
- **Byte and hex contents** are abstracted to empty, all-zero or data.
