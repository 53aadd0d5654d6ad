--------------------------- MODULE AsserterBlock ---------------------------
(***************************************************************************)
(* Asserter.Block (src/asserter/block.go) and what it calls: the two block *)
(* identifiers, the genesis-dependent hash/index checks, the timestamp    *)
(* window from timestampStartIndex on in strict mode, then Transaction for *)
(* each transaction: its identifier, Asserter.Operations over its         *)
(* operations (the loop of AsserterOperations, instantiated here with     *)
(* construction = FALSE), then RelatedTransactions.  The first error ends  *)
(* the call.                                                               *)
(*                                                                         *)
(* As in AsserterOperations, the input is revealed as the call reaches it: *)
(* the block header in Init, each transaction when the loop over          *)
(* transactions reaches it, and its operations one per iteration of the    *)
(* Operations loop.  Timestamps are scaled: only their order relative to  *)
(* MinUnixEpoch and MaxUnixEpoch matters to the code.                      *)
(***************************************************************************)
EXTENDS Integers, SequencesExt

CONSTANTS
  Nil, EmptyValue, NotInteger, OperationTypes, OperationStatuses, Profiles,
  OperationShapes, MaxOps,   \* as in AsserterOperations
  MinUnixEpoch, MaxUnixEpoch,
  GenesisIndexes,    \* a.genesisBlock: Nil or the genesis block's index
  StartIndexes,      \* values of a.timestampStartIndex
  Blocks,            \* the blocks (header fields) a caller may pass, or Nil
  Transactions,      \* the transactions (without operations) or Nil
  Directions,        \* types.Forward and types.Backward
  MaxTxs             \* bound on len(block.Transactions)

ASSUME MinUnixEpoch < MaxUnixEpoch

OK    == "ok"
Panic == "panic"

VARIABLES
  validations, ignoreSpec,  \* the asserter, as in AsserterOperations
  genesisIndex,             \* a.genesisBlock (Nil) or a.genesisBlock.Index
  timestampStartIndex,      \* a.timestampStartIndex
  block,                    \* the block's header fields, or Nil
  numTxs,                   \* len(block.Transactions)
  txs,                      \* the transactions reached: [tx, ops]
  bpc,                      \* "start", "txs", "ops" or "done"
  result,
  \* the Operations call of the current transaction:
  construction,             \* Transaction passes false
  opsLen, txOps, opsPc, paymentTotal, feeTotal, paymentCount, feeCount,
  relatedOpsExists, opsResult

opsVars == << construction, opsLen, txOps, opsPc, paymentTotal, feeTotal, paymentCount,
              feeCount, relatedOpsExists, opsResult >>
blockVars == << validations, ignoreSpec, genesisIndex, timestampStartIndex,
                block, numTxs, txs, bpc, result >>
vars == << blockVars, opsVars >>

Ops == INSTANCE AsserterOperations WITH
  len <- opsLen, ops <- txOps, pc <- opsPc,
  result <- opsResult

-----------------------------------------------------------------------------
(* Identifier and value validators.                                        *)

FirstError(checks) == Ops!FirstError(checks)

BlockIdentifier(id) ==
  CASE id = Nil        -> "ErrBlockIdentifierIsNil"
    [] id.hash = ""    -> "ErrBlockIdentifierHashMissing"
    [] id.index < 0    -> "ErrBlockIdentifierIndexIsNeg"
    [] OTHER           -> OK

(* PartialBlockIdentifier (block.go 282-298) has no caller in src/: it is   *)
(* the validator of the optional hash and index of a block request.       *)
PartialBlockIdentifier(id) ==
  CASE id = Nil                          -> "ErrPartialBlockIdentifierIsNil"
    [] id.hash # Nil /\ id.hash = ""     -> "ErrPartialBlockIdentifierHashIsEmpty"
    [] id.index # Nil /\ id.index < 0    -> "ErrPartialBlockIdentifierIndexIsNegative"
    [] OTHER                             -> OK

TransactionIdentifier(id) ==
  CASE id = Nil        -> "ErrTxIdentifierIsNil"
    [] id.hash = ""    -> "ErrTxIdentifierHashMissing"
    [] OTHER           -> OK

(* NetworkIdentifier is validated in a file outside src/; the model keeps *)
(* only whether it is well formed.                                        *)
NetworkIdentifier(ni) ==
  IF ni.valid THEN OK ELSE "ErrNetworkIdentifierInvalid"

Direction(d) == IF d \in Directions THEN OK ELSE "ErrInvalidDirection"

Timestamp(ts) ==
  CASE ts < MinUnixEpoch -> "ErrTimestampBeforeMin"
    [] ts > MaxUnixEpoch -> "ErrTimestampAfterMax"
    [] OTHER             -> OK

(* DuplicateRelatedTransaction: types.Hash is a canonical encoding, so two *)
(* entries hash alike exactly when they are equal (nil entries included). *)
(* TRUE when some entry repeats an earlier one.                           *)
DuplicateRelatedTransaction(items) ==
  \E j \in DOMAIN items : \E k \in 1 .. j - 1 : items[k] = items[j]

(* RelatedTransactions: the duplicate check over the whole list first,    *)
(* then each entry in order.  A nil entry is dereferenced at line 497.    *)
RelatedTransactions(rel) ==
  IF DuplicateRelatedTransaction(rel) THEN "ErrDuplicateRelatedTransaction"
  ELSE FirstError([j \in DOMAIN rel |->
         CASE rel[j] = Nil -> Panic
           [] rel[j].network # Nil /\ NetworkIdentifier(rel[j].network) # OK
                           -> NetworkIdentifier(rel[j].network)
           [] TransactionIdentifier(rel[j].id) # OK
                           -> TransactionIdentifier(rel[j].id)
           [] OTHER        -> Direction(rel[j].direction)])

(* Variant of MonotonicityApplies that tests a.genesisBlock != nil first *)
(* and so skips the checks for every block when no genesis is configured. *)
MonotonicityAppliesWithGenesisOnly(b) ==
  genesisIndex # Nil /\ genesisIndex # b.id.index

(* The hash/index monotonicity checks apply unless the block is at the    *)
(* configured genesis index (always, when no genesis block is set).       *)
MonotonicityApplies(b) == genesisIndex = Nil \/ genesisIndex # b.id.index

(* Lines 575-617: everything Block checks before the transactions.        *)
BlockHeader(b) ==
  LET idErr     == BlockIdentifier(b.id)
      parentErr == BlockIdentifier(b.parent)
  IN  CASE b = Nil        -> "ErrBlockIsNil"
        [] idErr # OK     -> idErr
        [] parentErr # OK -> parentErr
        [] MonotonicityApplies(b) /\ b.id.hash = b.parent.hash
                          -> "ErrBlockHashEqualsParentBlockHash"
        [] MonotonicityApplies(b) /\ b.id.index <= b.parent.index
                          -> "ErrBlockIndexPrecedesParentBlockIndex"
        [] ~ignoreSpec /\ timestampStartIndex <= b.id.index
                          -> Timestamp(b.timestamp)
        [] OTHER          -> OK

-----------------------------------------------------------------------------
(* The call.                                                               *)

(* Operations starts afresh for every transaction: its totals, counts and *)
(* relatedOpsExists are locals of that call.                               *)
ResetOperations(n) ==
  /\ UNCHANGED construction
  /\ opsLen' = n /\ txOps' = <<>> /\ opsPc' = "start" /\ opsResult' = Nil
  /\ paymentTotal' = 0 /\ feeTotal' = 0 /\ paymentCount' = 0 /\ feeCount' = 0
  /\ relatedOpsExists' = FALSE

Init ==
  /\ validations \in Profiles
  /\ ignoreSpec \in BOOLEAN
  /\ genesisIndex \in GenesisIndexes
  /\ timestampStartIndex \in StartIndexes
  /\ block \in Blocks
  /\ numTxs \in IF block = Nil THEN {0} ELSE 0 .. MaxTxs
  /\ txs = <<>> /\ bpc = "start" /\ result = Nil
  /\ construction = FALSE
  /\ opsLen = 0 /\ txOps = <<>> /\ opsPc = "idle" /\ opsResult = Nil
  /\ paymentTotal = 0 /\ feeTotal = 0 /\ paymentCount = 0 /\ feeCount = 0
  /\ relatedOpsExists = FALSE

Return(r) == bpc' = "done" /\ result' = r

(* Lines 575-617: the checks on the block itself.                         *)
Start ==
  /\ bpc = "start"
  /\ LET err == BlockHeader(block)
     IN  IF err # OK THEN Return(err) ELSE bpc' = "txs" /\ UNCHANGED result
  /\ UNCHANGED << validations, ignoreSpec, genesisIndex, timestampStartIndex,
                  block, numTxs, txs >>
  /\ UNCHANGED opsVars

(* Variant of StartTransaction whose bound is <= instead of <: the loop   *)
(* over transactions reads one past the end.                               *)
StartTransactionPastEnd ==
  /\ bpc = "txs"
  /\ Len(txs) <= numTxs
  /\ \E tx \in Transactions :
       /\ txs' = Append(txs, [tx |-> tx, ops |-> <<>>])
       /\ CASE tx = Nil
                 -> Return("ErrTxIsNil") /\ UNCHANGED opsVars
            [] TransactionIdentifier(tx.id) # OK
                 -> Return(TransactionIdentifier(tx.id)) /\ UNCHANGED opsVars
            [] OTHER
                 -> /\ bpc' = "ops" /\ UNCHANGED result
                    /\ \E n \in 0 .. MaxOps : ResetOperations(n)
  /\ UNCHANGED << validations, ignoreSpec, genesisIndex, timestampStartIndex,
                  block, numTxs >>

(* Lines 619-620 and 448-463: the loop over transactions reaches the next *)
(* one; Transaction checks it is not nil and its identifier, then calls   *)
(* Operations(transaction.Operations, false).                              *)
StartTransaction ==
  /\ bpc = "txs"
  /\ Len(txs) < numTxs
  /\ \E tx \in Transactions :
       /\ txs' = Append(txs, [tx |-> tx, ops |-> <<>>])
       /\ CASE tx = Nil
                 -> Return("ErrTxIsNil") /\ UNCHANGED opsVars
            [] TransactionIdentifier(tx.id) # OK
                 -> Return(TransactionIdentifier(tx.id)) /\ UNCHANGED opsVars
            [] OTHER
                 -> /\ bpc' = "ops" /\ UNCHANGED result
                    /\ \E n \in 0 .. MaxOps : ResetOperations(n)
  /\ UNCHANGED << validations, ignoreSpec, genesisIndex, timestampStartIndex,
                  block, numTxs >>

(* One step of the Operations call of the current transaction.            *)
OperationsStep ==
  /\ bpc = "ops"
  /\ Ops!Start \/ Ops!OperationsLoop \/ Ops!EndOfOperations
  /\ UNCHANGED blockVars

(* Lines 464-479: Operations has returned; its error ends the call,      *)
(* otherwise RelatedTransactions runs, then the loop moves on.            *)
EndTransaction ==
  /\ bpc = "ops"
  /\ opsPc = "done"
  /\ txs' = [txs EXCEPT ![Len(txs)].ops = txOps]
  /\ LET err == IF opsResult # OK THEN opsResult
                ELSE RelatedTransactions(txs[Len(txs)].tx.related)
     IN  IF err # OK THEN Return(err) ELSE bpc' = "txs" /\ UNCHANGED result
  /\ UNCHANGED << validations, ignoreSpec, genesisIndex, timestampStartIndex,
                  block, numTxs >>
  /\ UNCHANGED opsVars

(* Line 625: every transaction was valid.                                 *)
EndOfBlock ==
  /\ bpc = "txs"
  /\ Len(txs) = numTxs
  /\ Return(OK)
  /\ UNCHANGED << validations, ignoreSpec, genesisIndex, timestampStartIndex,
                  block, numTxs, txs >>
  /\ UNCHANGED opsVars

Returned == bpc = "done" /\ UNCHANGED vars

Next ==
  \/ Start \/ StartTransaction \/ OperationsStep \/ EndTransaction
  \/ EndOfBlock \/ Returned

Spec == Init /\ [][Next]_vars
          /\ WF_vars(Start \/ StartTransaction \/ OperationsStep
                     \/ EndTransaction \/ EndOfBlock)

-----------------------------------------------------------------------------
(* What Block promises (spec sections 3 and 4.1), over the whole block:   *)
(* well-formed identifiers; unless the block is at the genesis index, a    *)
(* hash different from its parent's and a greater index; in strict mode   *)
(* and from the timestamp start index on, a timestamp inside the closed   *)
(* window; and every transaction non-nil, with a valid identifier,        *)
(* operations Operations must accept in non-construction mode, and       *)
(* related transactions that are distinct and each well formed.           *)

AcceptableRelated(rel) ==
  /\ IsInjective(rel)
  /\ \A j \in DOMAIN rel :
       /\ rel[j] # Nil
       /\ rel[j].network = Nil \/ rel[j].network.valid
       /\ TransactionIdentifier(rel[j].id) = OK
       /\ rel[j].direction \in Directions

AcceptableTransaction(t) ==
  /\ t.tx # Nil
  /\ TransactionIdentifier(t.tx.id) = OK
  /\ Ops!AcceptableOperations(Ops!Asserter, construction, t.ops)
  /\ AcceptableRelated(t.tx.related)

AcceptableBlock(b, ts) ==
  /\ b # Nil
  /\ BlockIdentifier(b.id) = OK /\ BlockIdentifier(b.parent) = OK
  /\ genesisIndex # b.id.index =>
        b.id.hash # b.parent.hash /\ b.id.index > b.parent.index
  /\ ~ignoreSpec /\ timestampStartIndex <= b.id.index =>
        b.timestamp \in MinUnixEpoch .. MaxUnixEpoch
  /\ \A k \in DOMAIN ts : AcceptableTransaction(ts[k])

(* Block returns nil exactly for the blocks the specification accepts:   *)
(* the genesis exemption, the timestamp gate and window, the per-         *)
(* transaction calls of Operations (each starting from fresh totals) and  *)
(* RelatedTransactions' duplicate check before its per-entry checks must  *)
(* together decide what the whole-block definition decides.               *)
BlockAcceptsExactlyValid ==
  bpc = "done" => (result = OK <=> AcceptableBlock(block, txs))

(* Block never panics: a related transaction that is null in the list is *)
(* an error, not a nil dereference (line 497).                            *)
BlockNeverPanics == result # Panic

TypeOK ==
  /\ validations \in Profiles /\ ignoreSpec \in BOOLEAN
  /\ genesisIndex \in GenesisIndexes /\ timestampStartIndex \in StartIndexes
  /\ block \in Blocks /\ numTxs \in 0 .. MaxTxs
  /\ txs \in Seq([tx : Transactions, ops : Seq(OperationShapes)])
  /\ Len(txs) <= numTxs
  /\ bpc \in {"start", "txs", "ops", "done"}
  /\ (bpc = "done") = (result # Nil)
  /\ construction = FALSE
  /\ opsLen \in 0 .. MaxOps /\ Len(txOps) <= opsLen
  /\ opsPc \in {"idle", "start", "loop", "done"}
  /\ bpc = "ops" => opsPc # "idle"

=============================================================================
