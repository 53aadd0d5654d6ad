------------------------- MODULE AsserterOperations -------------------------
(***************************************************************************)
(* Asserter.Operations (src/asserter/block.go) and the per-operation       *)
(* validators it calls.                                                    *)
(*                                                                         *)
(* Operations is one left-to-right loop over a slice of operations: each   *)
(* iteration validates one operation (identifier index = loop index, type, *)
(* status, account, amount, coin change), then, when the validation        *)
(* profile is enabled, adds payment and fee amounts into running totals,   *)
(* then checks that every related-operation index points strictly         *)
(* backwards and is not repeated.  After the loop the profile's aggregate  *)
(* rules (related ops required, payment/fee counts and balances) apply.    *)
(* The first violated rule ends the call.                                  *)
(*                                                                         *)
(* The operations slice is revealed one element per loop iteration: the   *)
(* element the loop reaches is chosen from OperationShapes at that         *)
(* iteration and appended to the history variable ops.  Every slice of    *)
(* length len over OperationShapes is explored this way, and ops is the    *)
(* slice the finished call was given.                                      *)
(***************************************************************************)
EXTENDS Integers, SequencesExt

CONSTANTS
  Nil,               \* a nil pointer or nil slice
  EmptyValue,        \* Amount.Value == ""
  NotInteger,        \* an Amount.Value big.Int.SetString rejects
  OperationTypes,    \* a.operationTypes (allowed operation types)
  OperationStatuses, \* the keys of a.operationStatusMap
  Profiles,          \* values of a.validations the asserter may be built with
  OperationShapes,   \* the operations a caller may put in the slice
  MaxOps             \* bound on len(operations)

ASSUME MaxOps \in Nat

(* Chain types of a validation profile (asserter.Account / asserter.UTXO). *)
Account == "account"
UTXO    == "utxo"

OK    == "ok"     \* a validator returned nil
Panic == "panic"  \* the call panicked (nil pointer dereference)

VARIABLES
  validations,      \* a.validations
  ignoreSpec,       \* a.ignoreRosettaSpecValidation (lenient mode)
  construction,     \* the construction argument
  len,              \* len(operations)
  ops,              \* the operations the loop has reached so far
  pc,               \* "start", "loop" or "done"
  paymentTotal, feeTotal, paymentCount, feeCount, relatedOpsExists,
  result            \* OK, an error sentinel name or Panic once pc = "done"

vars == << validations, ignoreSpec, construction, len, ops, pc,
           paymentTotal, feeTotal, paymentCount, feeCount,
           relatedOpsExists, result >>

(* The receiver a of the Asserter methods: the parts of its configuration *)
(* Operations reads.                                                       *)
Asserter == [validations |-> validations, ignoreSpec |-> ignoreSpec]

-----------------------------------------------------------------------------
(* Value-level validators; each returns OK or the sentinel error it wraps.  *)

IsInteger(v) == v \notin {EmptyValue, NotInteger}

(* The first error in a sequence of checks, in the order the code makes    *)
(* them: the early-return chain of a validator.                            *)
FirstError(checks) ==
  LET failed == {k \in DOMAIN checks : checks[k] # OK}
  IN  IF failed = {} THEN OK ELSE checks[Min(failed)]

Currency(c) ==
  CASE c = Nil          -> "ErrAmountCurrencyIsNil"
    [] c.symbol = ""    -> "ErrAmountCurrencySymbolEmpty"
    [] c.decimals < 0   -> "ErrAmountCurrencyHasNegDecimals"
    [] OTHER            -> OK

Amount(a) ==
  CASE a = Nil \/ a.value = EmptyValue -> "ErrAmountValueMissing"
    [] ~IsInteger(a.value)             -> "ErrAmountIsNotInt"
    [] OTHER                           -> Currency(a.currency)

OperationIdentifier(id, index) ==
  CASE id = Nil                -> "ErrOperationIdentifierIndexIsNil"
    [] id.index # index        -> "ErrOperationIdentifierIndexOutOfOrder"
    [] id.networkIndex # Nil /\ id.networkIndex < 0
                               -> "ErrOperationIdentifierNetworkIndexInvalid"
    [] OTHER                   -> OK

AccountIdentifier(acct) ==
  CASE acct = Nil                         -> "ErrAccountIsNil"
    [] acct.address = ""                  -> "ErrAccountAddrMissing"
    [] acct.subAccount # Nil /\ acct.subAccount = ""
                                          -> "ErrAccountSubAccountAddrMissing"
    [] OTHER                              -> OK

OperationStatus(a, status, constr) ==
  CASE (status = Nil \/ status = "") /\ constr -> OK
    [] status = Nil \/ status = ""             -> "ErrOperationStatusMissing"
    [] constr                                  -> "ErrOperationStatusNotEmptyForConstruction"
    [] ~a.ignoreSpec /\ status \notin OperationStatuses
                                               -> "ErrOperationStatusInvalid"
    [] OTHER                                   -> OK

OperationType(a, t) ==
  IF t = "" \/ (~a.ignoreSpec /\ t \notin OperationTypes)
  THEN "ErrOperationTypeInvalid" ELSE OK

(* CoinChange is validated in a file outside src/: a coin change is valid  *)
(* when its action is one of the two CoinAction enum values.               *)
CoinChange(cc) ==
  IF cc.coinAction \in {"coin_created", "coin_spent"}
  THEN OK ELSE "ErrCoinActionInvalid"

(* Asserter.Operation: identifier, type, status; account and amount only   *)
(* when an amount is present; coin change only when one is present too.    *)
Operation(a, op, index, constr) ==
  IF op = Nil THEN "ErrOperationIsNil"
  ELSE FirstError(<<
         OperationIdentifier(op.id, index),
         OperationType(a, op.type),
         OperationStatus(a, op.status, constr),
         IF op.amount = Nil THEN OK ELSE AccountIdentifier(op.account),
         IF op.amount = Nil THEN OK ELSE Amount(op.amount),
         IF op.amount = Nil \/ op.coinChange = Nil THEN OK
         ELSE CoinChange(op.coinChange) >>)

(* Ranging over a nil RelatedOperations slice visits nothing.              *)
Related(op) == IF op.related = Nil THEN <<>> ELSE op.related

(* Variant of RelatedOperations comparing with > instead of >=: an       *)
(* operation may then name itself as related.                              *)
RelatedOperationsSelfReference(rel, index) ==
  FirstError([j \in DOMAIN rel |->
    CASE rel[j] > index                        -> "ErrRelatedOperationIndexOutOfOrder"
      [] rel[j] \in {rel[k] : k \in 1 .. j - 1} -> "ErrRelatedOperationIndexDuplicate"
      [] OTHER                                 -> OK])

(* The related-operations loop: the first entry that is not strictly      *)
(* below the operation's index, or that repeats an earlier entry.          *)
RelatedOperations(rel, index) ==
  FirstError([j \in DOMAIN rel |->
    CASE rel[j] >= index                       -> "ErrRelatedOperationIndexOutOfOrder"
      [] rel[j] \in {rel[k] : k \in 1 .. j - 1} -> "ErrRelatedOperationIndexDuplicate"
      [] OTHER                                 -> OK])

(* One iteration of the loop for op at index i, up to the point where it   *)
(* either returns or goes on: Operation, then the payment branch (whose    *)
(* op.Amount.Value dereferences a nil Amount), then the fee branch, then   *)
(* the related-operations loop.                                            *)
IsPayment(a, op) == a.validations.Enabled /\ op.type = a.validations.Payment.Name
IsFee(a, op)     == a.validations.Enabled /\ op.type = a.validations.Fee.Name

OperationsIteration(op, i) ==
  LET opErr == Operation(Asserter, op, i, construction)
  IN  IF opErr # OK THEN opErr
      ELSE FirstError(<<
        IF IsPayment(Asserter, op) /\ op.amount = Nil THEN Panic ELSE OK,
        IF IsFee(Asserter, op) /\ op.related # Nil THEN "ErrRelatedOperationInFeeNotAllowed" ELSE OK,
        IF IsFee(Asserter, op) /\ op.amount = Nil THEN Panic ELSE OK,
        IF IsFee(Asserter, op) /\ op.amount # Nil /\ op.amount.value >= 0
        THEN "ErrFeeAmountNotNegative" ELSE OK,
        RelatedOperations(Related(op), i) >>)

(* Variant of ValidatePaymentAndFee that forgets Count = -1 means        *)
(* "unchecked" for payments.                                               *)
ValidatePaymentAndFeeNoSentinel(pTotal, pCount, fTotal, fCount) ==
  LET P == validations.Payment.Operation
      F == validations.Fee.Operation
  IN  FirstError(<<
        IF P.Count # pCount THEN "ErrPaymentCountMismatch" ELSE OK,
        IF P.ShouldBalance /\ pTotal # 0 THEN "ErrPaymentAmountNotBalancing" ELSE OK,
        IF F.Count # -1 /\ F.Count # fCount THEN "ErrFeeCountMismatch" ELSE OK,
        IF F.ShouldBalance /\ fTotal # 0 THEN "ErrPaymentAmountNotBalancing" ELSE OK >>)

(* Asserter.ValidatePaymentAndFee.  The fee balance rule reports           *)
(* ErrPaymentAmountNotBalancing, as the code does.                         *)
ValidatePaymentAndFee(pTotal, pCount, fTotal, fCount) ==
  LET P == validations.Payment.Operation
      F == validations.Fee.Operation
  IN  FirstError(<<
        IF P.Count # -1 /\ P.Count # pCount THEN "ErrPaymentCountMismatch" ELSE OK,
        IF P.ShouldBalance /\ pTotal # 0 THEN "ErrPaymentAmountNotBalancing" ELSE OK,
        IF F.Count # -1 /\ F.Count # fCount THEN "ErrFeeCountMismatch" ELSE OK,
        IF F.ShouldBalance /\ fTotal # 0 THEN "ErrPaymentAmountNotBalancing" ELSE OK >>)

-----------------------------------------------------------------------------
(* The call.                                                               *)

Init ==
  /\ validations \in Profiles
  /\ ignoreSpec \in BOOLEAN
  /\ construction \in BOOLEAN
  /\ len \in 0 .. MaxOps
  /\ ops = <<>>
  /\ pc = "start"
  /\ paymentTotal = 0 /\ feeTotal = 0
  /\ paymentCount = 0 /\ feeCount = 0
  /\ relatedOpsExists = FALSE
  /\ result = Nil

Return(r) == pc' = "done" /\ result' = r

(* Lines 322-330: an empty slice is an error only for construction.       *)
Start ==
  /\ pc = "start"
  /\ IF len = 0 /\ construction
     THEN Return("ErrNoOperationsForConstruction")
     ELSE pc' = "loop" /\ UNCHANGED result
  /\ UNCHANGED << validations, ignoreSpec, construction, len, ops,
                  paymentTotal, feeTotal, paymentCount, feeCount, relatedOpsExists >>

(* Variant of OperationsLoop whose bound is <= instead of <: the loop      *)
(* reads one element past the end of the slice.                            *)
OperationsLoopPastEnd ==
  /\ pc = "loop"
  /\ Len(ops) <= len
  /\ \E op \in OperationShapes :
       LET i   == Len(ops)
           err == OperationsIteration(op, i)
       IN  /\ ops' = Append(ops, op)
           /\ IF err # OK
              THEN /\ Return(err)
                   /\ UNCHANGED << paymentTotal, feeTotal, paymentCount,
                                   feeCount, relatedOpsExists >>
              ELSE /\ paymentTotal' = paymentTotal + (IF IsPayment(Asserter, op) THEN op.amount.value ELSE 0)
                   /\ paymentCount' = paymentCount + (IF IsPayment(Asserter, op) THEN 1 ELSE 0)
                   /\ feeTotal' = feeTotal + (IF IsFee(Asserter, op) THEN op.amount.value ELSE 0)
                   /\ feeCount' = feeCount + (IF IsFee(Asserter, op) THEN 1 ELSE 0)
                   /\ relatedOpsExists' = (relatedOpsExists \/ Related(op) # <<>>)
                   /\ UNCHANGED << pc, result >>
  /\ UNCHANGED << validations, ignoreSpec, construction, len >>

(* Lines 331-399: one iteration of the loop over operations.              *)
OperationsLoop ==
  /\ pc = "loop"
  /\ Len(ops) < len
  /\ \E op \in OperationShapes :
       LET i   == Len(ops)
           err == OperationsIteration(op, i)
       IN  /\ ops' = Append(ops, op)
           /\ IF err # OK
              THEN /\ Return(err)
                   /\ UNCHANGED << paymentTotal, feeTotal, paymentCount,
                                   feeCount, relatedOpsExists >>
              ELSE /\ paymentTotal' = paymentTotal + (IF IsPayment(Asserter, op) THEN op.amount.value ELSE 0)
                   /\ paymentCount' = paymentCount + (IF IsPayment(Asserter, op) THEN 1 ELSE 0)
                   /\ feeTotal' = feeTotal + (IF IsFee(Asserter, op) THEN op.amount.value ELSE 0)
                   /\ feeCount' = feeCount + (IF IsFee(Asserter, op) THEN 1 ELSE 0)
                   /\ relatedOpsExists' = (relatedOpsExists \/ Related(op) # <<>>)
                   /\ UNCHANGED << pc, result >>
  /\ UNCHANGED << validations, ignoreSpec, construction, len >>

(* Lines 400-412: the checks after the loop.                              *)
EndOfOperations ==
  /\ pc = "loop"
  /\ Len(ops) = len
  /\ Return(
       IF ~relatedOpsExists /\ validations.Enabled /\ validations.RelatedOpsExists
       THEN "ErrRelatedOperationMissing"
       ELSE IF validations.Enabled /\ validations.ChainType = Account
       THEN ValidatePaymentAndFee(paymentTotal, paymentCount, feeTotal, feeCount)
       ELSE OK)
  /\ UNCHANGED << validations, ignoreSpec, construction, len, ops,
                  paymentTotal, feeTotal, paymentCount, feeCount, relatedOpsExists >>

(* The call has returned; the caller holds the result.                     *)
Returned == pc = "done" /\ UNCHANGED vars

Next == Start \/ OperationsLoop \/ EndOfOperations \/ Returned

Spec == Init /\ [][Next]_vars /\ WF_vars(Start \/ OperationsLoop \/ EndOfOperations)

-----------------------------------------------------------------------------
(* What Operations promises (spec section 4.1 and the first testable      *)
(* property of section 8), stated over the whole slice rather than as a    *)
(* loop: every operation is valid at its position, related operations     *)
(* point strictly backwards without repeats, and when the profile is      *)
(* enabled fee operations carry a negative amount and no related           *)
(* operations, and the aggregate count and balance rules hold.  Payment    *)
(* and fee operations must carry an amount for their sums to be defined.  *)

PaymentOps(a, s) == {k \in DOMAIN s : IsPayment(a, s[k])}
FeeOps(a, s)     == {k \in DOMAIN s : IsFee(a, s[k])}
AmountSum(s, K) == SumFunctionOnSet([k \in K |-> s[k].amount.value], K)

AcceptableOperations(a, constr, s) ==
  LET V == a.validations
      P == V.Payment.Operation
      F == V.Fee.Operation
  IN
  /\ constr => s # <<>>
  /\ \A k \in DOMAIN s : Operation(a, s[k], k - 1, constr) = OK
  /\ \A k \in DOMAIN s : \A j \in DOMAIN Related(s[k]) : Related(s[k])[j] < k - 1
  /\ \A k \in DOMAIN s : IsInjective(Related(s[k]))
  /\ \A k \in PaymentOps(a, s) \cup FeeOps(a, s) : s[k].amount # Nil
  /\ \A k \in FeeOps(a, s) : Related(s[k]) = <<>> /\ s[k].amount.value < 0
  /\ V.Enabled /\ V.RelatedOpsExists =>
        \E k \in DOMAIN s : Related(s[k]) # <<>>
  /\ V.Enabled /\ V.ChainType = Account =>
        /\ P.Count \in {-1, Cardinality(PaymentOps(a, s))}
        /\ P.ShouldBalance => AmountSum(s, PaymentOps(a, s)) = 0
        /\ F.Count \in {-1, Cardinality(FeeOps(a, s))}
        /\ F.ShouldBalance => AmountSum(s, FeeOps(a, s)) = 0

(* Operations returns nil exactly for the slices the specification         *)
(* accepts.  The running totals, counters, the per-operation related-index *)
(* list and the relatedOpsExists flag of the loop must together decide     *)
(* what the whole-slice definition decides.  When the loop returned early  *)
(* ops is the prefix it reached, which already violates a per-operation    *)
(* rule, as does every slice extending it.                                 *)
OperationsAcceptsExactlyValid ==
  pc = "done" => (result = OK <=> AcceptableOperations(Asserter, construction, ops))

(* Operations never panics: whatever slice it is given, the call returns   *)
(* nil or an error (block.go lines 339 and 354 read op.Amount.Value).      *)
OperationsNeverPanics == result # Panic

TypeOK ==
  /\ validations \in Profiles
  /\ ignoreSpec \in BOOLEAN /\ construction \in BOOLEAN
  /\ len \in 0 .. MaxOps
  /\ ops \in Seq(OperationShapes) /\ Len(ops) <= len
  /\ pc \in {"start", "loop", "done"}
  /\ paymentTotal \in Int /\ feeTotal \in Int
  /\ paymentCount \in 0 .. MaxOps /\ feeCount \in 0 .. MaxOps
  /\ relatedOpsExists \in BOOLEAN
  /\ (pc = "done") = (result # Nil)

=============================================================================
