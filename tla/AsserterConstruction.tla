------------------------ MODULE AsserterConstruction ------------------------
(***************************************************************************)
(* The construction-API validators of src/asserter/construction.go.  One   *)
(* behaviour is one call of one validator, named by call:                  *)
(*   "Preprocess"   ConstructionPreprocessResponse (loop over the required *)
(*                  public keys),                                          *)
(*   "Metadata"     ConstructionMetadataResponse,                          *)
(*   "TxIdentifier" TransactionIdentifierResponse,                         *)
(*   "Combine"      ConstructionCombineResponse,                           *)
(*   "Derive"       ConstructionDeriveResponse,                            *)
(*   "Parse"        Asserter.ConstructionParseResponse (Asserter.Operations *)
(*                  in construction mode, then the signer rules and the    *)
(*                  loop over signers),                                    *)
(*   "Payloads"     ConstructionPayloadsResponse (loop over payloads),     *)
(*   "Signatures"   Signatures (loop over signatures).                     *)
(* The response's scalar fields are chosen in Init; the elements of the   *)
(* list a validator loops over are revealed one per iteration; the        *)
(* operations of a parse response are revealed by the Operations loop,    *)
(* instantiated from AsserterOperations with construction = TRUE.  Byte   *)
(* strings are abstracted to "empty", "zero" (all zero bytes) or "data".  *)
(***************************************************************************)
EXTENDS Integers, SequencesExt

CONSTANTS
  Nil, EmptyValue, NotInteger, OperationTypes, OperationStatuses, Profiles,
  OperationShapes, MaxOps,   \* as in AsserterOperations
  CurveTypes,                \* the types.CurveType constants
  SignatureTypes,            \* the types.SignatureType constants
  Responses,                 \* Responses[call]: the responses a caller may pass
  Elements,                  \* Elements[call]: what the looped list may hold
  MaxElems                   \* bound on the looped list's length

Calls == {"Preprocess", "Metadata", "TxIdentifier", "Combine", "Derive",
          "Parse", "Payloads", "Signatures"}

(* The validators that loop over a list.                                  *)
LoopCalls == {"Preprocess", "Parse", "Payloads", "Signatures"}

OK       == "ok"
Panic    == "panic"
Continue == "continue"   \* the checks before the loop passed

VARIABLES
  validations, ignoreSpec,   \* the asserter (used by Parse)
  call, response,
  signed,                    \* ConstructionParseResponse's signed argument
  n,                         \* the length of the list the validator loops over
  elems,                     \* its elements reached so far
  cpc,                       \* "start", "ops", "loop" or "done"
  result,
  construction, opsLen, txOps, opsPc, paymentTotal, feeTotal, paymentCount,
  feeCount, relatedOpsExists, opsResult   \* the Operations call of Parse

opsVars == << construction, opsLen, txOps, opsPc, paymentTotal, feeTotal,
              paymentCount, feeCount, relatedOpsExists, opsResult >>
callVars == << validations, ignoreSpec, call, response, signed, n, elems,
               cpc, result >>
vars == << callVars, opsVars >>

Ops == INSTANCE AsserterOperations WITH
  len <- opsLen, ops <- txOps, pc <- opsPc, result <- opsResult

FirstError(checks) == Ops!FirstError(checks)

-----------------------------------------------------------------------------
(* Validators of single values.                                            *)

TransactionIdentifier(id) ==
  CASE id = Nil        -> "ErrTxIdentifierIsNil"
    [] id.hash = ""    -> "ErrTxIdentifierHashMissing"
    [] OTHER           -> OK

CurveType(c) == IF c \in CurveTypes THEN OK ELSE "ErrCurveTypeNotSupported"

SignatureType(s) ==
  IF s \in SignatureTypes THEN OK ELSE "ErrSignatureTypeNotSupported"

PublicKey(k) ==
  CASE k = Nil            -> "ErrPublicKeyIsNil"
    [] k.bytes = "empty"  -> "ErrPublicKeyBytesEmpty"
    [] k.bytes = "zero"   -> "ErrPublicKeyBytesZero"
    [] OTHER              -> CurveType(k.curve)

SigningPayload(p) ==
  CASE p = Nil                               -> "ErrSigningPayloadIsNil"
    [] Ops!AccountIdentifier(p.account) # OK -> Ops!AccountIdentifier(p.account)
    [] p.bytes = "empty"                     -> "ErrSigningPayloadBytesEmpty"
    [] p.bytes = "zero"                      -> "ErrSigningPayloadBytesZero"
    [] p.sigType = ""                        -> OK
    [] OTHER                                 -> SignatureType(p.sigType)

(* Variant of Signature that compares the requested signature type even   *)
(* when the payload did not request one.                                   *)
SignatureAlwaysCompared(s) ==
  CASE s = Nil                         -> Panic
    [] SigningPayload(s.payload) # OK  -> SigningPayload(s.payload)
    [] PublicKey(s.publicKey) # OK     -> PublicKey(s.publicKey)
    [] SignatureType(s.sigType) # OK   -> SignatureType(s.sigType)
    [] s.payload.sigType # s.sigType   -> "ErrSignaturesReturnedSigMismatch"
    [] s.bytes = "empty"               -> "ErrSignatureBytesEmpty"
    [] s.bytes = "zero"                -> "ErrSignatureBytesZero"
    [] OTHER                           -> OK

(* One iteration of the loop of Signatures.  signature.SigningPayload of  *)
(* a nil entry is dereferenced at line 310.                               *)
Signature(s) ==
  CASE s = Nil                         -> Panic
    [] SigningPayload(s.payload) # OK  -> SigningPayload(s.payload)
    [] PublicKey(s.publicKey) # OK     -> PublicKey(s.publicKey)
    [] SignatureType(s.sigType) # OK   -> SignatureType(s.sigType)
    [] s.payload.sigType # "" /\ s.payload.sigType # s.sigType
                                       -> "ErrSignaturesReturnedSigMismatch"
    [] s.bytes = "empty"               -> "ErrSignatureBytesEmpty"
    [] s.bytes = "zero"                -> "ErrSignatureBytesZero"
    [] OTHER                           -> OK

(* AssertUniqueAmounts is defined in a file outside src/: every amount is *)
(* valid and no currency is used twice.                                    *)
AssertUniqueAmounts(amounts) ==
  LET bad == FirstError([k \in DOMAIN amounts |-> Ops!Amount(amounts[k])])
  IN  CASE bad # OK -> bad
        [] \E j, k \in DOMAIN amounts :
              j < k /\ amounts[j].currency = amounts[k].currency
                    -> "ErrCurrencyUsedMultipleTimes"
        [] OTHER    -> OK

(* AccountArray is defined in a file outside src/: its accounts are valid *)
(* and no account appears twice.                                           *)
AccountArray(arr) ==
  LET bad == FirstError([k \in DOMAIN arr |-> Ops!AccountIdentifier(arr[k])])
  IN  CASE bad # OK -> bad
        [] \E j, k \in DOMAIN arr : j < k /\ arr[j] = arr[k]
                    -> "ErrAccountArrayDuplicateAccount"
        [] OTHER    -> OK

-----------------------------------------------------------------------------
(* The validators without a loop, whole.                                   *)
ConstructionMetadataResponse(r) ==
  CASE r = Nil            -> "ErrConstructionMetadataResponseIsNil"
    [] r.metadata = Nil   -> "ErrConstructionMetadataResponseMetadataMissing"
    [] OTHER              -> AssertUniqueAmounts(r.suggestedFee)

TransactionIdentifierResponse(r) ==
  IF r = Nil THEN "ErrTxIdentifierResponseIsNil" ELSE TransactionIdentifier(r.id)

ConstructionCombineResponse(r) ==
  CASE r = Nil            -> "ErrConstructionCombineResponseIsNil"
    [] r.signedTx = ""    -> "ErrSignedTxEmpty"
    [] OTHER              -> OK

ConstructionDeriveResponse(r) ==
  IF r = Nil THEN "ErrConstructionDeriveResponseIsNil"
  ELSE Ops!AccountIdentifier(r.account)

(* The checks the looping validators make before their loop: an error, or *)
(* Continue.                                                               *)
ConstructionPreprocessResponseStart(r) ==
  IF r = Nil THEN "ErrConstructionPreprocessResponseIsNil" ELSE Continue

ConstructionParseResponseStart(r) ==
  CASE r = Nil      -> "ErrConstructionParseResponseIsNil"
    [] opsLen = 0   -> "ErrConstructionParseResponseOperationsEmpty"
    [] OTHER        -> Continue

ConstructionPayloadsResponseStart(r) ==
  CASE r = Nil              -> "ErrConstructionPayloadsResponseIsNil"
    [] r.unsignedTx = ""    -> "ErrConstructionPayloadsResponseUnsignedTxEmpty"
    [] n = 0                -> "ErrConstructionPayloadsResponsePayloadsEmpty"
    [] OTHER                -> Continue

SignaturesStart == IF n = 0 THEN "ErrSignaturesEmpty" ELSE Continue

(* The call's result before its loop, or Continue.                         *)
PreLoop(c, r) ==
  CASE c = "Preprocess"   -> ConstructionPreprocessResponseStart(r)
    [] c = "Metadata"     -> ConstructionMetadataResponse(r)
    [] c = "TxIdentifier" -> TransactionIdentifierResponse(r)
    [] c = "Combine"      -> ConstructionCombineResponse(r)
    [] c = "Derive"       -> ConstructionDeriveResponse(r)
    [] c = "Parse"        -> ConstructionParseResponseStart(r)
    [] c = "Payloads"     -> ConstructionPayloadsResponseStart(r)
    [] c = "Signatures"   -> SignaturesStart

(* The body of each validator's loop, for one element.                    *)
ElementCheck(c, x) ==
  CASE c = "Payloads"   -> SigningPayload(x)
    [] c = "Signatures" -> Signature(x)
    [] OTHER            -> Ops!AccountIdentifier(x)

Init ==
  /\ validations \in Profiles
  /\ ignoreSpec \in BOOLEAN
  /\ call \in Calls
  /\ response \in Responses[call]
  /\ signed \in IF call = "Parse" THEN BOOLEAN ELSE {FALSE}
  /\ n \in IF call \in LoopCalls THEN 0 .. MaxElems ELSE {0}
  /\ opsLen \in IF call = "Parse" THEN 0 .. MaxOps ELSE {0}
  /\ elems = <<>> /\ cpc = "start" /\ result = Nil
  /\ construction = TRUE /\ txOps = <<>> /\ opsPc = "start" /\ opsResult = Nil
  /\ paymentTotal = 0 /\ feeTotal = 0 /\ paymentCount = 0 /\ feeCount = 0
  /\ relatedOpsExists = FALSE

Return(r) == cpc' = "done" /\ result' = r

(* The checks before the loop.                                             *)
Start ==
  /\ cpc = "start"
  /\ LET e == PreLoop(call, response)
     IN  IF e = Continue
         THEN cpc' = (IF call = "Parse" THEN "ops" ELSE "loop") /\ UNCHANGED result
         ELSE Return(e)
  /\ UNCHANGED << validations, ignoreSpec, call, response, signed, n, elems >>
  /\ UNCHANGED opsVars

(* Line 148: one step of a.Operations(response.Operations, true).         *)
OperationsStep ==
  /\ cpc = "ops"
  /\ Ops!Start \/ Ops!OperationsLoop \/ Ops!EndOfOperations
  /\ UNCHANGED callVars

(* Lines 148-162: Operations returned; then the signed/signers rules.     *)
AfterOperations ==
  /\ cpc = "ops"
  /\ opsPc = "done"
  /\ CASE opsResult # OK  -> Return(opsResult)
       [] signed /\ n = 0 -> Return("ErrConstructionParseResponseSignersEmptyOnSignedTx")
       [] ~signed /\ n > 0
                          -> Return("ErrConstructionParseResponseSignersNonEmptyOnUnsignedTx")
       [] OTHER           -> cpc' = "loop" /\ UNCHANGED result
  /\ UNCHANGED << validations, ignoreSpec, call, response, signed, n, elems >>
  /\ UNCHANGED opsVars

(* Variant of LoopElement whose bound is <= instead of <.                  *)
LoopElementPastEnd ==
  /\ cpc = "loop"
  /\ Len(elems) <= n
  /\ \E x \in Elements[call] :
       /\ elems' = Append(elems, x)
       /\ LET e == ElementCheck(call, x)
          IN  IF e # OK THEN Return(e) ELSE UNCHANGED << cpc, result >>
  /\ UNCHANGED << validations, ignoreSpec, call, response, signed, n >>
  /\ UNCHANGED opsVars

(* One iteration of the validator's loop (lines 32-40, 164-172, 206-210, *)
(* 309-348): the first failing element ends the call.                     *)
LoopElement ==
  /\ cpc = "loop"
  /\ Len(elems) < n
  /\ \E x \in Elements[call] :
       /\ elems' = Append(elems, x)
       /\ LET e == ElementCheck(call, x)
          IN  IF e # OK THEN Return(e) ELSE UNCHANGED << cpc, result >>
  /\ UNCHANGED << validations, ignoreSpec, call, response, signed, n >>
  /\ UNCHANGED opsVars

(* After the loop: Parse checks its signers for duplicates (lines        *)
(* 174-182); every other validator returns nil.                           *)
EndOfLoop ==
  /\ cpc = "loop"
  /\ Len(elems) = n
  /\ Return(IF call = "Parse" /\ n > 0 THEN AccountArray(elems) ELSE OK)
  /\ UNCHANGED << validations, ignoreSpec, call, response, signed, n, elems >>
  /\ UNCHANGED opsVars

Returned == cpc = "done" /\ UNCHANGED vars

Next ==
  \/ Start \/ OperationsStep \/ AfterOperations \/ LoopElement \/ EndOfLoop
  \/ Returned

Spec == Init /\ [][Next]_vars
          /\ WF_vars(Start \/ OperationsStep \/ AfterOperations \/ LoopElement
                     \/ EndOfLoop)

-----------------------------------------------------------------------------
(* What each validator promises, from its doc comment and the shape of    *)
(* the objects (spec section 3), over the whole response.                 *)

AcceptableSignature(s) ==
  /\ s # Nil
  /\ SigningPayload(s.payload) = OK /\ PublicKey(s.publicKey) = OK
  /\ s.sigType \in SignatureTypes
  /\ s.payload.sigType \in {"", s.sigType}
  /\ s.bytes = "data"

Acceptable(c, r, list) ==
  CASE c = "Signatures" -> n > 0 /\ \A k \in DOMAIN list : AcceptableSignature(list[k])
    [] r = Nil          -> FALSE
    [] c = "Preprocess" -> \A k \in DOMAIN list : Ops!AccountIdentifier(list[k]) = OK
    [] c = "Metadata"   -> r.metadata # Nil /\ AssertUniqueAmounts(r.suggestedFee) = OK
    [] c = "TxIdentifier" -> TransactionIdentifier(r.id) = OK
    [] c = "Combine"    -> r.signedTx # ""
    [] c = "Derive"     -> Ops!AccountIdentifier(r.account) = OK
    [] c = "Parse"      -> /\ opsLen > 0
                           /\ Ops!AcceptableOperations(Ops!Asserter, TRUE, txOps)
                           /\ signed <=> n > 0
                           /\ \A k \in DOMAIN list : Ops!AccountIdentifier(list[k]) = OK
                           /\ IsInjective(list)
    [] c = "Payloads"   -> /\ r.unsignedTx # "" /\ n > 0
                           /\ \A k \in DOMAIN list : SigningPayload(list[k]) = OK

(* Every construction validator returns nil exactly for the responses    *)
(* its contract accepts.  For Parse this ties together the empty-         *)
(* operations check, the whole Operations loop in construction mode, the  *)
(* signed/unsigned rules and the signer loop with its duplicate check;    *)
(* for Signatures, the requested-versus-returned signature type rule.     *)
ConstructionAcceptsExactlyValid ==
  cpc = "done" => (result = OK <=> Acceptable(call, response, elems))

(* No construction validator panics: a null entry in a signatures list is *)
(* an error, not a nil dereference (line 310).                            *)
ConstructionNeverPanics == result # Panic

TypeOK ==
  /\ validations \in Profiles /\ ignoreSpec \in BOOLEAN
  /\ call \in Calls /\ response \in Responses[call]
  /\ signed \in BOOLEAN
  /\ n \in 0 .. MaxElems
  /\ elems \in Seq(Elements[call]) /\ Len(elems) <= n
  /\ cpc \in {"start", "ops", "loop", "done"}
  /\ (cpc = "done") = (result # Nil)
  /\ construction = TRUE
  /\ opsLen \in 0 .. MaxOps /\ Len(txOps) <= opsLen

=============================================================================
