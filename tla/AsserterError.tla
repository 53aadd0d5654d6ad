---------------------------- MODULE AsserterError ----------------------------
(***************************************************************************)
(* Asserter.Error of src/asserter/error.go: a *types.Error returned by a   *)
(* node is checked structurally, then, unless the asserter is lenient      *)
(* (ignoreRosettaSpecValidation), against the catalog of errors the node   *)
(* announced in /network/options: its code must be known and its message  *)
(* and retriable flag must equal the catalogued ones.  One behaviour is    *)
(* one call; the receiver may be nil.                                      *)
(***************************************************************************)
EXTENDS Integers

CONSTANTS
  Nil,
  Asserters,   \* the receivers: Nil or [errorTypeMap, ignoreSpec]
  Errors       \* the *types.Error values a node may return: Nil or
               \* [code, message, retriable]

OK    == "ok"
Panic == "panic"   \* a nil dereference

(* What Asserter.Error returns.                                            *)
Results ==
  {OK, "ErrAsserterNotInitialized", "ErrErrorIsNil", "ErrErrorCodeIsNeg",
   "ErrErrorMessageMissing", "ErrErrorUnexpectedCode",
   "ErrErrorMessageMismatch", "ErrErrorRetriableMismatch"}

VARIABLES
  a,           \* the receiver
  err,         \* the argument
  result       \* Nil until the call returns

vars == << a, err, result >>

(* Error (the package-level structural check) is defined in a file outside *)
(* src/: the descriptor is present, its code is not negative and its      *)
(* message is not empty.                                                   *)
Error(e) ==
  CASE e = Nil          -> "ErrErrorIsNil"
    [] e.code < 0       -> "ErrErrorCodeIsNeg"
    [] e.message = ""   -> "ErrErrorMessageMissing"
    [] OTHER            -> OK

(* Variant of AsserterErrorCheck without the nil-receiver guard: a nil    *)
(* receiver panics once a.ignoreRosettaSpecValidation is read.             *)
AsserterErrorCheckNilReceiver(r, e) ==
  CASE Error(e) # OK                         -> Error(e)
    [] r = Nil                               -> Panic
    [] r.ignoreSpec                          -> OK
    [] e.code \notin DOMAIN r.errorTypeMap   -> "ErrErrorUnexpectedCode"
    [] r.errorTypeMap[e.code].message # e.message
                                             -> "ErrErrorMessageMismatch"
    [] r.errorTypeMap[e.code].retriable # e.retriable
                                             -> "ErrErrorRetriableMismatch"
    [] OTHER                                 -> OK

(* Variant of AsserterErrorCheck that never compares the retriable flag.   *)
AsserterErrorCheckNoRetriable(r, e) ==
  CASE r = Nil                               -> "ErrAsserterNotInitialized"
    [] Error(e) # OK                         -> Error(e)
    [] r.ignoreSpec                          -> OK
    [] e.code \notin DOMAIN r.errorTypeMap   -> "ErrErrorUnexpectedCode"
    [] r.errorTypeMap[e.code].message # e.message
                                             -> "ErrErrorMessageMismatch"
    [] OTHER                                 -> OK

(* The early-return chain of the method Asserter.Error, in code order.   *)
AsserterErrorCheck(r, e) ==
  CASE r = Nil                               -> "ErrAsserterNotInitialized"
    [] Error(e) # OK                         -> Error(e)
    [] r.ignoreSpec                          -> OK
    [] e.code \notin DOMAIN r.errorTypeMap   -> "ErrErrorUnexpectedCode"
    [] r.errorTypeMap[e.code].message # e.message
                                             -> "ErrErrorMessageMismatch"
    [] r.errorTypeMap[e.code].retriable # e.retriable
                                             -> "ErrErrorRetriableMismatch"
    [] OTHER                                 -> OK

Init == a \in Asserters /\ err \in Errors /\ result = Nil

(* The call, from entry to its return.                                     *)
Call ==
  /\ result = Nil
  /\ result' = AsserterErrorCheck(a, err)
  /\ UNCHANGED << a, err >>

Returned == result # Nil /\ UNCHANGED vars

Next == Call \/ Returned

Spec == Init /\ [][Next]_vars

-----------------------------------------------------------------------------
(* The catalog entry of a descriptor: what /network/options lists for it.  *)
Catalogued(r, e) ==
  \E c \in DOMAIN r.errorTypeMap :
     r.errorTypeMap[c] = [message |-> e.message, retriable |-> e.retriable]
     /\ c = e.code

(* A node error passes Asserter.Error exactly when it is well formed and,  *)
(* in strict mode, is one of the errors the node announced, with the same  *)
(* code, message and retriable flag (spec section 4, Error).  A lenient    *)
(* asserter skips the catalog altogether (line 36), so any well-formed     *)
(* error passes, an unannounced code included.                             *)
ErrorAcceptsExactlyCatalogued ==
  result # Nil =>
    (result = OK <=> /\ a # Nil /\ err # Nil
                     /\ err.code >= 0 /\ err.message # ""
                     /\ a.ignoreSpec \/ Catalogued(a, err))

(* Asserter.Error returns one of its sentinel errors or nil, and never  *)
(* panics: the nil receiver is caught before any of its fields is read.   *)
TypeOK == a \in Asserters /\ err \in Errors /\ result \in {Nil} \cup Results

=============================================================================
