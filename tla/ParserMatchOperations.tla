------------------------ MODULE ParserMatchOperations ------------------------
(***************************************************************************)
(* parser.MatchOperations (src/parser/match_operations.go).               *)
(*                                                                         *)
(* A single left-to-right pass assigns each operation to the first        *)
(* description (in description order) that is not already taken, unless   *)
(* it allows repeats, and that the operation satisfies.  Then every       *)
(* non-optional description must have been matched, and the group          *)
(* constraints (equal amounts, equal addresses, opposite amounts,         *)
(* opposite-or-zero amounts) are checked on the matched groups.            *)
(*                                                                         *)
(* As in AsserterOperations, the operations slice is revealed one element *)
(* per loop iteration and kept in the history variable ops.  Descriptions *)
(* are a function from 0 .. n-1, indexed as in the code, and operation   *)
(* positions in a Match are 0-based too.                                  *)
(***************************************************************************)
EXTENDS Integers, SequencesExt

CONSTANTS
  Nil,              \* a nil pointer, nil map value or nil slice
  NotInteger,       \* an Amount.Value types.AmountValue cannot parse
  DescriptionSets,  \* the *Descriptions values a caller may pass
  OperationShapes,  \* the operations a caller may put in the slice
  MaxOps            \* bound on len(operations)

ASSUME MaxOps \in Nat

OK       == "ok"
Mismatch == "mismatch"   \* a matcher returned a non-nil error
Unparsed == "unparsed"   \* all checks passed but AmountValue failed
Panic    == "panic"

(* AmountSign values.                                                       *)
AnySign            == 0
NegativeSign       == 1
PositiveSign       == 2
PositiveOrZeroSign == 3
NegativeOrZeroSign == 4

VARIABLES
  descriptions,  \* the *Descriptions argument
  len,           \* len(operations)
  ops,           \* the operations the loop has reached so far
  matches,       \* matches: description index -> Nil or a Match
  pc,            \* "start", "match", "required", "compare" or "done"
  result         \* OK, an error sentinel name or Panic once pc = "done"

vars == << descriptions, len, ops, matches, pc, result >>

Descs == descriptions.OperationDescriptions
DescIndex == DOMAIN Descs

IsInteger(v) == v # NotInteger

(* types.AmountValue succeeds.                                              *)
AmountValueOK(amount) == amount # Nil /\ IsInteger(amount.value)

FirstError(checks) ==
  LET failed == {k \in DOMAIN checks : checks[k] # OK}
  IN  IF failed = {} THEN OK ELSE checks[Min(failed)]

-----------------------------------------------------------------------------
(* Matchers of one operation against one description.                      *)

(* AmountSign.Match                                                         *)
SignMatch(s, amount) ==
  \/ s = AnySign
  \/ /\ AmountValueOK(amount)
     /\ \/ s = NegativeSign /\ amount.value < 0
        \/ s = PositiveSign /\ amount.value > 0
        \/ s = PositiveOrZeroSign /\ amount.value >= 0
        \/ s = NegativeOrZeroSign /\ amount.value <= 0

(* metadataMatch: the requirements in order; a present key whose value is  *)
(* nil makes reflect.TypeOf(val).Kind() dereference a nil Type.            *)
metadataMatch(reqs, metadata) ==
  FirstError([k \in DOMAIN reqs |->
    CASE reqs[k].key \notin DOMAIN metadata       -> Mismatch
      [] metadata[reqs[k].key] = Nil              -> Panic
      [] metadata[reqs[k].key] # reqs[k].kind     -> Mismatch
      [] OTHER                                    -> OK])

verifySubAccountAddress(address, sub) ==
  IF address # "" /\ sub.address # address THEN Mismatch ELSE OK

accountMatch(req, account) ==
  CASE req = Nil                       -> OK
    [] account = Nil                   -> IF req.exists THEN Mismatch ELSE OK
    [] req.subAccountOptional          ->
         IF account.subAccount # Nil
         THEN verifySubAccountAddress(req.subAccountAddress, account.subAccount)
         ELSE OK
    [] account.subAccount = Nil        -> IF req.subAccountExists THEN Mismatch ELSE OK
    [] ~req.subAccountExists           -> Mismatch
    [] OTHER                           ->
         FirstError(<< verifySubAccountAddress(req.subAccountAddress, account.subAccount),
                       metadataMatch(req.subAccountMetadataKeys,
                                     account.subAccount.metadata) >>)

amountMatch(req, amount) ==
  CASE req = Nil                           -> OK
    [] amount = Nil                        -> IF req.exists THEN Mismatch ELSE OK
    [] ~req.exists                         -> Mismatch
    [] ~SignMatch(req.sign, amount)        -> Mismatch
    [] req.currency = Nil                  -> OK
    [] amount.currency # req.currency      -> Mismatch
    [] OTHER                               -> OK

coinActionMatch(action, coinChange) ==
  CASE action = ""                       -> OK
    [] coinChange = Nil                  -> Mismatch
    [] coinChange.coinAction # action    -> Mismatch
    [] OTHER                             -> OK

(* Variant of DescriptionOutcome that never skips a description already   *)
(* matched, whatever its AllowRepeats flag.                                *)
DescriptionOutcomeNoSkip(d, op, m) ==
  LET des == Descs[d] IN
  CASE des.type # "" /\ des.type # op.type       -> Mismatch
    [] OTHER ->
         LET checks == FirstError(<< accountMatch(des.account, op.account),
                                     amountMatch(des.amount, op.amount),
                                     metadataMatch(des.metadata, op.metadata),
                                     coinActionMatch(des.coinAction, op.coinChange) >>)
         IN  IF checks # OK THEN checks
             ELSE IF op.amount # Nil /\ ~AmountValueOK(op.amount) THEN Unparsed
             ELSE OK

(* One iteration of operationMatch's loop over descriptions: skipped,     *)
(* rejected (continue), a panic, a match, or Unparsed: every check passed, *)
(* the Match was created, then parsing the amount failed and the loop     *)
(* continued with the Match left in place.                                  *)
DescriptionOutcome(d, op, m) ==
  LET des == Descs[d] IN
  CASE m[d] # Nil /\ ~des.allowRepeats          -> "skip"
    [] des.type # "" /\ des.type # op.type       -> Mismatch
    [] OTHER ->
         LET checks == FirstError(<< accountMatch(des.account, op.account),
                                     amountMatch(des.amount, op.amount),
                                     metadataMatch(des.metadata, op.metadata),
                                     coinActionMatch(des.coinAction, op.coinChange) >>)
         IN  IF checks # OK THEN checks
             ELSE IF op.amount # Nil /\ ~AmountValueOK(op.amount) THEN Unparsed
             ELSE OK

EmptyMatch == [operations |-> <<>>, amounts |-> <<>>]

(* Variant of operationMatch that gives up on the operation at the first  *)
(* description it fails (return false where the loop has continue).       *)
operationMatchGiveUp(op, pos, m) ==
  LET outcome == [d \in DescIndex |-> DescriptionOutcome(d, op, m)]
      stops   == {d \in DescIndex : outcome[d] # "skip"}
      first   == IF stops = {} THEN Nil ELSE Min(stops)
      scanned == {d \in DescIndex : first = Nil \/ d < first}
      created == {d \in scanned : outcome[d] = Unparsed /\ m[d] = Nil}
      m1      == [d \in DescIndex |-> IF d \in created THEN EmptyMatch ELSE m[d]]
      amount  == IF op.amount = Nil THEN Nil ELSE op.amount.value
      base    == IF first # Nil /\ m1[first] # Nil THEN m1[first] ELSE EmptyMatch
  IN  CASE first = Nil \/ outcome[first] \notin {OK, Panic}
                                -> [found |-> "none", matches |-> m1]
        [] outcome[first] = Panic -> [found |-> Panic, matches |-> m1]
        [] OTHER ->
             [found |-> "found",
              matches |-> [m1 EXCEPT ![first] =
                 [operations |-> Append(base.operations, pos),
                  amounts    |-> Append(base.amounts, amount)]]]

(* operationMatch for the operation at position pos: the matches it       *)
(* leaves and whether it returned true (or panicked).                       *)
operationMatch(op, pos, m) ==
  LET outcome == [d \in DescIndex |-> DescriptionOutcome(d, op, m)]
      stops   == {d \in DescIndex : outcome[d] \in {OK, Panic}}
      first   == IF stops = {} THEN Nil ELSE Min(stops)
      scanned == {d \in DescIndex : first = Nil \/ d < first}
      created == {d \in scanned : outcome[d] = Unparsed /\ m[d] = Nil}
      m1      == [d \in DescIndex |-> IF d \in created THEN EmptyMatch ELSE m[d]]
      amount  == IF op.amount = Nil THEN Nil ELSE op.amount.value
      base    == IF first # Nil /\ m1[first] # Nil THEN m1[first] ELSE EmptyMatch
  IN  CASE first = Nil            -> [found |-> "none", matches |-> m1]
        [] outcome[first] = Panic -> [found |-> Panic, matches |-> m1]
        [] OTHER ->
             [found |-> "found",
              matches |-> [m1 EXCEPT ![first] =
                 [operations |-> Append(base.operations, pos),
                  amounts    |-> Append(base.amounts, amount)]]]

-----------------------------------------------------------------------------
(* Group constraints, on the operations of the matched groups.             *)

OpsOf(m, d) == [k \in DOMAIN m[d].operations |-> ops[m[d].operations[k] + 1]]

equalAmounts(s) ==
  IF s = <<>> THEN "ErrEqualAmountsNoOperations"
  ELSE FirstError([k \in DOMAIN s |->
         CASE ~AmountValueOK(s[1].amount)          -> "ErrAmountValueInvalid"
           [] ~AmountValueOK(s[k].amount)          -> "ErrAmountValueInvalid"
           [] s[k].amount.value # s[1].amount.value -> "ErrEqualAmountsNotEqual"
           [] OTHER                                -> OK])

(* equalAddresses: the base address is the first non-empty one seen.      *)
equalAddresses(s) ==
  LET step(acc, op) ==
        CASE acc.err # OK           -> acc
          [] op.account = Nil       -> [acc EXCEPT !.err = "ErrEqualAddressesAccountIsNil"]
          [] acc.base = ""          -> [acc EXCEPT !.base = op.account.address]
          [] acc.base # op.account.address
                                    -> [acc EXCEPT !.err = "ErrEqualAddressesAddrMismatch"]
          [] OTHER                  -> acc
  IN  IF Len(s) <= 1 THEN "ErrEqualAddressesTooFewOperations"
      ELSE FoldLeft(step, [base |-> "", err |-> OK], s).err

Sgn(v) == IF v > 0 THEN 1 ELSE IF v < 0 THEN -1 ELSE 0
Abs(v) == IF v < 0 THEN -v ELSE v

oppositeAmounts(a, b) ==
  CASE ~AmountValueOK(a.amount) \/ ~AmountValueOK(b.amount) -> "ErrAmountValueInvalid"
    [] Sgn(a.amount.value) = Sgn(b.amount.value)             -> "ErrOppositeAmountsSameSign"
    [] Abs(a.amount.value) # Abs(b.amount.value)             -> "ErrOppositeAmountsAbsValMismatch"
    [] OTHER                                                 -> OK

oppositeOrZeroAmounts(a, b) ==
  IF AmountValueOK(a.amount) /\ AmountValueOK(b.amount)
     /\ a.amount.value = 0 /\ b.amount.value = 0
  THEN OK ELSE oppositeAmounts(a, b)

(* Only index >= len(matches) is caught: a negative index reaches          *)
(* matches[index], which panics.                                           *)
matchIndexValid(m, index) ==
  CASE index >= Cardinality(DOMAIN m) -> "ErrMatchIndexValidIndexOutOfRange"
    [] index < 0                      -> Panic
    [] m[index] = Nil                 -> "ErrMatchIndexValidIndexIsNil"
    [] OTHER                          -> OK

(* The group checker passed to checkOps, named by its Go function.      *)
GroupChecker(valid, s) ==
  IF valid = "equalAmounts" THEN equalAmounts(s) ELSE equalAddresses(s)

(* The pair checker passed to compareOppositeMatches.                    *)
PairChecker(amountChecker, a, b) ==
  IF amountChecker = "oppositeAmounts" THEN oppositeAmounts(a, b)
  ELSE oppositeOrZeroAmounts(a, b)

checkOps(requests, m, valid) ==
  FirstError([r \in DOMAIN requests |->
    LET batch == requests[r]
        bad   == FirstError([k \in DOMAIN batch |-> matchIndexValid(m, batch[k])])
    IN  IF bad # OK THEN bad
        ELSE GroupChecker(valid, FoldLeft(LAMBDA acc, d : acc \o OpsOf(m, d), <<>>, batch))])

(* Variant of compareOppositeMatches that compares the first operations   *)
(* of the two groups without first checking each group has equal amounts. *)
compareOppositeMatchesFirstOnly(pairs, m, amountChecker) ==
  FirstError([r \in DOMAIN pairs |->
    LET pair == pairs[r]
        valid0 == matchIndexValid(m, pair[1])
        valid1 == matchIndexValid(m, pair[2])
    IN  CASE Len(pair) # 2 -> "ErrOppositesLength"
          [] valid0 # OK   -> valid0
          [] valid1 # OK   -> valid1
          [] OpsOf(m, pair[1]) = <<>> \/ OpsOf(m, pair[2]) = <<>> -> Panic
          [] OTHER -> PairChecker(amountChecker, OpsOf(m, pair[1])[1], OpsOf(m, pair[2])[1])])

compareOppositeMatches(pairs, m, amountChecker) ==
  FirstError([r \in DOMAIN pairs |->
    LET pair == pairs[r]
        valid0 == matchIndexValid(m, pair[1])
        valid1 == matchIndexValid(m, pair[2])
    IN  CASE Len(pair) # 2 -> "ErrOppositesLength"
          [] valid0 # OK   -> valid0
          [] valid1 # OK   -> valid1
          [] OTHER ->
               LET ops0 == OpsOf(m, pair[1])
                   ops1 == OpsOf(m, pair[2])
               IN  FirstError(<<
                     equalAmounts(ops0),
                     equalAmounts(ops1),
                     IF ops0 = <<>> \/ ops1 = <<>> THEN OK
                     ELSE PairChecker(amountChecker, ops0[1], ops1[1]) >>)])

comparisonMatch(des, m) ==
  FirstError(<<
    checkOps(des.EqualAmounts, m, "equalAmounts"),
    checkOps(des.EqualAddresses, m, "equalAddresses"),
    compareOppositeMatches(des.OppositeAmounts, m, "oppositeAmounts"),
    compareOppositeMatches(des.OppositeOrZeroAmounts, m, "oppositeOrZeroAmounts") >>)

-----------------------------------------------------------------------------
(* The call.                                                               *)

Init ==
  /\ descriptions \in DescriptionSets
  /\ len \in 0 .. MaxOps
  /\ ops = <<>>
  /\ matches = [d \in DescIndex |-> Nil]
  /\ pc = "start"
  /\ result = Nil

Return(r) == pc' = "done" /\ result' = r

(* Lines 703-712: empty operations or descriptions are errors.            *)
Start ==
  /\ pc = "start"
  /\ CASE len = 0       -> Return("ErrMatchOperationsNoOperations")
       [] DescIndex = {} -> Return("ErrMatchOperationsDescriptionsMissing")
       [] OTHER         -> pc' = "match" /\ UNCHANGED result
  /\ UNCHANGED << descriptions, len, ops, matches >>

(* Variant of MatchOperation whose bound is <= instead of <.              *)
MatchOperationPastEnd ==
  /\ pc = "match"
  /\ Len(ops) <= len
  /\ \E op \in OperationShapes :
       LET r == operationMatch(op, Len(ops), matches) IN
       /\ ops' = Append(ops, op)
       /\ matches' = r.matches
       /\ CASE r.found = Panic -> Return(Panic)
            [] r.found = "none" /\ descriptions.ErrUnmatched
                               -> Return("ErrMatchOperationsMatchNotFound")
            [] OTHER           -> UNCHANGED << pc, result >>
  /\ UNCHANGED << descriptions, len >>

(* Lines 715-724: operationMatch for the next operation.                  *)
MatchOperation ==
  /\ pc = "match"
  /\ Len(ops) < len
  /\ \E op \in OperationShapes :
       LET r == operationMatch(op, Len(ops), matches) IN
       /\ ops' = Append(ops, op)
       /\ matches' = r.matches
       /\ CASE r.found = Panic -> Return(Panic)
            [] r.found = "none" /\ descriptions.ErrUnmatched
                               -> Return("ErrMatchOperationsMatchNotFound")
            [] OTHER           -> UNCHANGED << pc, result >>
  /\ UNCHANGED << descriptions, len >>

(* Lines 726-735: every description that is not optional has a Match.     *)
RequireMatches ==
  /\ pc = "match"
  /\ Len(ops) = len
  /\ IF \E d \in DescIndex : matches[d] = Nil /\ ~Descs[d].optional
     THEN Return("ErrMatchOperationsDescriptionNotMatched")
     ELSE pc' = "compare" /\ UNCHANGED result
  /\ UNCHANGED << descriptions, len, ops, matches >>

(* Lines 737-743: comparisonMatch, then the matches are returned.         *)
CompareMatches ==
  /\ pc = "compare"
  /\ Return(comparisonMatch(descriptions, matches))
  /\ UNCHANGED << descriptions, len, ops, matches >>

Returned == pc = "done" /\ UNCHANGED vars

Next == Start \/ MatchOperation \/ RequireMatches \/ CompareMatches \/ Returned

Spec == Init /\ [][Next]_vars
          /\ WF_vars(Start \/ MatchOperation \/ RequireMatches \/ CompareMatches)

-----------------------------------------------------------------------------
(* Properties of a successful call.                                        *)

Success == pc = "done" /\ result = OK

Group(d) == IF matches[d] = Nil THEN <<>> ELSE matches[d].operations
GroupOps(d) == IF matches[d] = Nil THEN <<>> ELSE OpsOf(matches, d)
BatchOps(batch) == UNION {Range(GroupOps(batch[k])) : k \in DOMAIN batch}
Value(op) == op.amount.value

(* The Match slice MatchOperations returns has one entry per description  *)
(* (spec 4.2): a description that is not Optional has at least one       *)
(* matched operation, so Match.First() finds one; a description without   *)
(* AllowRepeats has at most one; with ErrUnmatched every operation is in   *)
(* some group.                                                             *)
MatchesCoverDescriptions ==
  Success =>
    /\ \A d \in DescIndex : ~Descs[d].optional => Group(d) # <<>>
    /\ \A d \in DescIndex : ~Descs[d].allowRepeats => Len(Group(d)) <= 1
    /\ descriptions.ErrUnmatched =>
         \A p \in 0 .. len - 1 : \E d \in DescIndex : p \in Range(Group(d))

(* The group constraints hold of every operation of the referenced groups, *)
(* not only of the first one (spec 4.2): EqualAmounts groups share one     *)
(* amount; EqualAddresses groups hold at least two operations with one      *)
(* address; OppositeAmounts pairs hold v and -v with v # 0 throughout;     *)
(* OppositeOrZeroAmounts pairs hold v and -v.                              *)
GroupConstraintsHold ==
  LET des == descriptions IN
  Success =>
    /\ \A r \in DOMAIN des.EqualAmounts :
         LET S == BatchOps(des.EqualAmounts[r]) IN
         S # {} /\ \A a, b \in S : AmountValueOK(a.amount) /\ Value(a) = Value(b)
    /\ \A r \in DOMAIN des.EqualAddresses :
         LET batch == des.EqualAddresses[r]
             S == BatchOps(batch)
         IN  /\ FoldLeft(LAMBDA n, d : n + Len(Group(d)), 0, batch) >= 2
             /\ \A a, b \in S : a.account # Nil /\ a.account.address = b.account.address
    /\ \A r \in DOMAIN des.OppositeAmounts :
         LET pair == des.OppositeAmounts[r] IN
         /\ GroupOps(pair[1]) # <<>> /\ GroupOps(pair[2]) # <<>>
         /\ \A a \in Range(GroupOps(pair[1])), b \in Range(GroupOps(pair[2])) :
              Value(a) = -Value(b) /\ Value(a) # 0
    /\ \A r \in DOMAIN des.OppositeOrZeroAmounts :
         LET pair == des.OppositeOrZeroAmounts[r] IN
         /\ GroupOps(pair[1]) # <<>> /\ GroupOps(pair[2]) # <<>>
         /\ \A a \in Range(GroupOps(pair[1])), b \in Range(GroupOps(pair[2])) :
              Value(a) = -Value(b)

(* The description an operation fits when it is free: every matcher       *)
(* accepts it and its amount, if any, parses.                              *)
Fits(d, op) ==
  LET des == Descs[d] IN
  /\ des.type = "" \/ des.type = op.type
  /\ accountMatch(des.account, op.account) = OK
  /\ amountMatch(des.amount, op.amount) = OK
  /\ metadataMatch(des.metadata, op.metadata) = OK
  /\ coinActionMatch(des.coinAction, op.coinChange) = OK
  /\ op.amount = Nil \/ AmountValueOK(op.amount)

(* Description d is still open to the operation at position p: it allows  *)
(* repeats, or no earlier operation was matched to it.                     *)
Open(d, p) == Descs[d].allowRepeats \/ \A q \in Range(Group(d)) : q >= p

(* The description the operation at position p was matched to, or Nil.    *)
PlacedIn(p) ==
  IF \E d \in DescIndex : p \in Range(Group(d))
  THEN CHOOSE d \in DescIndex : p \in Range(Group(d)) ELSE Nil

(* The matching pass is greedy first fit (spec 4.2), stated over the whole *)
(* history rather than the loop of lines 353-393: every operation the     *)
(* pass has reached is in the lowest-indexed description that was open to *)
(* it when it was reached and that it fits, and in none if there is no    *)
(* such description.  Whether a description is open depends on the       *)
(* operations placed before, so the statement relates each placement to   *)
(* all earlier ones.                                                       *)
MatchIsGreedyFirstFit ==
  result # Panic =>
    \A p \in 0 .. Len(ops) - 1 :
      LET op == ops[p + 1]
          candidates == {d \in DescIndex : Open(d, p) /\ Fits(d, op)}
      IN  PlacedIn(p) = (IF candidates = {} THEN Nil ELSE Min(candidates))

(* MatchOperations never panics: it returns matches or an error for every  *)
(* operation slice.                                                        *)
MatchNeverPanics == result # Panic

TypeOK ==
  /\ descriptions \in DescriptionSets
  /\ len \in 0 .. MaxOps
  /\ ops \in Seq(OperationShapes) /\ Len(ops) <= len
  /\ DOMAIN matches = DescIndex
  /\ \A d \in DescIndex :
       matches[d] = Nil \/
       /\ matches[d].operations \in Seq(0 .. len - 1)
       /\ Len(matches[d].amounts) = Len(matches[d].operations)
  /\ pc \in {"start", "match", "compare", "done"}
  /\ (pc = "done") = (result # Nil)

=============================================================================
