------------------------ MODULE MCAsserterOperations ------------------------
(***************************************************************************)
(* Asserter.Operations over slices of up to MaxOps operations.  An        *)
(* operation is either well formed in every field (its identifier index   *)
(* ranging over all positions, so out-of-order slices occur) or it has     *)
(* exactly one faulty field.                                               *)
(***************************************************************************)
EXTENDS AsserterOperations

MCOperationTypes    == {"PAYMENT", "FEE", "OTHER"}
MCOperationStatuses == {"SUCCESS"}

GoodCurrency == [symbol |-> "BTC", decimals |-> 8]
GoodAccount  == [address |-> "A", subAccount |-> Nil]

(* Operations whose every field passes Asserter.Operation at the position *)
(* equal to their index, in the mode whose status they carry: payments    *)
(* and other operations with and without related operations, and fees     *)
(* with a negative amount and no related operations.                       *)
GoodOperation(type, amounts, related) ==
  [id         : [index : 0 .. MaxOps - 1, networkIndex : {Nil}],
   type       : {type},
   status     : {Nil, "SUCCESS"},
   account    : {GoodAccount},
   amount     : amounts,
   coinChange : {Nil},
   related    : related]

Amounts(values) == [value : values, currency : {GoodCurrency}]

GoodOperations ==
  GoodOperation("OTHER", {Nil} \cup Amounts({1}),
                {Nil, <<>>, <<0>>, <<1, 0>>, <<0, 0>>})
  \cup GoodOperation("PAYMENT", Amounts({-1, 1}), {Nil, <<0>>})
  \cup GoodOperation("FEE", Amounts({-1}), {Nil})

Base(i) ==
  [id |-> [index |-> i, networkIndex |-> Nil], type |-> "PAYMENT",
   status |-> "SUCCESS", account |-> GoodAccount,
   amount |-> [value |-> 1, currency |-> GoodCurrency],
   coinChange |-> Nil, related |-> Nil]

(* One faulty field each.                                                   *)
Faults(i) == {
  [Base(i) EXCEPT !.id = Nil],
  [Base(i) EXCEPT !.id.networkIndex = -1],
  [Base(i) EXCEPT !.type = ""],
  [Base(i) EXCEPT !.type = "BOGUS"],
  [Base(i) EXCEPT !.status = ""],
  [Base(i) EXCEPT !.status = "REVERTED"],
  [Base(i) EXCEPT !.account = Nil],
  [Base(i) EXCEPT !.account.address = ""],
  [Base(i) EXCEPT !.account.subAccount = ""],
  [Base(i) EXCEPT !.amount.value = EmptyValue],
  [Base(i) EXCEPT !.amount.value = NotInteger],
  [Base(i) EXCEPT !.amount.currency = Nil],
  [Base(i) EXCEPT !.amount.currency.symbol = ""],
  [Base(i) EXCEPT !.amount.currency.decimals = -1],
  [Base(i) EXCEPT !.coinChange = [coinAction |-> "coin_spent"]],
  [Base(i) EXCEPT !.coinChange = [coinAction |-> "bogus"]],
  [Base(i) EXCEPT !.type = "FEE", !.amount.value = 0],
  [Base(i) EXCEPT !.amount = Nil] }

MCOperationShapes ==
  GoodOperations \cup {Nil} \cup UNION {Faults(i) : i \in 0 .. MaxOps - 1}

(* Adds fee operations whose RelatedOperations is an empty, non-nil slice *)
(* (what "related_operations": [] decodes to).                             *)
EmptyRelatedFeeShapes ==
  MCOperationShapes \cup
  {[Base(i) EXCEPT !.type = "FEE", !.amount.value = -1, !.related = <<>>] : i \in 0 .. MaxOps - 1}

Rule(name, count, balance) ==
  [Name |-> name, Operation |-> [Count |-> count, ShouldBalance |-> balance]]

Profile(enabled, chain, payment, fee, related) ==
  [Enabled |-> enabled, ChainType |-> chain, Payment |-> payment,
   Fee |-> fee, RelatedOpsExists |-> related]

MCProfiles == {
  Profile(FALSE, Account, Rule("PAYMENT", -1, TRUE), Rule("FEE", 1, FALSE), FALSE),
  Profile(TRUE,  Account, Rule("PAYMENT", -1, TRUE), Rule("FEE", 1, FALSE), FALSE),
  Profile(TRUE,  Account, Rule("PAYMENT", 2, FALSE), Rule("FEE", -1, TRUE), TRUE),
  Profile(TRUE,  UTXO,    Rule("PAYMENT", 1, TRUE),  Rule("FEE", 1, FALSE), TRUE) }

=============================================================================
