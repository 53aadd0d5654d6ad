---------------------- MODULE MCParserMatchOperations ----------------------
(***************************************************************************)
(* MatchOperations over slices of up to MaxOps operations, for four        *)
(* Descriptions of the kinds integrations write: a transfer (a repeated   *)
(* debit opposite one credit), a fee and payment set with optional        *)
(* descriptions and zero amounts, a sub-account / metadata / coin-action  *)
(* description, and groups that refer to unmatched or missing              *)
(* descriptions.                                                           *)
(***************************************************************************)
EXTENDS ParserMatchOperations

BTC == [symbol |-> "BTC", decimals |-> 8]
ETH == [symbol |-> "ETH", decimals |-> 18]

Key(key, kind) == [key |-> key, kind |-> kind]

AccountDesc(exists, subOptional, subExists, subAddress, subKeys) ==
  [exists |-> exists, subAccountOptional |-> subOptional,
   subAccountExists |-> subExists, subAccountAddress |-> subAddress,
   subAccountMetadataKeys |-> subKeys]

AmountDesc(exists, sign, currency) ==
  [exists |-> exists, sign |-> sign, currency |-> currency]

Desc(type, account, amount, metadata, coinAction, repeats, optional) ==
  [type |-> type, account |-> account, amount |-> amount,
   metadata |-> metadata, coinAction |-> coinAction,
   allowRepeats |-> repeats, optional |-> optional]

(* A Go slice of descriptions, indexed from 0.                              *)
Slice(s) == [i \in 0 .. Len(s) - 1 |-> s[i + 1]]

Descriptions(ds, equal, addresses, opposite, oppositeOrZero, errUnmatched) ==
  [OperationDescriptions |-> Slice(ds), EqualAmounts |-> equal,
   EqualAddresses |-> addresses, OppositeAmounts |-> opposite,
   OppositeOrZeroAmounts |-> oppositeOrZero, ErrUnmatched |-> errUnmatched]

AnyAccount == AccountDesc(TRUE, FALSE, FALSE, "", <<>>)

Transfer ==
  Descriptions(<< Desc("transfer", AnyAccount, AmountDesc(TRUE, NegativeSign, Nil), <<>>, "", TRUE, FALSE),
                  Desc("transfer", AnyAccount, AmountDesc(TRUE, PositiveSign, Nil), <<>>, "", FALSE, FALSE) >>,
               <<>>, <<>>, << <<0, 1>> >>, <<>>, TRUE)

FeeAndPayment ==
  Descriptions(<< Desc("fee", Nil, AmountDesc(TRUE, NegativeOrZeroSign, Nil), <<>>, "", FALSE, TRUE),
                  Desc("", AccountDesc(TRUE, TRUE, FALSE, "S", <<>>),
                       AmountDesc(TRUE, PositiveOrZeroSign, BTC), <<>>, "", FALSE, FALSE),
                  Desc("transfer", Nil, AmountDesc(TRUE, AnySign, Nil), <<>>, "", TRUE, TRUE) >>,
               << <<2>> >>, << <<1, 2>> >>, <<>>, << <<0, 1>> >>, FALSE)

SubAccountAndCoin ==
  Descriptions(<< Desc("", AccountDesc(TRUE, FALSE, TRUE, "S", << Key("k", "string") >>),
                       AmountDesc(TRUE, NegativeSign, Nil), << Key("m", "float64") >>,
                       "coin_spent", FALSE, FALSE),
                  Desc("", AccountDesc(TRUE, FALSE, FALSE, "", <<>>),
                       AmountDesc(TRUE, AnySign, Nil), <<>>, "", FALSE, FALSE) >>,
               <<>>, <<>>, <<>>, <<>>, FALSE)

BadGroups ==
  Descriptions(<< Desc("transfer", Nil, Nil, <<>>, "", FALSE, FALSE),
                  Desc("fee", Nil, Nil, <<>>, "", FALSE, TRUE) >>,
               << <<0>> >>, << <<0, 1>> >>, << <<0, 2>> >>, << <<0, 1, 0>> >>, FALSE)

MCDescriptionSets == {Transfer, FeeAndPayment, SubAccountAndCoin, BadGroups}

(* An EqualAmounts group naming description -1.                           *)
NegativeGroup ==
  Descriptions(<< Desc("transfer", Nil, Nil, <<>>, "", TRUE, FALSE) >>,
               << <<-1>> >>, <<>>, <<>>, <<>>, FALSE)

PanicDescriptionSets == MCDescriptionSets \cup {NegativeGroup}

Acct(address, sub) == [address |-> address, subAccount |-> sub]
Sub(address, metadata) == [address |-> address, metadata |-> metadata]
NoMetadata == [k \in {} |-> Nil]
Md(key, kind) == [k \in {key} |-> kind]

Op(type, account, amount, metadata, coin) ==
  [type |-> type, account |-> account, amount |-> amount,
   metadata |-> metadata, coinChange |-> coin]

Amt(v, c) == [value |-> v, currency |-> c]

(* Operations with integer amounts, non-empty addresses and metadata      *)
(* values that are not null; they also include a transfer with no account *)
(* and one with no amount, which the matcher must handle as well.          *)
ValidOperations ==
  {Op(t, a, Amt(v, BTC), NoMetadata, Nil) :
     t \in {"transfer", "fee"}, a \in {Acct("A", Nil), Acct("B", Nil)}, v \in {-1, 0, 1}}
  \cup
  { Op("transfer", Acct("A", Nil), Amt(-2, BTC), NoMetadata, Nil),
    Op("transfer", Acct("A", Nil), Amt(1, ETH), NoMetadata, Nil),
    Op("transfer", Acct("A", Nil), Nil, NoMetadata, Nil),
    Op("transfer", Nil, Amt(1, BTC), NoMetadata, Nil),
    Op("transfer", Acct("A", Sub("S", Md("k", "string"))), Amt(-1, BTC),
       Md("m", "float64"), [coinAction |-> "coin_spent"]),
    Op("transfer", Acct("A", Sub("S", Md("k", "float64"))), Amt(-1, BTC),
       Md("m", "float64"), [coinAction |-> "coin_spent"]),
    Op("transfer", Acct("A", Sub("T", NoMetadata)), Amt(1, BTC),
       Md("m", "string"), [coinAction |-> "coin_created"]) }

(* Operations as MatchOperations may receive them before validation: an    *)
(* amount that is not an integer, an empty address, a null metadata value. *)
UnparsedAmountOperations ==
  ValidOperations \cup {Op("transfer", Acct("A", Nil), Amt(NotInteger, BTC), NoMetadata, Nil)}

EmptyAddressOperations ==
  ValidOperations \cup {Op("transfer", Acct("", Nil), Amt(1, BTC), NoMetadata, Nil)}

NullMetadataOperations ==
  ValidOperations \cup
  {Op("transfer", Acct("A", Sub("S", Md("k", Nil))), Amt(-1, BTC),
      Md("m", "float64"), [coinAction |-> "coin_spent"])}

=============================================================================
