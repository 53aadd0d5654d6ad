----------------------- MODULE MCAsserterConstruction -----------------------
(***************************************************************************)
(* Every construction validator over responses with each field present,   *)
(* missing and malformed, and lists of up to MaxElems elements.  The parse *)
(* response carries up to MaxOps operations in construction mode (empty   *)
(* status), checked under a disabled and an enabled validation profile.   *)
(***************************************************************************)
EXTENDS AsserterConstruction

MCOperationTypes    == {"PAYMENT", "FEE", "OTHER"}
MCOperationStatuses == {"SUCCESS"}

GoodAccount  == [address |-> "A", subAccount |-> Nil]
OtherAccount == [address |-> "B", subAccount |-> Nil]
NoAddress    == [address |-> "", subAccount |-> Nil]

BTC == [symbol |-> "BTC", decimals |-> 8]
ETH == [symbol |-> "ETH", decimals |-> 18]

Op(index, type, status, value) ==
  [id |-> [index |-> index, networkIndex |-> Nil], type |-> type,
   status |-> status, account |-> GoodAccount,
   amount |-> IF value = Nil THEN Nil ELSE [value |-> value, currency |-> BTC],
   coinChange |-> Nil, related |-> Nil]

(* Construction-mode operations (no status) at index 0, and a payment and *)
(* a fee at index 1 so that a second operation can be in order; one with  *)
(* a status, one of an unknown type, and a nil operation.                 *)
MCOperationShapes ==
  { Op(0, "PAYMENT", "", 1), Op(0, "FEE", Nil, -1), Op(0, "OTHER", "", Nil),
    Op(1, "PAYMENT", "", 1), Op(1, "FEE", "", -1),
    Op(0, "PAYMENT", "SUCCESS", 1), Op(0, "BOGUS", "", 1), Nil }

Rule(name, count, balance) ==
  [Name |-> name, Operation |-> [Count |-> count, ShouldBalance |-> balance]]

MCProfiles ==
  { [Enabled |-> FALSE, ChainType |-> "account",
     Payment |-> Rule("PAYMENT", -1, FALSE), Fee |-> Rule("FEE", -1, FALSE),
     RelatedOpsExists |-> FALSE],
    [Enabled |-> TRUE, ChainType |-> "account",
     Payment |-> Rule("PAYMENT", 1, FALSE), Fee |-> Rule("FEE", -1, FALSE),
     RelatedOpsExists |-> FALSE] }

Accounts == {Nil, GoodAccount, OtherAccount, NoAddress}

Fee(value, currency) == [value |-> value, currency |-> currency]

MCResponses ==
  [ c \in Calls |->
      {Nil} \cup
      CASE c = "Preprocess"   -> {[kind |-> c]}
        [] c = "Metadata"     -> [metadata : {Nil, "object"},
                                  suggestedFee : { <<>>, <<Fee(1, BTC)>>,
                                                   <<Fee(1, BTC), Fee(2, ETH)>>,
                                                   <<Fee(1, BTC), Fee(2, BTC)>>,
                                                   <<Fee(EmptyValue, BTC)>> }]
        [] c = "TxIdentifier" -> [id : {Nil, [hash |-> ""], [hash |-> "t"]}]
        [] c = "Combine"      -> [signedTx : {"", "s"}]
        [] c = "Derive"       -> [account : Accounts]
        [] c = "Parse"        -> {[kind |-> c]}
        [] c = "Payloads"     -> [unsignedTx : {"", "u"}]
        [] c = "Signatures"   -> {} ]

Payload(account, bytes, sigType) ==
  [account |-> account, bytes |-> bytes, sigType |-> sigType]

MCPayloads ==
  {Nil, Payload(NoAddress, "data", ""), Payload(GoodAccount, "empty", ""),
   Payload(GoodAccount, "zero", ""), Payload(GoodAccount, "data", ""),
   Payload(GoodAccount, "data", "ecdsa"), Payload(GoodAccount, "data", "bogus")}

Key(bytes, curve) == [bytes |-> bytes, curve |-> curve]

(* Signatures over a payload that requests no type, one that requests     *)
(* ecdsa and one that is invalid; keys and bytes of every kind; and a nil *)
(* entry.                                                                  *)
MCSignatures ==
  {Nil} \cup
  [payload   : {Payload(GoodAccount, "data", ""), Payload(GoodAccount, "data", "ecdsa"),
                Payload(GoodAccount, "zero", "")},
   publicKey : {Nil, Key("data", "secp256k1"), Key("zero", "secp256k1"),
                Key("data", "bogus")},
   sigType   : {"ecdsa", "ed25519", "bogus"},
   bytes     : {"empty", "zero", "data"}]

MCElements ==
  [ c \in Calls |->
      CASE c \in {"Preprocess", "Parse"} -> Accounts
        [] c = "Payloads"                -> MCPayloads
        [] c = "Signatures"              -> MCSignatures
        [] OTHER                         -> {} ]

=============================================================================
