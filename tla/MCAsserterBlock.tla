--------------------------- MODULE MCAsserterBlock ---------------------------
(***************************************************************************)
(* Asserter.Block over blocks of up to MaxTxs transactions of up to       *)
(* MaxOps operations, each at index 0 or 1.  Block identifiers with index *)
(* 1 are set against parents with an equal or a smaller index and an      *)
(* equal or a different hash; genesis indexes unset, equal to and         *)
(* different from the block's; timestamp start indexes below and above    *)
(* the block's index; timestamps on both sides of both ends of the scaled *)
(* window.                                                                 *)
(***************************************************************************)
EXTENDS AsserterBlock

MCOperationTypes    == {"PAYMENT", "FEE", "OTHER"}
MCOperationStatuses == {"SUCCESS"}

GoodAccount  == [address |-> "A", subAccount |-> Nil]

Op(index, type, value, related) ==
  [id |-> [index |-> index, networkIndex |-> Nil], type |-> type,
   status |-> "SUCCESS", account |-> GoodAccount,
   amount |-> IF value = Nil THEN Nil
              ELSE [value |-> value, currency |-> [symbol |-> "BTC", decimals |-> 8]],
   coinChange |-> Nil, related |-> related]

(* A payment and a fee at either of two positions, an operation without  *)
(* amount, one with an unknown type, and a nil operation.                  *)
MCOperationShapes ==
  { Op(i, t, v, Nil) : i \in {0, 1}, <<t, v>> \in {<<"PAYMENT", 1>>, <<"FEE", -1>>} }
  \cup { Op(0, "OTHER", Nil, Nil), Op(0, "BOGUS", 1, Nil), Nil }

Rule(name, count, balance) ==
  [Name |-> name, Operation |-> [Count |-> count, ShouldBalance |-> balance]]

(* An account chain whose every transaction has exactly one payment.      *)
MCProfiles ==
  { [Enabled |-> TRUE, ChainType |-> "account",
     Payment |-> Rule("PAYMENT", 1, FALSE), Fee |-> Rule("FEE", -1, FALSE),
     RelatedOpsExists |-> FALSE] }

BlockId(hash, index) == [hash |-> hash, index |-> index]

MCBlocks ==
  {Nil} \cup
  [id        : {Nil, BlockId("", 1), BlockId("B", -1), BlockId("B", 1), BlockId("A", 1)},
   parent    : {Nil, BlockId("A", 0), BlockId("A", 1)},
   timestamp : {MinUnixEpoch - 1, MinUnixEpoch, MaxUnixEpoch, MaxUnixEpoch + 1}]

TxId(hash) == [hash |-> hash]

Rel(network, id, direction) ==
  [network |-> network, id |-> id, direction |-> direction]

GoodRel  == Rel(Nil, TxId("t0"), "forward")
GoodRel2 == Rel([valid |-> TRUE], TxId("t0"), "backward")

MCRelatedLists ==
  { <<>>, <<GoodRel>>, <<GoodRel, GoodRel>>, <<GoodRel, GoodRel2>>,
    <<Rel([valid |-> FALSE], TxId("t0"), "forward")>>,
    <<Rel(Nil, TxId(""), "forward")>>,
    <<GoodRel, Rel(Nil, TxId("t0"), "sideways")>> }

Tx(hash, related) == [id |-> IF hash = Nil THEN Nil ELSE TxId(hash), related |-> related]

MCTransactions ==
  {Nil, Tx(Nil, <<>>), Tx("", <<>>)} \cup {Tx("t1", r) : r \in MCRelatedLists}

(* Adds a transaction whose related transactions hold a null entry.       *)
NullRelatedTransactions ==
  MCTransactions \cup {Tx("t1", <<Nil>>), Tx("t1", <<GoodRel, Nil>>)}

=============================================================================
