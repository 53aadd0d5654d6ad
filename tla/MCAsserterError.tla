---------------------------- MODULE MCAsserterError ----------------------------
(***************************************************************************)
(* Every catalog over codes 0 and 1 with messages "m" and "x" and both     *)
(* retriable flags, in strict and lenient mode, and the nil receiver;      *)
(* errors with a negative, known and unknown code, an empty, catalogued    *)
(* and other message, and both flags.                                      *)
(***************************************************************************)
EXTENDS AsserterError

Entries == [message : {"m", "x"}, retriable : BOOLEAN]

Catalogs == UNION { [D -> Entries] : D \in SUBSET {0, 1} }

MCAsserters ==
  {Nil} \cup [errorTypeMap : Catalogs, ignoreSpec : BOOLEAN]

MCErrors ==
  {Nil} \cup [code : {-1, 0, 1, 2}, message : {"", "m", "x"}, retriable : BOOLEAN]

=============================================================================
