----------------------------- MODULE MCOtsCreator -----------------------------
(***************************************************************************)
(* Model-checking instance of OtsCreator: 3-bit block numbers, a history  *)
(* drawn from blocks 1..3 in up to two chunks with every possible          *)
(* sequence of deployments, self-destructs and other changes, and next to *)
(* the address in PlainState nothing, an account without code or a       *)
(* contract of incarnation 1 or 2.                                         *)
(***************************************************************************)
EXTENDS OtsCreator

MCBlocks == 1..3
MCNeighbours == {{}, {Above}}
MCOtherAccounts == {NoAccount, Account(0, FALSE), Account(1, TRUE), Account(2, TRUE)}

=============================================================================
