----------------------------- MODULE MCRpcRequest -----------------------------
(***************************************************************************)
(* Model-checking instance of RpcRequest: a 3-bit size_t, blocks of up to *)
(* three transactions, page sizes and numbers whose products stay below   *)
(* 2^3 (pages past the start of the block, partial pages and page size 0 *)
(* all occur), and chains of one to four headers with strictly increasing *)
(* timestamps below 2^3, asked for every timestamp in that range and -1. *)
(***************************************************************************)
EXTENDS RpcRequest

MCPageSizes == 0..2
MCPageNumbers == 0..3
MCChains == {[b \in 0..0 |-> 3], [b \in 0..2 |-> 2 * b + 1], [b \in 0..3 |-> 2 * b], [b \in 0..3 |-> b + 3]}
MCTimestampParams == -1..7

=============================================================================
