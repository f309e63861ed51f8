----------------------------- MODULE MCOtsSearch -----------------------------
(***************************************************************************)
(* Model-checking instance of OtsSearch: 3-bit block numbers, each index  *)
(* holding a history drawn from blocks 1..3 in up to two chunks, one or   *)
(* two matches per block, kMaxPageSize = 2 with page sizes 0..3 (3 is     *)
(* rejected).  "before" with reference 0 is left out: its meaning rests   *)
(* on the BackwardBlockProvider constructor, which is not in the source.  *)
(***************************************************************************)
EXTENDS OtsSearch

MCBlocks == 1..3
MCNeighbours == {{}}
MCTxCounts == 1..2

\* Every request whose reference lies below the largest block number.
MCRequests ==
  {r \in [dir : {"before", "after"}, block : 0..(MaxBlockNum - 1), pageSize : 0..3] :
     ~(r.dir = "before" /\ r.block = 0)}

\* "after" requests at the largest block number.
MCRequestsAtMax ==
  [dir : {"after"}, block : {MaxBlockNum}, pageSize : 1..2]

====
