------------------------ MODULE MCBlockProviderSpec ------------------------
(***************************************************************************)
(* Model-checking instance of BlockProviderSpec: 3-bit block numbers, a   *)
(* history drawn from blocks 1..5 cut into up to three chunks, with and   *)
(* without neighbouring addresses, and every reference block including    *)
(* 0 and the largest BlockNum (the removeRange guard).                     *)
(***************************************************************************)
EXTENDS BlockProviderSpec

MCBlocks == 1..5
MCReferences == 0..MaxBlockNum
MCNeighbours == {{}, {Below, Above}, {Above}}

====
