------------------------------ MODULE Receipts ------------------------------
(***************************************************************************)
(* The receipts of a block as the rpc handlers read them                   *)
(* (silkworm/rpc/core/receipts.cpp).                                       *)
(*                                                                         *)
(* A block is given by what its transactions left in the store: for the   *)
(* i-th transaction the gas it used and how many logs it emitted.         *)
(* BlockReceipts holds, under the block number, the receipts with their    *)
(* cumulative_gas_used; Logs holds, under block ++ tx_id, the logs of one *)
(* transaction.  A log is abstracted to which transaction emitted it and  *)
(* its position there; the bloom, the hashes, the sender and the contract *)
(* address are copied or computed from the block and are left out.        *)
(***************************************************************************)
EXTENDS Integers, Sequences, Functions, TLC

\* What the store holds for one transaction: the gas it used and its logs.
TxReceipt(gas, nlogs) == [gas |-> gas, logs |-> nlogs]

\* cumulative_gas_used of the i-th receipt as execution stored it.
Cumulative(rc, i) == SumFunctionOnSet([k \in DOMAIN rc |-> rc[k].gas], 1..i)

\* The j-th log of transaction i as cbor_decode reads it from Logs.
StoredLog(i, j) == [tx |-> i - 1, pos |-> j]

\* The outcome of a read: std::nullopt ("none"), the receipts ("ok"), or
\* the runtime_error of a count mismatch ("throw").
Outcome(status, val) == [status |-> status, val |-> val]

(* read_raw_receipts: nullopt when the BlockReceipts entry is empty;       *)
(* otherwise the decoded receipts and, unless there are none, the walk    *)
(* over the block's Logs entries in key order, each decoded into          *)
(* receipts[tx_id].logs.  Over a consistent store the decoding succeeds,  *)
(* every key has the block ++ tx_id size and tx_id < receipts.size().     *)
read_raw_receipts(stored, rc) ==
  IF ~stored THEN Outcome("none", <<>>)
  ELSE Outcome("ok", [i \in DOMAIN rc |->
                        [cumulative |-> Cumulative(rc, i),
                         logs |-> [j \in 1..rc[i].logs |-> StoredLog(i, j)]]])

\* How many logs the receipts before the i-th hold.
LogsBefore(receipts, i) == SumFunctionOnSet([k \in DOMAIN receipts |-> Len(receipts[k].logs)], 1..(i - 1))

\* Mutation: gas_used is the cumulative gas as stored.
GasUsed_cumulative(receipts, i) == receipts[i].cumulative

\* gas_used of the i-th receipt: its cumulative gas less the previous one's.
GasUsed(receipts, i) ==
  receipts[i].cumulative - (IF i = 1 THEN 0 ELSE receipts[i - 1].cumulative)

\* Mutation: log_index restarts at every receipt.
read_receipts_localindex(n, raw) ==
  IF raw.status = "none" \/ raw.val = <<>> THEN raw
  ELSE IF n # Len(raw.val) THEN Outcome("throw", <<>>)
  ELSE LET r == raw.val IN
       Outcome("ok", [i \in DOMAIN r |->
         [tx_index |-> i - 1, gas_used |-> GasUsed(r, i),
          logs |-> [j \in DOMAIN r[i].logs |-> [tx_index |-> i - 1, index |-> j - 1] @@ r[i].logs[j]]]])

(* read_receipts over a block of n transactions: the raw receipts as they *)
(* are when absent or empty; a runtime_error when their count is not the  *)
(* block's; otherwise each receipt gets its tx_index, its gas_used from   *)
(* the previous receipt's cumulative gas, and each of its logs the        *)
(* tx_index and the block's running log_index.                            *)
read_receipts(n, raw) ==
  IF raw.status = "none" \/ raw.val = <<>> THEN raw
  ELSE IF n # Len(raw.val) THEN Outcome("throw", <<>>)
  ELSE LET r == raw.val IN
       Outcome("ok", [i \in DOMAIN r |->
         [tx_index |-> i - 1, gas_used |-> GasUsed(r, i),
          logs |-> [j \in DOMAIN r[i].logs |->
                      [tx_index |-> i - 1, index |-> LogsBefore(r, i) + j - 1] @@ r[i].logs[j]]]])

(* get_receipts: the receipts read, or, when none are stored, the empty   *)
(* list (re-execution is not implemented).                                 *)
get_receipts(n, stored, rc) ==
  LET r == read_receipts(n, read_raw_receipts(stored, rc))
  IN IF r.status = "none" THEN Outcome("ok", <<>>) ELSE r

=============================================================================
