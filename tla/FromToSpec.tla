----------------------------- MODULE FromToSpec -----------------------------
(***************************************************************************)
(* One FromToBlockProvider over the call-from and call-to indexes of one  *)
(* address, driven the way OtsRpcApi::trace_blocks drives it: get() again *)
(* and again until a response has has_more = false and block 0.  The      *)
(* providers are wired as the two handlers wire them: Backward providers  *)
(* with is_backwards = false (ots_searchTransactionsBefore), Forward      *)
(* providers with is_backwards = true (ots_searchTransactionsAfter).      *)
(***************************************************************************)
EXTENDS FromToBlockProvider

CONSTANTS
  References,   \* the block the providers are built with
  MaxFaults     \* how many operations of the run may throw

ASSUME References \subseteq 0..MaxBlockNum
ASSUME MaxFaults \in Nat

VARIABLES
  tables,    \* [Sides -> index table]
  ft,        \* the FromToBlockProvider
  resp,      \* the last response of get()
  emitted,   \* the blocks handed to the consumer so far
  status,    \* the consumer's view: "active", "exhausted" or "failed"
  faults,    \* operations that have thrown so far
  expected,  \* the blocks the provider should hand out (fixed at Init)
  calls      \* calls of get() so far

vars == <<tables, ft, resp, emitted, status, faults, expected, calls>>

FaultChoices == IF faults < MaxFaults THEN {NoFaultRecord} \cup FaultRecords ELSE {NoFaultRecord}

IsValue(r) == ~r.error /\ (r.more \/ r.block # 0)

\* trace_blocks stops at a response with has_more = false and block 0.
Stopped == calls > 0 /\ ~resp.more /\ resp.block = 0

MergedHistory(T) == History(T["from"]) \cup History(T["to"])

Init ==
  /\ tables \in [Sides -> IndexTables]
  /\ \E forward \in BOOLEAN, block \in References :
       ft = NewFromToBlockProvider(forward, forward, block)
  /\ resp = End
  /\ emitted = <<>>
  /\ status = "active"
  /\ faults = 0
  /\ expected = ExpectedBlocks(ft.bp["from"].forward, ft.bp["from"].block, MergedHistory(tables))
  /\ calls = 0

\* trace_blocks' reading of the answer r of a call in which f throws.
Got(r, f) ==
  /\ ft' = r.st
  /\ resp' = r.resp
  /\ emitted' = IF IsValue(r.resp) THEN Append(emitted, r.resp.block) ELSE emitted
  /\ status' = IF status # "active" THEN status
               ELSE IF r.resp.error THEN "failed"
               ELSE IF ~r.resp.more THEN "exhausted"
               ELSE "active"
  /\ faults' = faults + (IF f = NoFaultRecord THEN 0 ELSE 1)
  /\ UNCHANGED <<tables, expected>>

\* One call of from_to_provider.get() by trace_blocks.
Get ==
  /\ ~Stopped
  /\ calls' = calls + 1
  /\ \E f \in FaultChoices : Got(FromToGet(ft, tables, f), f)

Next == Get

\* Weak fairness of Get, written with its guard in place of ENABLED (Get
\* always advances calls, so it is enabled exactly when ~Stopped).
Fairness == <>[](~Stopped) => []<><<Get>>_vars

Spec == Init /\ [][Next]_vars /\ Fairness

(***************************************************************************)
(* Properties                                                              *)
(***************************************************************************)

\* The merge implements SortedStream over the union of the two histories:
\* newest first for the "before" wiring, oldest first for the "after" one,
\* a block found in both indexes handed out once (both sides are pulled on
\* a tie), has_more false exactly on the last block, and trace_blocks'
\* calls reach the end.
\* The refinement mapping: the abstract stream's expected blocks are the
\* history on the provider's side of its reference, recorded when the
\* provider is built (get() never changes the table, the direction or the
\* reference); emitted and status are the consumer's record of responses.
Stream == INSTANCE SortedStream WITH expected <- expected, emitted <- emitted, status <- status

ImplementsSortedStream == Stream!Spec

=============================================================================
