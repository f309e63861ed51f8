------------------------- MODULE BlockProviderSpec -------------------------
(***************************************************************************)
(* One ForwardBlockProvider or BackwardBlockProvider over one index table, *)
(* driven by a consumer that calls get() again and again, as              *)
(* FromToBlockProvider::get does.  The consumer reads a response the way  *)
(* FromToBlockProvider does: error ends the stream as failed; otherwise   *)
(* the block is a value unless it is the (0, has_more = false) end mark,  *)
(* and has_more = false ends it as exhausted.                              *)
(***************************************************************************)
EXTENDS BlockProvider

CONSTANTS
  References,   \* the min_block / max_block values a provider is built with
  MaxFaults,    \* how many operations of the run may throw
  MaxCalls      \* how many times the consumer calls get()

ASSUME References \subseteq 0..MaxBlockNum
ASSUME MaxFaults \in Nat
\* Enough calls for every block, the end and one call after the end.
ASSUME MaxCalls >= Cardinality(Blocks) + 2

VARIABLES
  table,     \* the index table the provider's cursor walks
  bp,        \* the provider
  resp,      \* the last response of get()
  emitted,   \* the blocks handed to the consumer so far
  status,    \* the consumer's view: "active", "exhausted" or "failed"
  faults,    \* operations that have thrown so far
  expected,  \* the blocks the provider should hand out (fixed at Init)
  calls      \* calls of get() so far

vars == <<table, bp, resp, emitted, status, faults, expected, calls>>

FaultChoices == IF faults < MaxFaults THEN {NoFault} \cup Sites ELSE {NoFault}

IsValue(r) == ~r.error /\ (r.more \/ r.block # 0)

Init ==
  /\ table \in IndexTables
  /\ \E forward \in BOOLEAN, block \in References :
       bp = NewBlockProvider(forward, block)
  /\ resp = End
  /\ emitted = <<>>
  /\ status = "active"
  /\ faults = 0
  /\ expected = ExpectedBlocks(bp.forward, bp.block, History(table))
  /\ calls = 0

\* The consumer's reading of the answer r of a call of get() in which f throws.
Got(r, f) ==
  /\ bp' = r.st
  /\ resp' = r.resp
  /\ emitted' = IF IsValue(r.resp) THEN Append(emitted, r.resp.block) ELSE emitted
  /\ status' = IF status # "active" THEN status
               ELSE IF r.resp.error THEN "failed"
               ELSE IF ~r.resp.more THEN "exhausted"
               ELSE "active"
  /\ faults' = faults + (IF f = NoFault THEN 0 ELSE 1)
  /\ UNCHANGED <<table, expected>>

\* One call of get().
Get ==
  /\ calls < MaxCalls
  /\ calls' = calls + 1
  /\ \E f \in FaultChoices : Got(BlockProviderGet(bp, table, f), f)

Next == Get

\* Weak fairness of Get: the consumer keeps calling while it may.  Get is a
\* total function of the state that always advances calls, so it is
\* enabled exactly when calls < MaxCalls; the condition is written with
\* that guard in place of ENABLED, which TLC would evaluate by unfolding
\* BlockProviderGet without caching.
Fairness == <>[](calls < MaxCalls) => []<><<Get>>_vars

Spec == Init /\ [][Next]_vars /\ Fairness

(***************************************************************************)
(* Properties                                                              *)
(***************************************************************************)

Response == [block : 0..MaxBlockNum, more : BOOLEAN, error : BOOLEAN, thrown : BOOLEAN]

TypeOK ==
  /\ table \in Seq([addr : {Below, Target, Above}, key : 0..MaxBlockNum, vals : SUBSET Blocks])
  /\ bp.vec \in Seq(Blocks)
  /\ bp.idx \in 1..(Len(bp.vec) + 1)
  /\ bp.pos \in 0..(Len(table) + 1)
  /\ resp \in Response
  /\ emitted \in Seq(Blocks)
  /\ status \in {"active", "exhausted", "failed"}
  /\ faults \in 0..MaxFaults
  /\ calls \in 0..MaxCalls

\* The provider implements SortedStream: it hands out exactly the blocks of
\* the address's history on its side of the reference block, nearest first
\* (ascending from min_block forward, descending from max_block backward,
\* clipping the first chunk the seek lands on), never twice, with has_more
\* false exactly on the last one, and it gets there if called on.
\* The refinement mapping: the abstract stream's expected blocks are the
\* history on the provider's side of its reference, recorded when the
\* provider is built (get() never changes the table, the direction or the
\* reference); emitted and status are the consumer's record of responses.
Stream == INSTANCE SortedStream WITH expected <- expected, emitted <- emitted, status <- status

ImplementsSortedStream == Stream!Spec

\* Once get() has reported the end of the stream or an error, every later
\* call answers (0, false, false) without touching the cursor or throwing.
TerminationIsSticky ==
  [][status # "active" => resp' = End /\ bp'.pos = bp.pos]_vars

=============================================================================
