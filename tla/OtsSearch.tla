------------------------------ MODULE OtsSearch ------------------------------
(***************************************************************************)
(* OtsRpcApi::handle_ots_search_transactions_before / _after with         *)
(* trace_blocks and trace_block: one search request for one address over  *)
(* the call-from and call-to indexes, from the parameter checks to the    *)
(* reply.                                                                  *)
(*                                                                         *)
(* The handler is one coroutine; its suspension points (the index reads   *)
(* inside get(), the block reads of trace_block) are steps of the         *)
(* FromToBlockProvider and trace_block, so the model's steps are:         *)
(*   Start       parameter checks, boundary adjustment, provider set-up   *)
(*               and the first test of the while loop;                    *)
(*   TraceGet    one iteration of trace_blocks' for loop (get() and       *)
(*               trace_block of the block it returns);                    *)
(*   TraceExit   trace_blocks' for loop running out of iterations;        *)
(*   Collect     the handler's for loop over the traced blocks, the       *)
(*               next test of the while loop and, when it fails, the      *)
(*               reversal, the page flags and the reply.                  *)
(* A matched transaction is <<block, index in block>>; trace_touch_block  *)
(* yields a block's matches in transaction order, and a block has txs[b]  *)
(* of them.                                                                *)
(***************************************************************************)
EXTENDS FromToBlockProvider, TLC

CONSTANTS
  Requests,     \* the [dir, block, pageSize] requests a run may receive
  TxCounts,     \* how many matched transactions an indexed block may hold
  MaxPageSize,  \* kMaxPageSize
  MaxFaults     \* how many operations of the run may throw

ASSUME Requests \subseteq [dir : {"before", "after"}, block : 0..MaxBlockNum, pageSize : Nat]
ASSUME TxCounts \subseteq Nat \ {0}
ASSUME MaxPageSize \in Nat
ASSUME MaxFaults \in Nat

VARIABLES
  tables,       \* [Sides -> index table]
  txs,          \* [Blocks -> matched transactions of the block]
  req,          \* the request
  pc,           \* "start", "trace", "collect" or "done"
  ft,           \* from_to_provider
  resultCount,  \* result_count
  hasMore,      \* the handler's has_more
  tbHasMore,    \* trace_blocks' has_more
  est,          \* est_blocks_to_trace
  i,            \* trace_blocks' loop index
  traced,       \* transactions_with_receipts_vec: one sequence per block
  page,         \* results.transactions
  firstPage,    \* results.first_page
  lastPage,     \* results.last_page
  reply,        \* the reply, once pc = "done"
  faults        \* operations that have thrown so far

vars == <<tables, txs, req, pc, ft, resultCount, hasMore, tbHasMore, est, i,
          traced, page, firstPage, lastPage, reply, faults>>

NoReply == [kind |-> "none"]

FaultChoices == IF faults < MaxFaults THEN {NoFaultRecord} \cup FaultRecords ELSE {NoFaultRecord}

IsBefore == req.dir = "before"

\* trace_block: the matched transactions of block b, in transaction order
\* (none when read_block_by_number finds no block).
trace_block(b) == IF b \in Blocks THEN [k \in 1..txs[b] |-> <<b, k>>] ELSE <<>>

\* How one block's transactions are appended to the page: in reverse when
\* searching before, as they are when searching after.
Presented(item, isBefore) == IF isBefore THEN Reverse(item) ELSE item

\* The handler's for loop over the traced blocks: append each block's
\* transactions, count them, and stop after the block that fills the page.
RECURSIVE CollectItems(_, _, _)
CollectItems(tr, acc, isBefore) ==
  IF tr = <<>> THEN acc
  ELSE LET item == Head(tr)
           acc1 == [rc |-> acc.rc + Len(item),
                    pg |-> acc.pg \o Presented(item, isBefore)]
       IN IF acc1.rc >= req.pageSize THEN acc1 ELSE CollectItems(Tail(tr), acc1, isBefore)

\* The reply once the while loop has ended with has_more hm and page pg:
\* an "after" page is reversed, and the loop decides last_page (before) or
\* first_page (after); fp and lp are the flags set at the start.
PageReply(hm, pg, fp, lp) ==
  [kind |-> "ok",
   txs |-> IF IsBefore THEN pg ELSE Reverse(pg),
   firstPage |-> IF IsBefore THEN fp ELSE ~hm,
   lastPage |-> IF IsBefore THEN ~hm ELSE lp]

\* The test of the while loop with result_count rc and has_more hm, and
\* the reply when it fails.
Loop(rc, hm, pg, fp, lp) ==
  IF rc < req.pageSize /\ hm
    THEN /\ pc' = "trace"
         /\ est' = req.pageSize - rc
         /\ i' = 0
         /\ traced' = <<>>
         /\ tbHasMore' = TRUE
         /\ UNCHANGED reply
    ELSE /\ pc' = "done"
         /\ reply' = PageReply(hm, pg, fp, lp)
         /\ UNCHANGED <<est, i, traced, tbHasMore>>

Init ==
  /\ tables \in [Sides -> IndexTables]
  /\ txs \in [Blocks -> TxCounts]
  /\ req \in Requests
  /\ pc = "start"
  /\ ft = NewFromToBlockProvider(FALSE, FALSE, 0)
  /\ resultCount = 0
  /\ hasMore = TRUE
  /\ tbHasMore = TRUE
  /\ est = 0
  /\ i = 0
  /\ traced = <<>>
  /\ page = <<>>
  /\ firstPage = FALSE
  /\ lastPage = FALSE
  /\ reply = NoReply
  /\ faults = 0

\* A page size above kMaxPageSize is rejected before any index access.
RejectPageSize ==
  /\ pc = "start"
  /\ req.pageSize > MaxPageSize
  /\ pc' = "done"
  /\ reply' = [kind |-> "error"]
  /\ UNCHANGED <<tables, txs, req, ft, resultCount, hasMore, tbHasMore, est, i,
                 traced, page, firstPage, lastPage, faults>>

\* Reference block 0 is the page boundary itself; any other one is made
\* exclusive (block_number-- before, block_number++ after, in uint64_t).
AdjustBlock(isAfter, block) ==
  IF block = 0 THEN 0
  ELSE IF isAfter THEN (block + 1) % (MaxBlockNum + 1)
  ELSE block - 1

\* Set-up of the providers and the page flags, then the while loop.
Start ==
  /\ pc = "start"
  /\ req.pageSize <= MaxPageSize
  /\ LET isAfter == req.dir = "after"
         block   == AdjustBlock(isAfter, req.block)
     IN /\ ft' = NewFromToBlockProvider(isAfter, isAfter, block)
        /\ firstPage' = (~isAfter /\ req.block = 0)
        /\ lastPage' = (isAfter /\ req.block = 0)
        /\ Loop(0, TRUE, <<>>, ~isAfter /\ req.block = 0, isAfter /\ req.block = 0)
  /\ resultCount' = 0
  /\ hasMore' = TRUE
  /\ UNCHANGED <<tables, txs, req, page, faults>>

\* The answer r of get() in one iteration of trace_blocks, with f the
\* operation that threw: leave the handler on an exception, leave the
\* loop on (block 0, has_more = false), or trace the block.
TraceGot(r, f) ==
  /\ ft' = r.st
  /\ tbHasMore' = r.resp.more
  /\ faults' = faults + (IF f = NoFaultRecord THEN 0 ELSE 1)
  /\ IF r.resp.thrown
       THEN pc' = "done" /\ reply' = [kind |-> "internal"] /\ UNCHANGED <<i, traced>>
     ELSE IF ~r.resp.more /\ r.resp.block = 0
       THEN pc' = "collect" /\ UNCHANGED <<i, traced, reply>>
     ELSE /\ traced' = Append(traced, trace_block(r.resp.block))
          /\ i' = i + 1
          /\ UNCHANGED <<pc, reply>>

\* One iteration of trace_blocks: get() the next block and trace it, or
\* leave the loop on (block 0, has_more = false).  An exception of get()
\* leaves the handler as an internal error.
TraceGet ==
  /\ pc = "trace"
  /\ i < est
  /\ \E f \in FaultChoices : TraceGot(FromToGet(ft, tables, f), f)
  /\ UNCHANGED <<tables, txs, req, resultCount, hasMore, est, page, firstPage, lastPage>>

TraceExit ==
  /\ pc = "trace"
  /\ i >= est
  /\ pc' = "collect"
  /\ UNCHANGED <<tables, txs, req, ft, resultCount, hasMore, tbHasMore, est, i,
                 traced, page, firstPage, lastPage, reply, faults>>

\* Mutation: the result of trace_blocks not assigned to has_more.
Collect_stale ==
  /\ pc = "collect"
  /\ LET acc == CollectItems(traced, [rc |-> resultCount, pg |-> page], IsBefore)
     IN /\ resultCount' = acc.rc
        /\ page' = acc.pg
        /\ Loop(acc.rc, hasMore, acc.pg, firstPage, lastPage)
  /\ UNCHANGED <<tables, txs, req, ft, hasMore, firstPage, lastPage, faults>>

\* has_more = trace_blocks(...), the for loop over its results, and the
\* next test of the while loop.
Collect ==
  /\ pc = "collect"
  /\ LET acc == CollectItems(traced, [rc |-> resultCount, pg |-> page], IsBefore)
     IN /\ resultCount' = acc.rc
        /\ page' = acc.pg
        /\ hasMore' = tbHasMore
        /\ Loop(acc.rc, tbHasMore, acc.pg, firstPage, lastPage)
  /\ UNCHANGED <<tables, txs, req, ft, firstPage, lastPage, faults>>

Next == RejectPageSize \/ Start \/ TraceGet \/ TraceExit \/ Collect

\* The handler runs to its reply: every step is enabled while pc # "done"
\* and none stutters, so weak fairness of Next is this condition.
Fairness == <>[](pc # "done") => []<><<Next>>_vars

Spec == Init /\ [][Next]_vars /\ Fairness

(***************************************************************************)
(* What a page should be: the requested side of the reference block,      *)
(* scanned from the reference outwards, whole blocks until the page size  *)
(* is reached, presented newest first.                                     *)
(***************************************************************************)

MergedHistory == History(tables["from"]) \cup History(tables["to"])

\* The blocks the request asks for, nearest to the reference first.
Scan ==
  IF IsBefore THEN Reverse(Ascending({b \in MergedHistory : b < req.block}))
  ELSE Ascending({b \in MergedHistory : req.block = 0 \/ b > req.block})

\* Matches in the first n blocks of the scan.
Covered(n) ==
  LET cnt[j \in 0..n] == IF j = 0 THEN 0 ELSE cnt[j - 1] + txs[Scan[j]]
  IN cnt[n]

\* The fewest scanned blocks that fill the page, or all of them.
PageBlocks ==
  LET full == {j \in 0..Len(Scan) : Covered(j) >= req.pageSize}
  IN IF full = {} THEN Len(Scan) ELSE Min(full)

Newer(x, y) == x[1] > y[1] \/ (x[1] = y[1] /\ x[2] > y[2])

IdealPage == SortSeq(FlattenSeq([j \in 1..PageBlocks |-> trace_block(Scan[j])]), Newer)

(***************************************************************************)
(* Properties                                                              *)
(***************************************************************************)

Item == Blocks \X (1..Max(TxCounts))

TypeOK ==
  /\ pc \in {"start", "trace", "collect", "done"}
  /\ resultCount \in Nat
  /\ hasMore \in BOOLEAN /\ tbHasMore \in BOOLEAN
  /\ i \in 0..est
  /\ traced \in Seq(Seq(Item))
  /\ page \in Seq(Item)
  /\ reply \in {NoReply, [kind |-> "error"], [kind |-> "internal"]}
              \cup [kind : {"ok"}, txs : Seq(Item), firstPage : BOOLEAN, lastPage : BOOLEAN]
  /\ faults \in 0..MaxFaults

\* A successful reply holds exactly the matches of the blocks nearest the
\* reference that fill the page (whole blocks), newest first, for both
\* directions: the per-block reversal of "before" and the whole-page
\* reversal of "after" must agree, and the FromToBlockProvider must hand
\* out every block of both indexes once, in scan order.
PageIsIdeal == reply.kind = "ok" => reply.txs = IdealPage

\* A reply that says no more pages exist past this one (last_page for
\* "before", first_page for "after", set from the final has_more) holds
\* every match on the requested side of the reference.
LastPageMeansComplete ==
  (reply.kind = "ok" /\ (IF IsBefore THEN reply.lastPage ELSE reply.firstPage))
    => Len(reply.txs) = Covered(Len(Scan))

\* Every transaction of an "after" page lies in a block above the
\* reference block (block_number++ in handle_ots_search_transactions_after).
AfterPageAfterReference ==
  (reply.kind = "ok" /\ ~IsBefore) =>
    \A j \in 1..Len(reply.txs) : req.block = 0 \/ reply.txs[j][1] > req.block

\* Every request is answered: trace_blocks and the handler's while loop
\* terminate whatever the indexes hold and whichever read fails.
RequestTerminates == <>(pc = "done")

=============================================================================
