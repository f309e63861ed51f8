----------------------------- MODULE RpcRequest -----------------------------
(***************************************************************************)
(* The lifecycle of one request to the block, transaction and header      *)
(* handlers of OtsRpcApi and ErigonRpcApi over its remote database        *)
(* transaction.                                                            *)
(*                                                                         *)
(* A handler checks its parameters, opens a transaction, runs its reads   *)
(* inside a try block whose catch clauses turn exceptions into replies,    *)
(* and closes the transaction after the try block.  Some handlers also    *)
(* close it inside the try block when what they look up is missing, and  *)
(* return.  RemoteTransaction::close finishes the gRPC stream and can     *)
(* throw; a throw outside the try block leaves the handler.  The reads    *)
(* are abstracted to what they find and whether they throw.  Two          *)
(* computations are kept: the page arithmetic of ots_getBlockTransactions *)
(* in size_t (modulo 2^Width) and the timestamp search of                 *)
(* erigon_getBlockByTimestamp over a chain of header timestamps.          *)
(***************************************************************************)
EXTENDS Integers, FiniteSetsExt, Receipts

CONSTANTS
  Width,            \* bits of size_t
  MaxTxs,           \* most transactions in the block read
  MaxLogs,          \* most logs a transaction of the block emitted
  PageSizes,        \* page_size parameters a request may carry
  PageNumbers,      \* page_number parameters a request may carry
  Chains,           \* canonical chains: [0..head -> header timestamp]
  TimestampParams,  \* the longs std::stol reads from erigon_getBlockByTimestamp's timestamp
  CloseMayFail,     \* whether tx->close() may throw
  MaxFaults         \* how many operations of the run may throw

ASSUME Width \in Nat \ {0}
ASSUME MaxTxs \in Nat /\ MaxLogs \in Nat
ASSUME PageSizes \subseteq Nat /\ PageNumbers \subseteq Nat /\ TimestampParams \subseteq Int
ASSUME CloseMayFail \in BOOLEAN
ASSUME MaxFaults \in Nat

Word == 2^Width

OtsHandlers == {"has_code", "block_details", "block_details_by_hash", "block_transactions",
                "trace_transaction", "transaction_error", "internal_operations"}

ErigonHandlers == {"cache_check", "balance_changes_in_block", "block_by_timestamp",
                   "block_receipts_by_block_hash", "header_by_hash", "header_by_number",
                   "latest_logs", "logs_by_hash", "forks", "block_number", "node_info"}

Handlers == OtsHandlers \cup ErigonHandlers

\* The parameter check before any read.
ParamsOk(h, n) ==
  CASE h \in {"cache_check", "forks", "node_info"} -> TRUE
    [] h = "balance_changes_in_block"              -> n # 0
    [] h = "block_number"                          -> n \in {0, 1}
    [] h = "latest_logs"                           -> n \in {1, 2}
    [] h \in {"has_code", "block_by_timestamp"}    -> n = 2
    [] h = "block_transactions"                    -> n = 3
    [] OTHER                                       -> n = 1

\* What a request carries and what its reads find; fields a handler does
\* not use are fixed.
\*   found  the block, header, account or transaction looked up exists;
\*   stored the block's receipts are in BlockReceipts;
\*   arg    header_by_number: "pending" block id; latest_logs: a filter
\*          with both a block hash and a range ("both"), both counts set
\*          ("ambiguous"), a block hash the walker does not know
\*          ("unknown_hash") or a range whose end is below its start
\*          ("reversed"); block_by_timestamp: a timestamp string std::stol
\*          cannot read or that does not fit a long ("unparsable").
Args(h) ==
  CASE h = "header_by_number" -> {"plain", "pending"}
    [] h = "block_by_timestamp" -> {"plain", "unparsable"}
    [] h = "latest_logs"      -> {"plain", "both", "ambiguous", "unknown_hash", "reversed"}
    [] OTHER                  -> {"plain"}

\* Handlers that read the block's receipts with get_receipts and reply with
\* them.
ReceiptReaders == {"block_transactions", "block_receipts_by_block_hash", "logs_by_hash"}

\* The block read: what each of its transactions left in the store (see
\* Receipts).  Only the handlers replying with receipts or logs see more
\* than how many transactions there are.
\* The gas a transaction of the block may use.
GasValues == {1, 2}

Blocks(h) ==
  LET left == IF h = "block_transactions" THEN {TxReceipt(1, 0)}
              ELSE {TxReceipt(g, l) : g \in GasValues, l \in 0..MaxLogs}
  IN IF h \in ReceiptReaders THEN UNION {[1..n -> left] : n \in 0..MaxTxs} ELSE {<<>>}

Requests(h) ==
  [arity : 0..3,
   found : IF h \in {"cache_check", "balance_changes_in_block", "block_by_timestamp",
                     "latest_logs", "forks", "block_number", "node_info"}
           THEN {TRUE} ELSE BOOLEAN,
   code  : IF h = "has_code" THEN BOOLEAN ELSE {FALSE},
   block : Blocks(h),
   stored: IF h \in ReceiptReaders THEN BOOLEAN ELSE {TRUE},
   size  : IF h = "block_transactions" THEN PageSizes ELSE {0},
   number: IF h = "block_transactions" THEN PageNumbers ELSE {0},
   arg   : Args(h),
   chain : IF h = "block_by_timestamp" THEN Chains ELSE {<<>>},
   ts    : IF h = "block_by_timestamp" THEN TimestampParams ELSE {0}]

VARIABLES
  handler,  \* the method requested
  req,      \* its parameters and what its reads find (Requests(handler))
  pc,       \* "start", "body", "early_close", "close", "done" or "escaped"
  tx,       \* the transaction: "none", "open" or "closed"
  closes,   \* calls of tx->close() so far
  reply,    \* the reply written
  faults,   \* operations that have thrown so far
  ub        \* an operation with undefined behaviour has run

vars == <<handler, req, pc, tx, closes, reply, faults, ub>>

NoReply == [kind |-> "none"]
Content == [kind |-> "content"]
Null == [kind |-> "null"]
Bool(b) == [kind |-> "bool", val |-> b]
Page(txs) == [kind |-> "page", val |-> txs]
Block(b) == [kind |-> "block", val |-> b]
ReceiptList(r) == [kind |-> "receipts", val |-> r]
LogList(l) == [kind |-> "logs", val |-> l]
Error(code) == [kind |-> code]

Init ==
  /\ handler \in Handlers
  /\ req \in Requests(handler)
  /\ pc = "start"
  /\ tx = "none"
  /\ closes = 0
  /\ reply = NoReply
  /\ faults = 0
  /\ ub = FALSE

Fault == faults < MaxFaults /\ faults' = faults + 1

\* The checks pass.
Accepted == ParamsOk(handler, req.arity) /\ req.arg \in {"plain", "unknown_hash", "reversed"}

\* static_cast<uint64_t> of the long std::stol returns (2^Width stands
\* for 2^64).
ToUint64(t) == t % Word

\* std::stol throws (invalid_argument, out_of_range) after the parameter
\* count check and before the transaction and the try block.
StolThrows ==
  /\ handler = "block_by_timestamp"
  /\ ParamsOk(handler, req.arity)
  /\ req.arg = "unparsable"

\* The checks before the transaction: the parameter count (invalid
\* params), the pending block id of erigon_getHeaderByNumber (server
\* error), the filter of erigon_getLatestLogs with both a block hash and a
\* range (invalid params) or with both counts (server error).
RejectParams ==
  /\ pc = "start"
  /\ ~Accepted
  /\ ~StolThrows
  /\ pc' = "done"
  /\ CASE ~ParamsOk(handler, req.arity)                  -> reply' = Error("invalid_params")
       [] handler = "header_by_number" /\ req.arg = "pending" -> reply' = Error("server_error")
       [] handler = "latest_logs" /\ req.arg = "both"      -> reply' = Error("invalid_params")
       [] handler = "latest_logs" /\ req.arg = "ambiguous" -> reply' = Error("server_error")
  /\ UNCHANGED <<handler, req, tx, closes, faults, ub>>

\* erigon_getBlockByTimestamp: the timestamp does not parse, and the
\* exception leaves the handler with no transaction and no reply.
ParseTimestamp ==
  /\ pc = "start"
  /\ StolThrows
  /\ pc' = "escaped"
  /\ UNCHANGED <<handler, req, tx, closes, reply, faults, ub>>

\* co_await database_->begin(): RemoteTransaction::open; a throw leaves the
\* handler before the try block, with no transaction.
Begin ==
  /\ pc = "start"
  /\ Accepted
  /\ handler # "node_info"
  /\ \/ /\ tx' = "open"
        /\ pc' = "body"
        /\ UNCHANGED faults
     \/ /\ Fault
        /\ pc' = "escaped"
        /\ UNCHANGED tx
  /\ UNCHANGED <<handler, req, closes, reply, ub>>

\* erigon_nodeInfo has no transaction: its try block runs at once.
NodeInfoStart ==
  /\ pc = "start"
  /\ handler = "node_info"
  /\ pc' = "body"
  /\ UNCHANGED <<handler, req, tx, closes, reply, faults, ub>>

\* Handlers with a catch clause for std::invalid_argument, and the reply.
CatchesInvalidArgument ==
  {"block_details", "block_details_by_hash", "block_transactions", "trace_transaction",
   "transaction_error", "internal_operations", "block_receipts_by_block_hash"}

\* The catch clauses: std::invalid_argument is a null reply where it is
\* caught, any other std::exception an internal error, anything else a
\* server error.
Caught(h, e) ==
  CASE e = "invalid_argument" /\ h \in CatchesInvalidArgument -> Null
    [] e \in {"invalid_argument", "exception"}              -> Error("internal")
    [] OTHER                                                -> Error("server_error")

\* The reply of a try block that completes, and the step after it: the
\* close after the try block, none for erigon_nodeInfo.
Replied(r) == reply' = r /\ pc' = IF handler = "node_info" THEN "done" ELSE "close"

\* A lookup that found nothing: the reply, then the close inside the try
\* block and co_return.
ClosedEarly(r) == reply' = r /\ pc' = "early_close"

(***************************************************************************)
(* The try blocks                                                          *)
(***************************************************************************)

\* ots_hasCode: the account at the block; whether its code is found.
HasCode ==
  /\ handler = "has_code"
  /\ Replied(Bool(req.found /\ req.code))

\* The try block of the two block details handlers: the details of the
\* block, or null if it is not found.
DetailsTry(h) ==
  /\ handler = h
  /\ Replied(IF req.found THEN Content ELSE Null)

GetBlockDetails == DetailsTry("block_details")

GetBlockDetailsByHash == DetailsTry("block_details_by_hash")

\* Mutation: page_start kept when it equals page_end.
PageWindow_ge(n, size, number) ==
  LET end0   == (n - size * number) % Word
      end    == IF end0 > n THEN 0 ELSE end0
      start0 == (end - size) % Word
      start  == IF start0 >= end THEN 0 ELSE start0
  IN start..(end - 1)

\* Mutation: no check that page_end wrapped past the block's end.
PageWindow_nowrap(n, size, number) ==
  LET end    == (n - size * number) % Word
      start0 == (end - size) % Word
      start  == IF start0 > end THEN 0 ELSE start0
  IN start..(end - 1)

\* The page of ots_getBlockTransactions: size_t arithmetic on the number
\* of the block's transactions, with the two wrap-around checks.
PageWindow(n, size, number) ==
  LET end0   == (n - size * number) % Word
      end    == IF end0 > n THEN 0 ELSE end0
      start0 == (end - size) % Word
      start  == IF start0 > end THEN 0 ELSE start0
  IN start..(end - 1)

\* ots_getBlockTransactions: null if the block is not found; else
\* get_receipts, then the page of the block's transactions, each with
\* receipts.at(i).
BlockTransactions ==
  /\ handler = "block_transactions"
  /\ IF ~req.found THEN Replied(Null)
     ELSE LET n == Len(req.block)
              r == get_receipts(n, req.stored, req.block)
              w == PageWindow(n, req.size, req.number)
          IN \* receipts.at(i) throws std::out_of_range past the receipts read
             IF r.status = "throw" \/ ~(w \subseteq 0..(Len(r.val) - 1))
             THEN Replied(Caught(handler, "exception"))
             ELSE Replied(Page(w))

\* ots_traceTransaction, ots_getTransactionError and
\* The try block of the three trace handlers: a transaction not found is a
\* server error, then the early close; else the trace's result.
TracedTry(h) ==
  /\ handler = h
  /\ IF req.found THEN Replied(Content) ELSE ClosedEarly(Error("server_error"))

TraceTransaction == TracedTry("trace_transaction")

GetTransactionError == TracedTry("transaction_error")

GetInternalOperations == TracedTry("internal_operations")

\* binary_search(n, pred): the lowest block below n whose header has a
\* timestamp at or above t, or n if there is none.
RECURSIVE binary_search(_, _, _, _)
binary_search(lo, hi, chain, t) ==
  IF lo >= hi THEN lo
  ELSE LET mid == (lo + hi) \div 2
       IN IF chain[mid] >= t THEN binary_search(lo, mid, chain, t)
                             ELSE binary_search(mid + 1, hi, chain, t)

\* Mutation: the walk back without the check of the earlier header.
RECURSIVE WalkBack_nocheck(_, _, _)
WalkBack_nocheck(b, chain, t) ==
  IF chain[b] > t /\ b > 0 THEN WalkBack_nocheck(b - 1, chain, t) ELSE b

\* The while loop after the search: step back over earlier headers whose
\* timestamp is not below t while the matching one is above t.  The
\* header before block 0 does not exist, which ends the loop.
RECURSIVE WalkBack(_, _, _)
WalkBack(b, chain, t) ==
  IF chain[b] > t /\ b > 0 /\ chain[b - 1] >= t THEN WalkBack(b - 1, chain, t) ELSE b

\* The block erigon_getBlockByTimestamp settles on: the head if its
\* timestamp is at or below t, block 0 if the earliest is at or above t,
\* else the search and the walk back.
TimestampBlock(chain, t) ==
  LET head == Max(DOMAIN chain)
  IN CASE chain[head] <= t -> head
       [] chain[0] >= t    -> 0
       [] OTHER            -> WalkBack(binary_search(0, head, chain, t), chain, t)

\* erigon_getBlockByTimestamp: the block settled on.
BlockByTimestamp ==
  /\ handler = "block_by_timestamp"
  /\ Replied(Block(TimestampBlock(req.chain, ToUint64(req.ts))))

\* Whether erigon_getBlockReceiptsByBlockHash's loop over the block's
\* transactions indexes past the receipts get_receipts returned.
ReceiptsPastEnd ==
  /\ handler = "block_receipts_by_block_hash"
  /\ req.found
  /\ LET r == get_receipts(Len(req.block), req.stored, req.block)
     IN r.status = "ok" /\ Len(r.val) < Len(req.block)

\* erigon_getBlockReceiptsByBlockHash: for a block not found a null reply
\* and the early close; else get_receipts, then
\* receipts[i].effective_gas_price for each of the block's transactions.
\* Past the end of the receipts that write is undefined behaviour: the
\* process may crash, or the write go astray and the receipts read be
\* replied.
BlockReceipts ==
  /\ handler = "block_receipts_by_block_hash"
  /\ IF ~req.found THEN ClosedEarly(Null)
     ELSE LET r == get_receipts(Len(req.block), req.stored, req.block)
          IN IF r.status = "throw" THEN Replied(Caught(handler, "exception"))
             ELSE IF ReceiptsPastEnd
                  THEN \/ pc' = "crashed" /\ UNCHANGED reply
                       \/ Replied(ReceiptList(r.val))
             ELSE Replied(ReceiptList(r.val))

\* The try block of the two header handlers: the header, or a server
\* error if it is not found.
HeaderTry(h) ==
  /\ handler = h
  /\ Replied(IF req.found THEN Content ELSE Error("server_error"))

GetHeaderByHash == HeaderTry("header_by_hash")

GetHeaderByNumber == HeaderTry("header_by_number")

\* erigon_getLatestLogs: the logs of the walker's range; a block hash the
\* walker does not know (start = end = max) is an internal error and a
\* range with end below start a server error, each with the early close.
LatestLogs ==
  /\ handler = "latest_logs"
  /\ CASE req.arg = "unknown_hash" -> ClosedEarly(Error("internal"))
       [] req.arg = "reversed"     -> ClosedEarly(Error("server_error"))
       [] OTHER                    -> Replied(Content)

\* erigon_getLogsByHash: for a block not found an empty list and the early
\* close; else get_receipts and the logs of each receipt.
LogsByHash ==
  /\ handler = "logs_by_hash"
  /\ IF ~req.found THEN ClosedEarly(LogList(<<>>))
     ELSE LET r == get_receipts(Len(req.block), req.stored, req.block)
          IN IF r.status = "throw" THEN Replied(Caught(handler, "exception"))
             ELSE Replied(LogList([i \in DOMAIN r.val |-> r.val[i].logs]))

\* The try block of a handler that makes one read and replies its result.
SingleRead(h) ==
  /\ handler = h
  /\ Replied(Content)

\* erigon_cacheCheck replies 0 without a read.
CacheCheck == SingleRead("cache_check")

GetBalanceChangesInBlock == SingleRead("balance_changes_in_block")

Forks == SingleRead("forks")

BlockNumber == SingleRead("block_number")

NodeInfo == SingleRead("node_info")

\* The handlers whose try block reads and so may throw.
Reads == Handlers \ {"cache_check"}

\* The try block completes.
Body ==
  /\ pc = "body"
  /\ \/ HasCode \/ GetBlockDetails \/ GetBlockDetailsByHash \/ BlockTransactions
     \/ TraceTransaction \/ GetTransactionError \/ GetInternalOperations
     \/ BlockByTimestamp \/ BlockReceipts \/ GetHeaderByHash \/ GetHeaderByNumber
     \/ LatestLogs \/ LogsByHash
     \/ CacheCheck \/ GetBalanceChangesInBlock \/ Forks \/ BlockNumber \/ NodeInfo
  /\ ub' = (ub \/ ReceiptsPastEnd)
  /\ UNCHANGED <<handler, req, tx, closes, faults>>

\* A read of the try block throws (an ensure() failing included).
BodyThrows ==
  /\ pc = "body"
  /\ handler \in Reads
  /\ Fault
  /\ \E e \in {"invalid_argument", "exception", "other"} : Replied(Caught(handler, e))
  /\ UNCHANGED <<handler, req, tx, closes, ub>>

(***************************************************************************)
(* Closing the transaction                                                 *)
(***************************************************************************)

\* Whether this close throws.
CloseOutcomes == IF CloseMayFail /\ faults < MaxFaults THEN BOOLEAN ELSE {FALSE}

\* RemoteTransaction::close: writes_done_and_finish, then the cursors and
\* ids are reset; a throw from the stream leaves the transaction as it was.
CloseTx(fail) ==
  /\ closes' = closes + 1
  /\ tx' = IF fail THEN tx ELSE "closed"
  /\ faults' = IF fail THEN faults + 1 ELSE faults

\* Mutation: the early return without its close.
EarlyClose_noclose ==
  /\ pc = "early_close"
  /\ pc' = "done"
  /\ UNCHANGED <<handler, req, tx, closes, reply, faults, ub>>

\* The close inside the try block, then co_return; a throw is caught like
\* any other exception of the try block, and the handler goes on to the
\* close after it.
EarlyClose ==
  /\ pc = "early_close"
  /\ \E fail \in CloseOutcomes :
       /\ CloseTx(fail)
       /\ IF fail THEN Replied(Caught(handler, "exception"))
                  ELSE pc' = "done" /\ UNCHANGED reply
  /\ UNCHANGED <<handler, req, ub>>

\* The close after the try block; a throw leaves the handler.
Close ==
  /\ pc = "close"
  /\ \E fail \in CloseOutcomes :
       /\ CloseTx(fail)
       /\ pc' = IF fail THEN "escaped" ELSE "done"
  /\ UNCHANGED <<handler, req, reply, ub>>

Next == RejectParams \/ ParseTimestamp \/ Begin \/ NodeInfoStart \/ Body \/ BodyThrows \/ EarlyClose \/ Close

Spec == Init /\ [][Next]_vars

(***************************************************************************)
(* Properties                                                              *)
(***************************************************************************)

\* A log and a receipt as the handlers reply with them.
LogType == [tx_index : 0..(MaxTxs - 1), index : 0..(MaxTxs * MaxLogs - 1),
            tx : 0..(MaxTxs - 1), pos : 1..MaxLogs]
ReceiptType == [tx_index : 0..(MaxTxs - 1), gas_used : GasValues, logs : Seq(LogType)]

TypeOK ==
  /\ pc \in {"start", "body", "early_close", "close", "done", "escaped", "crashed"}
  /\ tx \in {"none", "open", "closed"}
  /\ closes \in 0..2
  /\ \/ reply.kind = "receipts" /\ reply.val \in Seq(ReceiptType)
     \/ reply.kind = "logs" /\ reply.val \in Seq(Seq(LogType))
     \/ reply \in {NoReply, Null, Content, Bool(TRUE), Bool(FALSE)}
                  \cup {Error(c) : c \in {"invalid_params", "server_error", "internal"}}
                  \cup {Page(S) : S \in SUBSET (0..(MaxTxs - 1))}
                  \cup {Block(b) : b \in 0..(Word - 1)}
  /\ faults \in 0..MaxFaults
  /\ ub \in BOOLEAN

\* A handler that opened a transaction and has finished, by returning or
\* by throwing, has called tx->close() exactly once, on every path through
\* its parameter checks, its try block with its early returns, and its
\* catch clauses (the comments "RAII not (yet) available" leave the close
\* to each path of the handler).
TxClosedExactlyOnce == (pc \in {"done", "escaped"} /\ tx # "none") => closes = 1

\* The transactions of page p of ots_getBlockTransactions, counted from
\* the end of the block: those from n - (p + 1) * size up to n - p * size.
PageReference(n, size, number) ==
  {k \in 0..(n - 1) : n - (number + 1) * size <= k /\ k < n - number * size}

\* A page returned holds exactly the transactions of its page number, and
\* none when the page lies before the start of the block.
PageIsWindow ==
  (handler = "block_transactions" /\ reply.kind = "page")
    => reply.val = PageReference(Len(req.block), req.size, req.number)

\* The lowest block whose timestamp is at or above t, or the head when no
\* block's is (the comment at erigon_api.cpp:135).
LowestAtOrAbove(chain, t) ==
  LET above == {b \in DOMAIN chain : chain[b] >= t}
  IN IF above = {} THEN Max(DOMAIN chain) ELSE Min(above)

\* erigon_getBlockByTimestamp replies with the lowest block whose
\* timestamp is at or above the one asked for, read as the uint64_t the
\* handler casts it to (a negative long wraps to a timestamp past the head):
\* the two shortcuts, the binary search over the blocks below the head and
\* the walk back agree on it for every chain and every timestamp.
BlockByTimestampIsLowest ==
  (handler = "block_by_timestamp" /\ reply.kind = "block")
    => reply.val = LowestAtOrAbove(req.chain, ToUint64(req.ts))


(* The receipts of a block as the chain defines them: the i-th receipt    *)
(* has index i - 1, uses the gas its transaction used, and numbers its    *)
(* logs on from all the logs of the transactions before it.               *)
BlockLogs(block) == {<<k, l>> \in (DOMAIN block) \X (1..MaxLogs) : l <= block[k].logs}

LogIndex(block, i, j) == Cardinality({<<k, l>> \in BlockLogs(block) : k < i \/ (k = i /\ l < j)})

ChainReceipts(block) ==
  [i \in DOMAIN block |->
     [tx_index |-> i - 1, gas_used |-> block[i].gas,
      logs |-> [j \in 1..block[i].logs |->
                  [tx_index |-> i - 1, index |-> LogIndex(block, i, j), tx |-> i - 1, pos |-> j]]]]

\* When the block's receipts are stored, erigon_getBlockReceiptsByBlockHash
\* replies with exactly the chain's receipts and erigon_getLogsByHash with
\* each receipt's logs: read_receipts recovers each gas_used from the
\* cumulative gas of consecutive receipts and numbers the logs across the
\* whole block, after read_raw_receipts has put the Logs entries back on
\* the receipts they belong to.
ReceiptsMatchBlock ==
  req.stored =>
    /\ reply.kind = "receipts" => reply.val = ChainReceipts(req.block)
    /\ reply.kind = "logs" /\ req.found =>
         reply.val = [i \in DOMAIN req.block |-> ChainReceipts(req.block)[i].logs]

\* No handler indexes a std::vector past its end: the loop of
\* erigon_getBlockReceiptsByBlockHash writes receipts[i] for every
\* transaction of the block, whatever get_receipts returned.
NoUndefinedBehaviour == ~ub

=============================================================================
