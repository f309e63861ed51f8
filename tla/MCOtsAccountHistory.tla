-------------------------- MODULE MCOtsAccountHistory --------------------------
(***************************************************************************)
(* Model-checking instance of the handlers of OtsRpcApi that walk the    *)
(* history indexes: ots_getTransactionBySenderAndNonce (OtsNonce),        *)
(* ots_getContractCreator (OtsCreator) and ots_searchTransactionsBefore / *)
(* After (OtsSearch): one request to one handler, the way a client calls  *)
(* one method at a time.  The first two walk the same                   *)
(* account history index with the same cursor, so they share its state    *)
(* (table, the neighbour in PlainState, the cursor, the chunk, the loop   *)
(* indexes, the reply and the fault budget); each keeps what only it      *)
(* reads (the sender's sends and the nonce asked for, or the address's    *)
(* deployments and its PlainState account).  The search shares the       *)
(* handler's pc, loop index, reply and fault budget, and keeps its two    *)
(* index tables, the matches per block and the page under assembly.       *)
(*                                                                         *)
(* Bounds: 3-bit block numbers, a history drawn from blocks 1..3 in up to *)
(* two chunks, up to two transactions of the sender per block, every      *)
(* nonce up to one past the largest the sender reaches, every sequence of *)
(* deployments, self-destructs and other changes, and any one read        *)
(* failing.  The search: the same blocks, an address with no neighbours, *)
(* one or two matches per block, kMaxPageSize = 2 with page sizes 0..3,   *)
(* every reference below the largest block number, and no failure (the    *)
(* failures of the search are the OtsSearchFault run's).                  *)
(***************************************************************************)
EXTENDS IndexCursor

CONSTANTS MaxFaults, MaxSent, Nonces, OtherNonces, OtherAccounts

VARIABLES
  method,                                              \* the handler called
  table, arity, pc, pos, bitmap, prevMax, i, idx, reply, faults,
  sent, nonce, nonceOther,                             \* OtsNonce's own state
  event, plain, creatorOther,                          \* OtsCreator's own state
  tables, txs, req, ft, resultCount, hasMore, tbHasMore,
  est, traced, page, firstPage, lastPage               \* OtsSearch's own state

N == INSTANCE OtsNonce WITH other <- nonceOther
C == INSTANCE OtsCreator WITH other <- creatorOther

\* Every search request whose reference lies below the largest block
\* number ("before" block 0 rests on a constructor not in the source).
MCSearchRequests ==
  {r \in [dir : {"before", "after"}, block : 0..(MaxBlockNum - 1), pageSize : 0..3] :
     ~(r.dir = "before" /\ r.block = 0)}

S == INSTANCE OtsSearch WITH Neighbours <- {{}}, TxCounts <- 1..2, MaxPageSize <- 2,
                              Requests <- MCSearchRequests, MaxFaults <- 0

MCBlocks == 1..3
MCNeighbours == {{}, {Above}}
MCNonces == 0..(2 * 3 + 1)
MCOtherNonces == {0, 4}
\* OtsCreator's NoAccount, Account(0, FALSE), Account(1, TRUE) and
\* Account(2, TRUE), written out: a constant's value may not depend on the
\* instance that the constant parameterises.
MCOtherAccounts == {[inc |-> 0, code |-> FALSE, none |-> TRUE], [inc |-> 0, code |-> FALSE],
                    [inc |-> 1, code |-> TRUE], [inc |-> 2, code |-> TRUE]}

nonceOwn == <<sent, nonce, nonceOther>>
creatorOwn == <<event, plain, creatorOther>>
historyOwn == <<table, arity, pos, bitmap, prevMax, idx>>
searchOwn == <<tables, txs, req, ft, resultCount, hasMore, tbHasMore, est, traced, page,
               firstPage, lastPage>>
vars == <<method, table, arity, pc, pos, bitmap, prevMax, i, idx, reply, faults,
          sent, nonce, nonceOther, event, plain, creatorOther, searchOwn>>

NonceIdle ==
  /\ sent = [b \in Blocks |-> 0]
  /\ nonce = 0
  /\ nonceOther = 0

CreatorIdle ==
  /\ event = [b \in Blocks |-> "touch"]
  /\ plain = C!NoAccount
  /\ creatorOther = C!NoAccount

SearchIdle ==
  /\ tables = [s \in S!Sides |-> <<>>]
  /\ txs = [b \in Blocks |-> 1]
  /\ req = [dir |-> "after", block |-> 0, pageSize |-> 1]
  /\ ft = S!NewFromToBlockProvider(FALSE, FALSE, 0)
  /\ resultCount = 0
  /\ hasMore = TRUE
  /\ tbHasMore = TRUE
  /\ est = 0
  /\ traced = <<>>
  /\ page = <<>>
  /\ firstPage = FALSE
  /\ lastPage = FALSE

HistoryIdle ==
  /\ table = <<>>
  /\ arity = 1
  /\ pos = 0
  /\ bitmap = {}
  /\ prevMax = 0
  /\ idx = 0

\* The state of the handler that is not called is left at a fixed value.
Init ==
  \/ method = "nonce" /\ N!Init /\ CreatorIdle /\ SearchIdle
  \/ method = "creator" /\ C!Init /\ NonceIdle /\ SearchIdle
  \/ method = "search" /\ S!Init /\ NonceIdle /\ CreatorIdle /\ HistoryIdle

Next ==
  \/ method = "nonce" /\ N!Next /\ UNCHANGED <<method, creatorOwn, searchOwn>>
  \/ method = "creator" /\ C!Next /\ UNCHANGED <<method, nonceOwn, searchOwn>>
  \/ method = "search" /\ S!Next /\ UNCHANGED <<method, nonceOwn, creatorOwn, historyOwn>>

(* One coroutine serves the request, so its next step is weakly fair.     *)
(* For the search this is written as OtsSearch's Fairness, because TLC    *)
(* evaluates ENABLED through the provider operators exponentially.        *)
Fairness ==
  /\ WF_vars(method # "search" /\ Next)
  /\ <>[](method = "search" /\ pc # "done") => []<><<Next>>_vars

Spec == Init /\ [][Next]_vars /\ Fairness

-----------------------------------------------------------------------------
(* The state of the called handler has its type.                          *)
TypeOK ==
  /\ method = "nonce" => N!TypeOK
  /\ method = "search" => S!TypeOK

(* A reply of ots_getTransactionBySenderAndNonce is the sender's          *)
(* transaction with that nonce when one exists and null otherwise: the    *)
(* chunk walk, the scan of one chunk and the idx = 0 fall-back to the     *)
(* previous chunk's highest block find the block whose transactions carry *)
(* the nonce.                                                              *)
NonceSearchCorrect == method = "nonce" => N!NonceSearchCorrect

(* For an address that holds a contract now, a successful reply of       *)
(* ots_getContractCreator traces the deployment of its current            *)
(* incarnation, across self-destructs and redeployments.                  *)
CreatorOfContract == method = "creator" => C!CreatorOfContract

(* A page of ots_searchTransactions{Before,After} holds exactly the       *)
(* matches of the blocks on the requested side of the reference, newest  *)
(* first, up to the first block that fills the page: the FromTo merge of  *)
(* the two indexes, trace_blocks' estimate and the collection loop with   *)
(* its break and reversals agree with the direct definition.              *)
PageIsIdeal == method = "search" => S!PageIsIdeal

(* Every request is answered: the search's while loop and trace_blocks'   *)
(* for loop end for every index content, and so do the chunk walks of     *)
(* the nonce and creator searches.                                        *)
RequestTerminates == <>(pc = "done")

=============================================================================
