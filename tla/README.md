# TLA+ models of silkworm

This directory holds TLA+ specifications of parts of this repository's
source, the TLC configurations that check them and, in `PROJECT.json`, the
mapping from every modelled definition to the lines it translates, the runs,
the mutation checks, the findings and the hazards.

## 1. The system and its parts

The 14 source files under `src/` are excerpts from silkworm, a C++ Ethereum
client. `spec.md` describes one of them: the history search behind the
Otterscan RPC methods `ots_searchTransactionsBefore` and
`ots_searchTransactionsAfter` (`src/silkworm/rpc/commands/ots_api.cpp`).
That search is the core of this project.

| Part | Source | Status |
|---|---|---|
| ChunkLocator, ChunkProvider | ots_api.cpp 896-962 | modelled |
| ForwardBlockProvider, BackwardBlockProvider | ots_api.cpp 964-1191 | modelled |
| FromToBlockProvider | ots_api.cpp 1193-1265 | modelled |
| search handlers, trace_blocks, trace_block | ots_api.cpp 654-866 | modelled |
| ots_getTransactionBySenderAndNonce | ots_api.cpp 268-376 | modelled |
| ots_getContractCreator | ots_api.cpp 378-514 | modelled |
| the other ots_* block/transaction handlers, all erigon_* handlers | ots_api.cpp 52-652, erigon_api.cpp | modelled (request lifecycle; see 2) |
| RemoteTransaction | db/kv/grpc/client/remote_transaction.* | partly: open/close |
| PeerManager | sentry/peer_manager.cpp | modelled |
| SnapshotRepository | db/snapshots/repository.cpp | partly: reopen_folder, find_bundle, max_block_available, missing_block_ranges (see 2, 6) |
| FileDb / BlockDb, the copy_block tool | block/copy_block.cpp | modelled |
| DataMigration::run | db/data_migration.cpp | not modelled (see 6) |
| get_receipts, read_receipts, read_raw_receipts | rpc/core/receipts.cpp | modelled (operators, used by the request lifecycle) |
| reconnect constants, http Channel, gRPC stubs, tests | - | not modelled: declarations, generated code, tests |

### How the search works

The search runs for one request, in one coroutine, over two index tables:

- *call-from* holds the blocks where an address sent a call.
- *call-to* holds the blocks where it received one.

Each table stores an address's history as consecutive chunks, which are
compressed bitmaps of block numbers. Each chunk is keyed by
`address ++ block`.

The data flows through these components:

1. **ChunkLocator** seeks the first key at or after `address ++ reference`.
2. **ChunkProvider** hands out that chunk first. It then hands out the
   following chunks (forward) or the preceding ones (backward). It stops at
   the first key of another address or at the end of the table. An error is
   sticky.
3. A **Forward/BackwardBlockProvider** turns the chunks into a stream of
   block numbers.
   - The first chunk is clipped to the reference block: `advance_if_needed`
     going forward, `removeRange` going backward. If clipping empties the
     backward chunk, the chunk before it is loaded.
   - After every block the provider looks one chunk ahead, so that
     `has_more` is exact.
4. **FromToBlockProvider** merges the call-from and call-to streams.
   - It takes the larger head for "before" and the smaller head for "after".
   - It pulls both sides when their heads are equal.
5. The **handler** loops while the page is not full and `has_more` holds.
   - **trace_blocks** pulls up to `page_size - result_count` blocks and
     traces each of them.
   - The handler appends each block's matches and stops after the block
     that fills the page.
   - It then sets `last_page` (before) or `first_page` (after) from
     `has_more`.
   - "before" reverses each block's matches. "after" reverses the whole
     page.

## 2. Modules

The modules are layered. The component modules define operators and no
variables. The harness modules drive those operators and carry the
properties.

| Module | Models | Kind |
|---|---|---|
| `IndexCursor` | index table layout, keys, `Cursor::seek/next/previous` | operators |
| `ChunkProvider` | `ChunkLocator::get`, `ChunkProvider::get` | operators |
| `BlockProvider` | both `BlockProvider::get`s and their helpers | operators |
| `FromToBlockProvider` | `FromToBlockProvider::get` | operators |
| `SortedStream` | the abstract stream a provider promises | abstract spec |
| `BlockProviderSpec` | one provider driven by repeated `get()` | harness |
| `FromToSpec` | the merge driven as `trace_blocks` drives it | harness |
| `MCProviderStreams` | either harness, against `SortedStream` | harness |
| `MCBlockProviderSpec` | the single-provider harness alone (reproduction cfg) | harness |
| `OtsSearch`, `MCOtsSearch` | one search request from parameters to reply | handler spec |
| `OtsNonce` | `ots_getTransactionBySenderAndNonce` | handler spec |
| `OtsCreator`, `MCOtsCreator` | `ots_getContractCreator` | handler spec |
| `MCOtsAccountHistory` | one request to any of the four history handlers (nonce, creator, search before/after) | harness |
| `Receipts` | the receipts of a block as `get_receipts` reads them | operators |
| `RpcRequest`, `MCRpcRequest` | eighteen ots/erigon handlers over their remote transaction | handler spec |
| `PeerManager`, `MCPeerManager` | the sentry's accept loops, peer tasks and observers | component spec |
| `SnapshotRepository` | `reopen_folder`, `find_bundle`, `max_block_available`, `missing_block_ranges` over a snapshot directory | operators |
| `CopyBlock`, `MCCopyBlock` | the copy_block tool: `main`'s copy loop and `FileDb::upsert` over a directory that outlives crashes, reading blocks through the snapshot repository | component spec |

The component modules use functional style. Each `get()` is an operator
from a state record and the table to `[resp, st]`: the
`BlockProviderResponse` and the next state. All of a `get()` therefore
happens in one step of the harness. That includes the seek, the reads, the
parses, the clipping, the refill and the look-ahead. This is faithful
because a request's pipeline is owned by one coroutine and nothing else
touches it between its `co_await`s (spec §5). The `IF` chains follow the
code's early returns in order.

Each `get()` is split into one operator per stretch of code between two
calls (`Located`, `FirstChunk`, `FirstParsed`, `BackwardClipped`,
`BackwardRefill`, `LookAhead`, `LookAheadRead`; `InitFrom`, `InitTo`,
`PulledFrom`, `PullTo`, `PulledTo` for the merge). The result of a call
is passed to the next operator as an argument, never held in a `LET` that
is referenced several times. TLC's coverage pass expands every reference
to a definition, so the nested `LET` form took longer to prepare than to
check. `ForwardBlockProvider::get` and `BackwardBlockProvider::get` have
the same control and share these operators. They dispatch on the
provider's class only where they differ: the clipping of the first chunk
and the refill, and `iterator` against `reverse_iterator`.

### Data abstraction

- **Block numbers** are `Width`-bit numbers. `MaxBlockNum = 2^Width - 1`
  stands for `uint64_t` max, which matters to `removeRange` and to
  `block_number++`.
- **Addresses** are the searched one plus one neighbour on each side.
  Neighbour entries test the address-prefix stop.
- **Index tables** are every way of cutting every history drawn from
  `Blocks` into at most `MaxChunks` chunks.
  - Every chunk except the last is keyed by its highest block. The last is
    keyed by `MaxBlockNum`. This is the index writer's layout, which the
    backward seek relies on.
  - Block 0 never appears in a history. The code uses block 0 as its end
    mark.
- **Failures** are injected through a fault argument `f`. It names the one
  operation of the call that throws: the seek, a cursor read in the
  initial, refill or look-ahead position, or a bitmap parse in one of
  those. A cursor read becomes `error` inside `ChunkProvider`. A parse
  exception is caught in `get()`. `Thrown` stands for the
  `std::out_of_range` that escapes `next()`.
- **trace_block** is abstracted to a per-block number of matched
  transactions `txs[b]`. A match is `<<block, index>>`. The receipts and
  blocks lists of the reply are built in step with the transactions list
  and are left out.

### Handler steps (`OtsSearch`)

| Action | Source |
|---|---|
| `RejectPageSize` | `page_size > kMaxPageSize` |
| `Start` | boundary adjustment, provider set-up, first loop test |
| `TraceGet` | one iteration of `trace_blocks`' for loop: `get()` then `trace_block` |
| `TraceExit` | the for loop's bound |
| `Collect` | the handler's for loop with its break, the next loop test and, when it fails, `PageReply` (reversal, flags) |

### Account history searches (`OtsNonce`, `OtsCreator`)

Both handlers walk the account history index of one address, which has
the chunk layout of `IndexCursor`. At each chunk's highest block they read
the account change set, which holds the account as it was *before* that
block. They stop at the first chunk where the account has reached the
value searched for, scan that chunk for the first such block, and take the
block before it: `account_block_numbers[idx - 1]`, or the previous
chunk's highest block when `idx = 0`.

- In `OtsNonce` the account is its nonce. `sent[b]` is how many
  transactions the sender sent in block `b`, so the pre-state nonce at `b`
  is the sum of `sent` over earlier history blocks. Past the last chunk
  the loop consults the plain state.
- In `OtsCreator` the account is its incarnation and whether it holds
  code. `event[b]` is a touch, a deployment or a self-destruct. Only
  sequences the EVM allows are enumerated: a deployment only when the
  account is not alive, a self-destruct only when it is.
- In both, `plain_state_cursor->seek(address)` takes the value at the
  first key at or after the address. For an address without a state, that
  is another account (`other`).

Each cursor read is one action: `Seek`, `ChunkStep`, `ScanStep`,
`ReadBlock`, plus `PlainState` for the nonce and `Fail` for a read that
throws.

`MCOtsAccountHistory` checks one request to either handler, the way
`RpcRequest` checks one request to any of its handlers. Its initial
`method` picks the handler. The two specs share the cursor's state (the
table, the position, the chunk, the loop indexes, the reply and the
fault budget) through `INSTANCE`. Each keeps its own data: `sent` and
`nonce`, or `event` and `plain`. Only the two `other` variables are
renamed apart, because their types differ. The search (`OtsSearch`) is
the harness's third method. It shares `pc`, `i`, `reply` and `faults`,
and keeps its two index tables, the matches per block, the provider and
the page under assembly. It is instantiated with its own bounds (no
neighbours, no failures) as literals. While one method runs, the other
methods' variables stay at fixed values. `MCOtsCreator` stays for the
violation run, which needs a run without faults. `MCOtsSearch` stays for
the three search violations.

### Request lifecycle (`RpcRequest`)

Every other block, transaction, header and log handler of `OtsRpcApi` and
`ErigonRpcApi` follows the same shape:

1. It checks its parameters (`RejectParams`).
2. It opens a remote transaction (`Begin`, which is `RemoteTransaction::open`
   and may throw before the try block).
3. It runs its try block. Each handler is one disjunct of `Body`, named
   after the handler (`GetBlockDetails`, `TraceTransaction`,
   `GetHeaderByNumber`, `Forks`, ...). Handlers whose try blocks share a
   shape use one operator (`DetailsTry`, `TracedTry`, `HeaderTry`,
   `SingleRead`). `BodyThrows` sends a throw through the handler's catch
   clauses (`Caught`). It applies to every handler except
   `erigon_cacheCheck`, whose try block replies `to_quantity(0)` without
   a read.
4. Some handlers close the transaction inside the try block when a lookup
   finds nothing, and return (`EarlyClose`). These are the three ots trace
   handlers, `erigon_getBlockReceiptsByBlockHash`, `erigon_getLogsByHash`
   and `erigon_getLatestLogs`.
5. It closes the transaction after the try block (`Close`). A throw there
   leaves the handler.

`erigon_nodeInfo` has no transaction. Reads are abstracted to found or not
found. These computations are kept:

- the `size_t` page arithmetic of `ots_getBlockTransactions`
  (`PageWindow`);
- the search of `erigon_getBlockByTimestamp` (`TimestampBlock`): two
  shortcuts, `binary_search` over the blocks below the head, and the walk
  back (`WalkBack`);
- the timestamp parameter of `erigon_getBlockByTimestamp` as `std::stol`
  reads it and `static_cast<uint64_t>` converts it (`ToUint64`). A
  negative long wraps to a timestamp past the head. A string that does
  not parse, or does not fit a long, throws before `begin()`
  (`ParseTimestamp`), so the handler leaves with no transaction open.

- the receipts of `ots_getBlockTransactions`,
  `erigon_getBlockReceiptsByBlockHash` and `erigon_getLogsByHash`. They are
  read with `get_receipts` (see below), followed by each handler's own use
  of them:
  - `receipts.at(i)` over the page, which throws `std::out_of_range` past
    the receipts read;
  - the `effective_gas_price` loop, which writes `receipts[i]` for every
    transaction of the block;
  - the list of each receipt's logs.

`binary_search` lives in `rpc/common/binary_search.hpp`, which is not in
the source. It is modelled as the usual lower bound: the first block
below `n` whose predicate holds, or `n`.

### Receipts (`Receipts`)

The block a request reads is given by what each of its transactions left
in the store: the gas it used (1 or 2) and the number of its logs (up to
`MaxLogs`). The request field `stored` says whether the block has a
`BlockReceipts` entry. Each of the three functions of `receipts.cpp` is an
operator.

- `read_raw_receipts` returns nullopt when there is no entry. Otherwise it
  decodes the receipts with their `cumulative_gas_used` (the prefix sums of
  the gas). Then the walk over the block's `Logs` entries puts each
  transaction's logs on `receipts[tx_id]`. A log is abstracted to
  `[tx, pos]`: the transaction that emitted it and its place there.
- `read_receipts` passes an absent or empty result through, and throws
  when the count differs from the block's. Otherwise it derives
  `tx_index`, `gas_used` from consecutive cumulative values (`GasUsed`),
  and each log's `tx_index` and block-wide `log_index` (`LogsBefore`).
- `get_receipts` turns nullopt into the empty list, because re-execution
  is not implemented.

`RpcRequest` states the chain's receipts independently (`ChainReceipts`).
A log's index there is the number of logs of the block before it, counted
as a set. The hashes, bloom, sender and contract address are copied from
the block and are left out. The model's store always decodes, and its
receipts always match the block's transactions.

`ub` is a history variable. It records that the `effective_gas_price` loop
indexed past the receipts. That undefined behaviour is modelled by its two
outcomes: the process crashes (`pc = "crashed"`), or the handler replies
with the receipts read.

### Peer manager (`PeerManager`)

`PeerManager::start` runs two accept loops, one on the rlpx server's
peer channel and one on the client's, and the peer tasks, all in one
strand. Code of the strand between two `co_await`s therefore runs as
one step with respect to the other handlers of the strand. `add_observer`
is called from other threads, so it is an action of its own that can
fall between any two steps of the strand.

| Action | Code |
|---|---|
| `Handover(s, p)` | the server or client sends a new peer on its channel (the environment) |
| `Receive(s)` | one loop iteration up to the `push_back`: receive, the `max_peers_` check, then `drop_peer`, or `push_back` (41-51) |
| `PeerAdded(s)` | the rest of the iteration: the `observers()` snapshot, `on_peer_added`, `start_peer` (52-54) |
| `StartPeer(p)` | `Peer::start` ends, is cancelled or throws, all caught; `peers_.remove` (57-70) |
| `PeerRemoved(p)` | the rest of the task: the `observers()` snapshot and `on_peer_removed` (71-72) |
| `DropPeer(p)` | `Peer::drop` ends, is cancelled or throws (74-88) |
| `AddObserver(o)` | `add_observer` under `observers_mutex_` (117-120) |
| `DestroyObserver(o)` | the observer's owner destroys it, so its `weak_ptr` no longer locks |

`LockedObservers` is `observers()`: the registered observers that still
lock, in registration order. `Notify` is the two notification loops
(`peer_manager.cpp:134-144`): it appends one note per observer of the
snapshot. Each loop passes `std::move(peer)`. Whether that empties the
pointer depends on the observer's handler, whose signature is not in
the source, so the constant `PassByValue` chooses: when it is TRUE,
`Passed` gives the peer to the first observer and `NullPeer`, the empty
`shared_ptr`, to every later one. `notes[o]` is the sequence of
notifications observer `o` received, so an observer's view of the
connected peers (`Held(o)`) is computed from it, and a removal it was
told of without the addition stays visible. `early` is a history
variable: the peers that were connected when the observer registered.

`enumerate_peers` and `enumerate_random_peers` only read `peers_` and
call back, so they change no state and are left out. The task group
that holds the peer tasks is not in the source.

### copy_block (`CopyBlock`)

`copy_block` copies the blocks `[from, to)` out of the snapshots into a
directory with one file per block. `FileDb::upsert` writes the value to
`_<key>.<thread id>` and renames that file over `<key>`. The directory
outlives the process, so `CopyBlock` models runs of the tool one after
another over one directory, each of which may crash between any two of
its file-system steps.

| Action | Code |
|---|---|
| `Start` | `main`: the `--from > --to` refusal (169-172), then the try block's opens, any of which may throw into the catch clause (176-193, 205-208) |
| `CopyNext` | one iteration of the copy loop: past `--to` it ends, a block the snapshots lack prints "Failed" and breaks (both return 0), otherwise the block is encoded and upsert opens its temporary file with `trunc` (195-201, 73-74) |
| `Write` | `out.write` and `out.close`: the whole value, a short write, or nothing on a stream whose open failed (75-76) |
| `Rename` | `std::filesystem::rename` moves the temporary file over the key, or throws when there is none, and the run returns -1 (77) |
| `Crash` | the process dies between two steps; the files stay |

A file's content is `"empty"`, `"partial"` or `"full"`: how much of its
block's RLP and Brotli encoding it holds. `out` is whether the
`std::ofstream` opened. A run's thread id is any of `ThreadIds`. A
process's main thread id is `pthread_self`, which commonly repeats from
one run to the next, so a rerun may reuse a crashed run's temporary
name. `snapshots` is the snapshot directory, any subset of
`SnapshotFiles`, fixed for the behaviour. A block is read when
`find_bundle` over the bundles `reopen_folder` opened returns a bundle
whose range holds it (`read_block_from_snapshot`; `DataModel` is not in
the source, so this one operator is modelled from its use). `main`
builds the repository and calls `reopen_folder` once per run (186-191),
and the directory does not change while the tool runs, so `RunBundles`
is a function of `snapshots`.
`FileDb::get` and `remove` are never called by `main`.

### Snapshot repository (`SnapshotRepository`)

A file is a record `[from, to, type, idx]`: its block range, its
snapshot type and whether it is an index. Each operator is one method of
`repository.cpp`:

| Operator | Code |
|---|---|
| `Froms`, `GroupTypes`, `GroupPath` | the two loops building `groups[block_from][is_index][type]` over the sorted paths; the last path of a type wins, so of two files with one `block_from` the longer one (121-133) |
| `GroupComplete` | the while condition: the group exists and has `kSnapshotsCount` segment and `kIndexesCount` index types (142-144) |
| `MakeBundle` | `bundle_factory_->make(snapshot_path, index_path)` (146-152); the bundle's range is its `RangeType` segment's |
| `Chain`, `reopen_folder` | the while loop from the lowest `block_from`: a bundle for each complete group not yet open, then on to its `block_to`, stopping at a bundle that does not advance (116-170) |
| `find_bundle` | newest bundle first, the one holding the block or empty and starting at it, else `nullptr` (`NoBundle`) (174-186) |
| `max_block_available` | the last block of the bundle with the largest `block_from` (66-74) |
| `FirstSegment`, `MissingFrom`, `missing_block_ranges` | the loop over the segments in `get_files`' order, skipping those ending at or before `previous_to` and reporting the gap before each other one (76-90, 210-211) |

`SnapshotPath`'s order is not in the source; the comment on the sort in
`get_files` says "by version/block-range/type", and the model orders by
`(block_from, block_to)`. Types of one range are never told apart by the
loops.

`ReadableIsChainedGroups` compares what the tool can read with a
reference written without the loop: the largest set of complete groups
each of which is the lowest group or starts where another of the set
ends, each covering `[from, end of its longest RangeType segment)`.

### Refinement

`BlockProviderSpec` and `FromToSpec` each instantiate `SortedStream` with
`INSTANCE SortedStream WITH expected <- expected, emitted <- emitted,
status <- status`. These are the harness's own variables:

- `expected` is a history variable, set when the provider is built.
  `get()` never changes the table, the direction or the reference, so it
  equals `ExpectedBlocks` of the provider's current state.
- It is kept as a variable rather than that expression because TLC
  re-evaluates a mapped expression inside `ENABLED`, which made the runs
  about twenty times slower.

The abstract spec's `Spec`, with weak fairness of `Emit`, is checked as a
`PROPERTY`.

`MCProviderStreams` checks both harnesses in one run. Its initial
`provider` picks the single provider or the merge. The consumer's
variables (`resp`, `emitted`, `status`, `faults`, `expected`, `calls`)
are shared through `INSTANCE`, and both harnesses map them onto the
stream in the same way. So the run checks one `SortedStream` instance
over those variables, and that instance covers both implementations.
Each harness keeps its own bounds through `INSTANCE ... WITH`, and its
own fairness, conditioned on the provider picked.

- `expected` is what the provider should produce:
  - forward: the history blocks at or above the reference, ascending;
  - backward: the blocks at or below it, descending.
- `emitted` is every non-end value handed out so far.
- `status` turns "exhausted" on `has_more = false` and "failed" on
  `error`.

## 3. Runs

| Run | Expect | Checks |
|---|---|---|
| ProviderStreams | pass | `TypeOK`, `ImplementsSortedStream`: either single provider over any layout and any reference (0..7) with any one failure, or the merge over both indexes |
| OtsSearchLastPage | violation | `LastPageMeansComplete` |
| OtsSearchFault | violation | `PageIsIdeal` with one failure |
| OtsAccountHistory | pass | one request to any of the four history handlers: `TypeOK`; `NonceSearchCorrect` (the reply is the sender's transaction with that nonce, or null) and `CreatorOfContract` (for a live contract, the deployment of its current incarnation), any one read failing; `PageIsIdeal` (search page contents and order against an independent definition, sorted newest first), without failures; `RequestTerminates` for all of them |
| OtsCreatorDestructed | violation | `CreatorOnlyForContracts` |
| RpcRequestLifecycle | pass | `TypeOK`, `TxClosedExactlyOnce`, `PageIsWindow`, `BlockByTimestampIsLowest`, `ReceiptsMatchBlock` (the receipts and logs replied for a stored block are the chain's), with any one read throwing |
| RpcRequestMissingReceipts | violation | `NoUndefinedBehaviour` for a block whose receipts are not stored |
| RpcRequestCloseFails | violation | `TxClosedExactlyOnce` when `tx->close()` may throw |
| PeerManagerLifecycle | pass | `TypeOK`; `ObserverViewSound` (between handlers, a live observer holds no peer that has left `peers_` and every peer added after it registered, however `add_observer` falls between the split steps); `EveryPeerHandled`: both loops, three peers, `max_peers` 2, two observers, the peer passed without being emptied |
| CopyBlockCrashes | pass | `TypeOK`, `KeysHoldCompleteBlocks`, `ExitZeroMeansCopied`, `StrayTempsOnlyFromCrashes`: two runs over blocks 0..2, crashes between any two steps, thread ids that may repeat, a failing database open; `ReadableIsChainedGroups` (the blocks read are those of the groups chained from the lowest one, against the reference) and `MaxBlockIsLastReadable` (`max_block_available` is the last of them), over every snapshot directory of the model; `RunEnds` (a run that starts copying ends unless it crashes) |
| CopyBlockStaleTemp | violation | `KeysHoldCompleteBlocks` when a rerun reuses a crashed run's thread id and its open fails |
| OtsSearchAfterMax | violation | `AfterPageAfterReference` for "after" requests at the largest block number |

Two earlier violation runs were retired from the run list. Their cfgs
stay in the directory as reproductions, and TLC still finds each
violation:

- `BlockProviderStickyFault.cfg` (`MCBlockProviderSpec`,
  `TerminationIsSticky`). A failed look-ahead read returns `error`
  without setting `finished_` (`ots_api.cpp:1025`, and `:1152` going
  backward), so the next `get()` reads past the bitmap vector. spec §4.3
  says a look-ahead error is terminal. The only caller, `trace_blocks`,
  stops at the first error response, so it never makes that next call.
  The defect is latent: no path of this program reaches it.
- `PeerManagerObservers.cfg` (`MCPeerManager`, `ObserverViewSound` with
  `PassByValue` TRUE). The notification loops call
  `observer->on_peer_added(std::move(peer))` for every observer
  (`peer_manager.cpp:136`, and `:142` for removals). If the observer's
  handler takes the `shared_ptr` by value, the first call empties
  `peer`, and with two observers the second one holds `NullPeer`
  instead of the peer. The observer interface is not in the source, so
  whether the handler does take it by value is not known; the project
  keeps it as a hazard.
- `PeerManagerUnseenRemoval.cfg` (`MCPeerManager`,
  `RemovalsFollowAdditions`). An observer that registers while a peer
  is connected, or between `peers_.remove` (`:70`) and the
  `observers()` snapshot of `on_peer_removed` (`:71`), is told of the
  removal of a peer it was never told was added. Whether an observer
  tolerates that is up to the observer, which is not in the source.

Two repository flaws have reproduction cfgs outside the run list, which
is full (`MCCopyBlock`; TLC finds each violated in an initial state):

- `CopyBlockMissingRanges.cfg` (`MissingRangesAreGaps`). With the
  segment `[0,1)` and the merged `[0,3)` in the directory,
  `missing_block_ranges` reports the range `(1, 0)`: the merged segment
  comes after `[0,1)` in the order, ends after `previous_to` and does not
  start at it (`repository.cpp:83-85`). Nothing in the source calls
  `missing_block_ranges`.
- `CopyBlockBundleMismatch.cfg` (`BundleFilesAgree`). With the segment
  `[0,1)` and only the index of `[0,3)`, group 0 is complete, and the
  bundle pairs the segment with an index built over another file
  (`:123-133`: segments and indexes are chosen separately). What reads
  through that bundle return depends on `SnapshotBundle`, which is not
  in the source.

### What the violations show (the findings in PROJECT.json)

1. **`last_page`/`first_page` can claim completeness while matches are
   dropped** (`:713`). `trace_blocks` traces `page_size - result_count`
   blocks. The handler stops after the block that fills the page and
   discards the rest, but sets the flag from the provider's final
   `has_more`.
   - TLC's example: page size 2, before block 3, with block 2 holding 2
     matches and block 1 holding 1.
   - The reply holds 2 matches with `last_page = true`.
2. **A failure mid-page becomes a successful short page** (`:841`).
   `trace_blocks` ignores `error`. An error response looks like the end
   mark, so the handler replies with the partial page and
   `last_page = true`. This contradicts spec §7.
3. **A self-destructed contract can get a creator** (`:396`).
   `ots_getContractCreator` decodes the value at the first PlainState key
   at or after the address without checking the key. A destroyed contract
   has no state, so the handler reads the next address's account. If that
   account is a contract, the no-account and no-code checks pass, and the
   search runs with the other account's incarnation.
   - TLC's example: a deployment at block 1 and a self-destruct at
     block 2, with a neighbouring contract at incarnation 1.
   - The reply names block 1 as the creator of an address that holds no
     code.
4. **A throwing close is retried** (`ots_api.cpp:586`, `:540`, `:632`;
   `erigon_api.cpp:202`, `:359`, `:366`, `:406`). These handlers close the
   transaction inside the try block before an early return. If that close
   throws, the catch clause replies an internal error, and the close after
   the try block runs again on the same transaction.
5. **A crashed run's temporary file can replace a block**
   (`copy_block.cpp:77`). `FileDb::Impl::upsert` never checks its
   `std::ofstream`. When the open fails, `write` and `close` do nothing,
   and `rename` moves whatever file has the temporary name over the key.
   - TLC's example: a run opens `_0.<id>` and crashes. A rerun gets the
     same thread id, and its open of `_0.<id>` fails.
   - The rerun renames the empty stale file over block 0 and goes on as
     if it had stored the block.
   - A short write at line 75 (a full disk) replaces a key with a
     truncated value the same way, in a single run.

6. **An "after" search from the largest block starts at genesis**
   (`:770`). `handle_ots_search_transactions_after` increments
   `block_number` as a `uint64_t`. A client that names block 2^64-1 gets
   the wrap to 0, and the page holds blocks below the reference.
   - The model uses 3-bit block numbers, so TLC's example is an "after"
     request at block 7 that returns block 1.

7. **Missing receipts make erigon_getBlockReceiptsByBlockHash index an
   empty vector** (`erigon_api.cpp:210`). When a block has no
   `BlockReceipts` entry, `get_receipts` returns an empty list; re-execution
   is a TODO. The handler still assigns `receipts[i].effective_gas_price`
   for every transaction of the block, through `operator[]`. That is
   undefined behaviour.
   - TLC's example: a found block of one transaction, with no receipts
     stored.
   - `ots_getBlockTransactions` takes `receipts.at(i)` on the same path.
     It throws, and the handler replies an internal error.
   - `erigon_getLogsByHash` replies an empty list as a success.

A further divergence is recorded without a run:
`FromToBlockProvider::get` answers `{0, false, true}`, that is
`error = true`, once both sides are exhausted, with nothing failed
(`:1213`). spec §4.3 keeps `error` for failures. `trace_blocks` ignores
the flag, so no reply depends on it.

### Mutation checks

Every property of a passing run is shown to catch a plausible bug of the
code it is about. The checks use the `*_...` operators defined just above
their originals:

| Mutant | Property it breaks |
|---|---|
| `iterator` without the index reset | `TypeOK` |
| `advance_if_needed` using `>` | `ImplementsSortedStream` |
| `has_more_x_` without `\|\| next != 0` | the merge's `ImplementsSortedStream` |
| the swapped head comparison | `PageIsIdeal` |
| `has_more` not assigned from `trace_blocks` | `RequestTerminates` |
| the nonce block taken at `idx` instead of `idx - 1` | `NonceSearchCorrect` |
| a block's first transaction returned without matching sender and nonce | `TypeOK` |
| the creator block taken at `idx` instead of `idx - 1` | `CreatorOfContract` |
| `gas_used` taken as the stored cumulative gas | `TypeOK` (request lifecycle) |
| `log_index` restarting at every receipt | `ReceiptsMatchBlock` |
| `page_start >= page_end` for `>` | `PageIsWindow` |
| the early return without its close | `TxClosedExactlyOnce` |
| the walk back without the check of the earlier header | `BlockByTimestampIsLowest` |
| the received peer not pushed into `peers_` | `TypeOK` (peer manager) |
| `start_peer` ending without `on_peer_removed` | `ObserverViewSound` |
| a peer received while full is neither added nor dropped | `EveryPeerHandled` |
| the copy loop running while `block_num <= to` | `TypeOK` (copy_block) |
| the value written in place, with no temporary file | `KeysHoldCompleteBlocks` |
| the loop starting one block after `--from` | `ExitZeroMeansCopied` |
| the value copied over the key and the temporary file kept | `StrayTempsOnlyFromCrashes` |
| each group keeping the first of its sorted paths instead of the last | `ReadableIsChainedGroups` |
| `max_block_available` returning the bundle's `block_to` | `MaxBlockIsLastReadable` |
| the copy loop without `block_num++` | `RunEnds` |

## 4. Bounds

- **Width 3.** Block numbers 0..7, so `MaxBlockNum = 7`. That is room for
  the whole history plus references below, between, above and at the
  maximum.
- **Providers: Blocks 1..5, up to 3 chunks, neighbours none / both /
  above, references 0..7, one failure, MaxCalls 7.**
  - These cover references inside a chunk, between chunks, below and above
    the history, and at `MaxBlockNum`.
  - They cover chunks that clip to empty, which forces the refill.
  - They cover seeks that land on the neighbour.
  - MaxCalls 7 allows every block, the end mark and one call after it
    (asserted: `MaxCalls >= |Blocks| + 2`).
- **Merge: Blocks 1..4, up to 2 chunks per index.** Each index is
  independent, so shared, disjoint and interleaved histories all occur.
- **Handler:**
  - Blocks 1..3 in up to 2 chunks per index, with 1-2 matches per block.
  - Page sizes 0..3 against `kMaxPageSize = 2`, so page size 0, a
    rejected page size and pages filled mid-block all occur.
  - Every reference below `MaxBlockNum`, plus the "after at max" requests.
  - Block 0 keeps its role as the code's end mark.
- **Nonce search:** blocks 1..3 in up to 2 chunks, 0-2 transactions of the
  sender per block, every nonce 0..7, and a neighbour above with nonce 0
  or 4. Nonces in the last block of a chunk, of the whole history, and
  beyond it all occur.
- **Creator search:** blocks 1..3 in up to 2 chunks, every sequence of
  touches, deployments and self-destructs the EVM allows, and a neighbour
  with no account, an account without code, or a contract at incarnation
  1 or 2. Redeployments across a chunk boundary occur.
- **Request lifecycle:**
  - a 3-bit `size_t`, blocks of 0..3 transactions, page sizes 0..2 and
    page numbers 0..3;
  - chains of one, three and four headers with strictly increasing
    timestamps below 8, asked for every timestamp -1..7 and for one that does not parse.
  - The page inputs keep `page_size * page_number` below `2^Width`. The
    product's own overflow is a hazard left open.
  - Up to 3 transactions, each using gas 1 or 2 and emitting 0..2 logs,
    with receipts stored or not. This gives blocks where gas values
    differ, blocks with several logs in one receipt, and blocks whose logs
    are spread over several receipts. That is what it takes for an error
    in `gas_used` or in the block-wide `log_index` to show.

- **Peer manager:** the two channels, three peers and `max_peers` 2.
  A third peer arrives while two are connected, from either channel, and
  the loops interleave at the limit. The peers end in any order. Two
  observers register at any point relative to the peers: before any
  peer, while some are connected, between `push_back` and the snapshot
  or between `peers_.remove` and the snapshot, or never. Each may be
  destroyed at any point. Two observers are what it takes for the
  order of the snapshot and for a destroyed observer among live ones to
  matter. The pass run has `PassByValue` FALSE; the reproduction cfgs
  use two peers and `max_peers` 1.
- **copy_block:** blocks 0..2. The snapshot directory is any subset of
  a segment and an index of one type for each of `[0,1)`, `[1,3)` and
  the merged `[0,3)`: 64 directories, with gaps, incomplete groups, a
  merged file beside the ones it replaces, and every block missing or
  present. One type is enough for the loops, which only count types per
  group. `--from` and `--to` lie anywhere in 0..3, so empty ranges,
  refused ranges and ranges cut short by a missing block all occur. Two
  runs, up to two crashes and thread ids 1 and 2: a rerun over a
  crashed run's files, with its thread id or another, occurs at every
  step. One failure of the database open is allowed. The pass run leaves
  out failures of the temporary file's open and of the write, which break
  `KeysHoldCompleteBlocks` as finding 5 shows. The violation run uses one
  thread id and one failed open.

## 5. Fairness

A request is served by one coroutine, and every one of its steps is always
enabled until it replies. Each harness asserts weak fairness of its next
step. It is written as `<>[]guard => []<><<Next>>_vars`, where the guard is
exactly the step's enabling condition. The step always changes a counter or
`pc`, so it never stutters.

This form is used instead of `WF_vars` because TLC evaluates `ENABLED`
through the nested provider operators without caching their `LET`s, and
that is exponential.

`SortedStream` itself assumes weak fairness of `Emit` and of
`ExhaustEmpty`.

`OtsNonce` and `OtsCreator` assume `WF_vars(Next)` for the same reason:
one coroutine serves the request. `MCOtsAccountHistory` states weak
fairness of its next step. For the nonce and creator searches this is
`WF_vars(method # "search" /\ Next)`. For the search it takes
`OtsSearch`'s form, and `RequestTerminates` holds for all three. `RpcRequest`
checks safety only and assumes no fairness.

`CopyBlock` assumes weak fairness of a run's own steps (`CopyNext`,
`Write`, `Rename`): `main` runs on the process's one thread, which the
operating system keeps running until it returns or dies. Starting the
tool again and crashing get no fairness: a run may crash at any point,
and the tool need not be run again. Each step is enabled exactly when
`pc` has its value, so its fairness is written in the
`<>[]guard => []<><<A>>_vars` form. Under `WF_vars`, TLC would evaluate
`ENABLED` through `reopen_folder` without caching, which takes minutes.
`RunEnds` is checked under this fairness.

`PeerManager` assumes weak fairness of each accept loop's two steps,
`Receive(s)` and `PeerAdded(s)`, and of `PeerRemoved(p)`. The asio
strand runs every handler that is ready: a loop whose `receive()` has
a peer waiting is ready, and a handler that has started a run of code
without a `co_await` finishes it. `Peer::start`
and `Peer::drop` may run for ever: a connected peer can stay connected.
So `StartPeer` and `DropPeer` get no fairness, and neither do the
observers' owners.

## 6. Not modelled

- **PeerManager's task limit.** Nothing bounds the number of `drop_peer`
  tasks in flight (`peer_manager.cpp:47`). What `peer_tasks_.spawn` does
  at `max_peers + 10` tasks is decided by the task group, which is not
  in the source, so the model keeps drop tasks unbounded.
- **The rest of SnapshotRepository.** `close`, `add_snapshot_bundle`,
  `missing_indexes` and `remove_stale_indexes` are not called anywhere
  in the source. `copy_block` opens the repository and reads on one
  thread, so `bundles_mutex_` never has a contender. Stale indexes are
  decided by file modification times. `SnapshotPath`, `SnapshotBundle`
  and `DataModel` are not in the source; their order, range and read are
  taken as section 2 describes.
- **RemoteTransaction's cursor caches.** `close()` does not clear
  `dup_cursors_`. The handlers never reuse a closed transaction, and
  their coroutines open cursors one after another, so this program never
  meets it.
- **DataMigration::run.** It only calls `cleanup`, `next_command`,
  `migrate`, `index`, `commit` and `cleanup` in order. All of them are
  virtual and implemented outside the source, so what a crash between two
  of them leaves behind is decided by code that is not here.
- **Receipts from a damaged store.** These cases need a corrupt
  database, which the model does not generate:
  - a `Logs` entry that fails to decode, which ends the walk silently
    (`receipts.cpp:125`);
  - a `tx_id` past the receipts (`:124`);
  - a receipt count that differs from the block's (`:56`).
- **Left out of the request lifecycle:** `ots_getApiLevel` (a constant),
  `get_issuance` and `get_block_fees` (values no property tells apart),
  and the trimming of quotes and blanks around the timestamp string (only
  whether `std::stol` succeeds, and the long it returns, are kept).
- The project is at its budget of twelve runs. A new component needs an
  existing run merged or retired first. The account-history handlers and
  the search already share one pass run.
- **Out of scope:**
  - reconnect (declarations only);
  - the http Channel (interface only);
  - the gRPC stubs (generated);
  - the test files;
  - JSON encoding;
  - the tracer behind `trace_block`;
  - the `BlockProvider` constructors and `kMaxPageSize`, which live in
    `ots_api.hpp` and are not in the source. The constructors are modelled
    as storing the reference block unchanged, so "before" with reference 0
    is left out of the handler's inputs.
