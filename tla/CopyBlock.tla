------------------------------ MODULE CopyBlock ------------------------------
(***************************************************************************)
(* The copy_block tool (src/block/copy_block.cpp).  main copies the       *)
(* blocks [from, to) out of the snapshots into a BlockDb, which keeps one *)
(* file per block, and stops at the first block the snapshots do not      *)
(* hold.  BlockDb::upsert encodes the block, and FileDb::upsert then:     *)
(* opens "_<key>.<thread id>" with trunc, writes the value, closes the    *)
(* file, and std::filesystem::rename's it over "<key>".                   *)
(*                                                                         *)
(* The directory outlives the process.  A run may crash between any two   *)
(* of these file-system steps, and the tool may be run again.  A file's   *)
(* content is abstracted to how much of its block's encoding it holds:    *)
(* "empty", "partial" (a short write) or "full".  A run's thread id is    *)
(* any of ThreadIds: a process's main thread id is pthread_self, which    *)
(* often repeats from one run to the next, so two runs may share a        *)
(* temporary file name.                                                   *)
(***************************************************************************)
EXTENDS Naturals, FiniteSets, Functions, TLC, SnapshotRepository

CONSTANTS
  SnapshotFiles, \* the segment and index files the snapshot directory may hold
  LastBlock,   \* the largest block number the snapshots may hold
  MaxRuns,     \* how many times the tool is run
  MaxCrashes,  \* how many runs may crash
  ThreadIds,   \* the thread ids a run may get, positive integers
  FailOps,     \* the operations that may fail: "open_db", "open_file", "write"
  MaxFaults    \* how many operations may fail in a behaviour

ASSUME LastBlock \in Nat /\ MaxRuns \in Nat /\ MaxCrashes \in Nat
ASSUME ThreadIds \subseteq Nat \ {0}
ASSUME FailOps \subseteq {"open_db", "open_file", "write"} /\ MaxFaults \in Nat

Blocks == 0..LastBlock

ASSUME \A f \in SnapshotFiles : f.from < f.to /\ f.to <= LastBlock + 1

\* --from and --to (exclusive): any block number, or one past the last.
Params == 0..(LastBlock + 1)

\* The path of block n's file, and of its temporary file "_n.<r>" in the
\* thread with id r; thread ids are positive, so 0 marks the key itself.
KeyPath(n) == <<n, 0>>

\* Mutation: the value written in place.
TempPath_direct(n, r) == KeyPath(n)

TempPath(n, r) == <<n, r>>

IsKey(p) == p[2] = 0

VARIABLES
  snapshots,  \* the files of the snapshot directory (data_dir.snapshots())
  files,      \* the block_db directory: [path -> content]
  pc,         \* "idle" (no process), "copy", "write", "rename" or "exited"
  run,        \* runs started so far
  tid,        \* the last run's thread id
  from, to,   \* the last run's --from and --to
  blockNum,   \* block_num
  out,        \* whether upsert's std::ofstream opened its file
  exit,       \* main's return value, once pc = "exited"
  crashes,    \* runs that crashed
  faults      \* operations that failed

vars == <<snapshots, files, pc, run, tid, from, to, blockNum, out, exit, crashes, faults>>

(* The bundles of the run's repository: main constructs an empty          *)
(* SnapshotRepository and calls reopen_folder once, before the loop; the  *)
(* directory does not change while the tool runs, so every run opens the  *)
(* same bundles.                                                          *)
RunBundles(dir) == reopen_folder(dir, [k \in {} |-> NoBundle])

(* DataModel::read_block_from_snapshot: the bundle find_bundle returns    *)
(* holds the block, so its header and body are read from the segments.   *)
read_block_from_snapshot(n) ==
  LET b == find_bundle(RunBundles(snapshots), n) IN b.from <= n /\ n < b.to

Init ==
  /\ snapshots \in SUBSET SnapshotFiles
  /\ files = [p \in {} |-> "full"]
  /\ pc = "idle"
  /\ run = 0
  /\ tid \in ThreadIds
  /\ from = 0
  /\ to = 0
  /\ blockNum = 0
  /\ out = FALSE
  /\ exit = 0
  /\ crashes = 0
  /\ faults = 0

\* Operation op of the file system or the database fails.
Fault(op) == op \in FailOps /\ faults < MaxFaults /\ faults' = faults + 1

\* Mutation: the loop starts one block after --from.
Start_skipfirst ==
  /\ pc \in {"idle", "exited"}
  /\ run < MaxRuns
  /\ run' = run + 1
  /\ tid' \in ThreadIds
  /\ \E f, t \in Params :
       /\ from' = f /\ to' = t /\ blockNum' = f + 1
       /\ IF f > t THEN pc' = "exited" /\ exit' = -1 /\ UNCHANGED faults
          ELSE \/ pc' = "copy" /\ UNCHANGED <<exit, faults>>
               \/ Fault("open_db") /\ pc' = "exited" /\ exit' = -1
  /\ UNCHANGED <<snapshots, files, out, crashes>>

(* main: --from above --to is refused with -1.  Then, in the try block,   *)
(* BlockDb's constructor creates the directory and the database and the  *)
(* snapshot repository are opened; a failure there is caught and the run *)
(* ends with -1.                                                           *)
Start ==
  /\ pc \in {"idle", "exited"}
  /\ run < MaxRuns
  /\ run' = run + 1
  /\ tid' \in ThreadIds
  /\ \E f, t \in Params :
       /\ from' = f /\ to' = t /\ blockNum' = f
       /\ IF f > t THEN pc' = "exited" /\ exit' = -1 /\ UNCHANGED faults
          ELSE \/ pc' = "copy" /\ UNCHANGED <<exit, faults>>
               \/ Fault("open_db") /\ pc' = "exited" /\ exit' = -1
  /\ UNCHANGED <<snapshots, files, out, crashes>>

\* Mutation: the loop runs while block_num <= to.
CopyNext_pastto ==
  /\ pc = "copy"
  /\ IF blockNum > to \/ ~read_block_from_snapshot(blockNum)
     THEN pc' = "exited" /\ exit' = 0 /\ UNCHANGED <<files, out, faults>>
     ELSE /\ pc' = "write"
          /\ UNCHANGED exit
          /\ \/ files' = (TempPath(blockNum, tid) :> "empty") @@ files /\ out' = TRUE /\ UNCHANGED faults
             \/ Fault("open_file") /\ out' = FALSE /\ UNCHANGED files
  /\ UNCHANGED <<snapshots, run, tid, from, to, blockNum, crashes>>

(* One iteration of the copy loop: past --to the loop ends; a block the   *)
(* snapshots do not hold prints "Failed" and breaks, and main returns 0;  *)
(* otherwise the block is encoded and upsert opens its temporary file     *)
(* with trunc, which may fail and leave the stream in a failed state.    *)
CopyNext ==
  /\ pc = "copy"
  /\ IF blockNum >= to \/ ~read_block_from_snapshot(blockNum)
     THEN pc' = "exited" /\ exit' = 0 /\ UNCHANGED <<files, out, faults>>
     ELSE /\ pc' = "write"
          /\ UNCHANGED exit
          /\ \/ files' = (TempPath(blockNum, tid) :> "empty") @@ files /\ out' = TRUE /\ UNCHANGED faults
             \/ Fault("open_file") /\ out' = FALSE /\ UNCHANGED files
  /\ UNCHANGED <<snapshots, run, tid, from, to, blockNum, crashes>>

(* out.write and out.close: the whole value, or a short write the code   *)
(* does not check; nothing on a stream whose open failed.                 *)
Write ==
  /\ pc = "write"
  /\ pc' = "rename"
  /\ LET tmp == TempPath(blockNum, tid)
     IN IF ~out THEN UNCHANGED <<files, faults>>
        ELSE \/ files' = (tmp :> "full") @@ files /\ UNCHANGED faults
             \/ Fault("write") /\ files' = (tmp :> "partial") @@ files
  /\ UNCHANGED <<snapshots, run, tid, from, to, blockNum, out, exit, crashes>>

\* Mutation: the loop's block_num++ left out.
Rename_noinc ==
  /\ pc = "rename"
  /\ LET tmp == TempPath(blockNum, tid)
     IN IF tmp \in DOMAIN files
        THEN /\ files' = (KeyPath(blockNum) :> files[tmp]) @@ Restrict(files, DOMAIN files \ {tmp})
             /\ pc' = "copy"
             /\ UNCHANGED <<exit, blockNum>>
        ELSE /\ pc' = "exited"
             /\ exit' = -1
             /\ UNCHANGED <<files, blockNum>>
  /\ UNCHANGED <<snapshots, run, tid, from, to, out, crashes, faults>>

\* Mutation: the value copied over the key, the temporary file kept.
Rename_copy ==
  /\ pc = "rename"
  /\ LET tmp == TempPath(blockNum, tid)
     IN IF tmp \in DOMAIN files
        THEN /\ files' = (KeyPath(blockNum) :> files[tmp]) @@ files
             /\ blockNum' = blockNum + 1
             /\ pc' = "copy"
             /\ UNCHANGED exit
        ELSE /\ pc' = "exited"
             /\ exit' = -1
             /\ UNCHANGED <<files, blockNum>>
  /\ UNCHANGED <<snapshots, run, tid, from, to, out, crashes, faults>>

(* std::filesystem::rename moves whatever file has the temporary name     *)
(* over the key, atomically, and the loop moves on; without one it        *)
(* throws, and main returns -1.                                           *)
Rename ==
  /\ pc = "rename"
  /\ LET tmp == TempPath(blockNum, tid)
     IN IF tmp \in DOMAIN files
        THEN /\ files' = (KeyPath(blockNum) :> files[tmp]) @@ Restrict(files, DOMAIN files \ {tmp})
             /\ blockNum' = blockNum + 1
             /\ pc' = "copy"
             /\ UNCHANGED exit
        ELSE /\ pc' = "exited"
             /\ exit' = -1
             /\ UNCHANGED <<files, blockNum>>
  /\ UNCHANGED <<snapshots, run, tid, from, to, out, crashes, faults>>

\* The process dies between two steps; the directory keeps its files.
Crash ==
  /\ pc \in {"copy", "write", "rename"}
  /\ crashes < MaxCrashes
  /\ crashes' = crashes + 1
  /\ pc' = "idle"
  /\ UNCHANGED <<snapshots, files, run, tid, from, to, blockNum, out, exit, faults>>

Next == Start \/ CopyNext \/ Write \/ Rename \/ Crash

Spec == Init /\ [][Next]_vars

(* main runs on one thread, which the operating system keeps running     *)
(* until it returns or the process dies: each step of a run is taken if   *)
(* it stays enabled.  Starting the tool again and crashing get no         *)
(* fairness.  CopyNext, Write and Rename are enabled exactly when pc is   *)
(* "copy", "write" and "rename", so weak fairness of each is written with *)
(* that guard, which TLC evaluates without computing ENABLED.            *)
FairSpec ==
  /\ Spec
  /\ <>[](pc = "copy") => []<><<CopyNext>>_vars
  /\ <>[](pc = "write") => []<><<Write>>_vars
  /\ <>[](pc = "rename") => []<><<Rename>>_vars

(***************************************************************************)
(* Properties                                                              *)
(***************************************************************************)

Paths == {KeyPath(n) : n \in Blocks} \cup {TempPath(n, r) : n \in Blocks, r \in ThreadIds}

TypeOK ==
  /\ snapshots \subseteq SnapshotFiles
  /\ DOMAIN files \subseteq Paths
  /\ \A p \in DOMAIN files : files[p] \in {"empty", "partial", "full"}
  /\ pc \in {"idle", "copy", "write", "rename", "exited"}
  /\ run \in 0..MaxRuns
  /\ tid \in ThreadIds
  /\ from \in Params /\ to \in Params
  /\ pc \in {"copy", "write", "rename"} => blockNum \in from..to
  /\ out \in BOOLEAN
  /\ exit \in {0, -1}
  /\ crashes \in 0..MaxCrashes
  /\ faults \in 0..MaxFaults

\* Every block file holds the whole encoding of its block, across crashes
\* at any point of any run and reruns of the tool: upsert writes the value
\* beside the key and renames it over the key only once it is written.
KeysHoldCompleteBlocks == \A p \in DOMAIN files : IsKey(p) => files[p] = "full"

\* A run that returns 0 has stored every block of [from, to) up to the
\* first one the snapshots lack, each whole.
ExitZeroMeansCopied ==
  (pc = "exited" /\ exit = 0) =>
    \A n \in from..(to - 1) :
      (\A m \in from..n : read_block_from_snapshot(m)) =>
        KeyPath(n) \in DOMAIN files /\ files[KeyPath(n)] = "full"

\* The temporary files left in the directory are those of runs that
\* crashed, one at most each, and the one of the step in progress: a run
\* that ends, however it ends, leaves none.
StrayTempsOnlyFromCrashes ==
  Cardinality({p \in DOMAIN files : ~IsKey(p)})
    <= crashes + (IF pc \in {"write", "rename"} THEN 1 ELSE 0)

(* A reference for the blocks the tool can read, stated without the loop: *)
(* a group is complete when it has a segment of every segment type and an *)
(* index of every index type; its range ends at its longest RangeType     *)
(* segment; and the readable groups are the largest set of complete       *)
(* groups each of which is the lowest group or starts where another one   *)
(* of the set ends.                                                        *)
RefComplete(dir, k) ==
  /\ \A t \in SegmentTypes : \E f \in dir : f.from = k /\ ~f.idx /\ f.type = t
  /\ \A t \in IndexTypes : \E f \in dir : f.from = k /\ f.idx /\ f.type = t

RefEnd(dir, k) == Max({f.to : f \in {g \in dir : g.from = k /\ ~g.idx /\ g.type = RangeType}})

RefChained(dir) ==
  UNION {K \in SUBSET {k \in Froms(dir) : RefComplete(dir, k)} :
           \A k \in K : k = Min(Froms(dir)) \/ \E j \in K : RefEnd(dir, j) = k}

\* read_block_from_snapshot finds exactly the blocks of the groups chained
\* from the lowest one: reopen_folder's walk over the groups, each bundle's
\* choice among overlapping files, and find_bundle's search from the
\* newest bundle agree with the reference for every snapshot directory.
ReadableIsChainedGroups ==
  \A n \in Blocks :
    read_block_from_snapshot(n) <=>
      \E k \in RefChained(snapshots) : k <= n /\ n < RefEnd(snapshots, k)

\* max_block_available names the last block the tool can read: once
\* reopen_folder has opened a bundle, read_block_from_snapshot finds that
\* block and none after it.
MaxBlockIsLastReadable ==
  LET bundles == RunBundles(snapshots)
      m == max_block_available(bundles)
  IN DOMAIN bundles # {} =>
       /\ read_block_from_snapshot(m)
       /\ \A n \in Blocks : n > m => ~read_block_from_snapshot(n)

\* The blocks some segment of the directory holds.
SegmentBlocks(dir) == UNION {f.from..(f.to - 1) : f \in {g \in dir : ~g.idx}}

\* missing_block_ranges returns non-empty ranges, and their blocks are
\* exactly those below the end of the last segment that no segment holds.
MissingRangesAreGaps ==
  LET r == missing_block_ranges(snapshots)
      ends == {f.to : f \in {g \in snapshots : ~g.idx}}
  IN /\ \A i \in DOMAIN r : r[i][1] < r[i][2]
     /\ UNION {r[i][1]..(r[i][2] - 1) : i \in DOMAIN r}
          = {n \in 0..(Max(ends \cup {0}) - 1) : n \notin SegmentBlocks(snapshots)}

\* Each bundle reopen_folder makes has its index files built over the same
\* block ranges as its segment files.
BundleFilesAgree ==
  \A k \in DOMAIN RunBundles(snapshots) :
    LET b == RunBundles(snapshots)[k]
    IN {<<f.from, f.to>> : f \in b.idxs} = {<<f.from, f.to>> : f \in b.segs}

\* Every run that gets past main's checks ends: the copy loop reaches --to,
\* a block the snapshots lack, or a failed rename, unless the process
\* dies first.
RunEnds == (pc = "copy") ~> (pc \in {"exited", "idle"})

=============================================================================
