------------------------- MODULE SnapshotRepository -------------------------
(***************************************************************************)
(* The snapshot repository as copy_block uses it                           *)
(* (silkworm/db/snapshots/repository.cpp): reopen_folder groups the       *)
(* segment and index files of the snapshot directory by block_from and    *)
(* opens a bundle for each complete group, chained from the lowest        *)
(* block_from; find_bundle looks a block up in the bundles.               *)
(*                                                                         *)
(* A file is a record [from, to, type, idx]: its block range [from, to),  *)
(* its snapshot type, and whether it is an index (.idx) or a segment      *)
(* (.seg).  get_files sorts the paths by version, block range and type    *)
(* (SnapshotPath's order, stated by the comment at line 211; the class    *)
(* is not in the source): of two files with the same block_from and type *)
(* the one with the larger block_to comes later.  SnapshotBundle is not   *)
(* in the source either; a bundle here records the files it was made of  *)
(* and takes its block range from its RangeType segment.                  *)
(***************************************************************************)
EXTENDS Naturals, Sequences, FiniteSetsExt, Functions, TLC

CONSTANTS
  SegmentTypes,  \* the SnapshotTypes of a bundle's segments (kSnapshotsCount of them)
  IndexTypes,    \* the SnapshotTypes of a bundle's indexes (kIndexesCount of them)
  RangeType      \* the segment type a bundle's block range is taken from

ASSUME RangeType \in SegmentTypes

\* find_bundle's nullptr.
NoBundle == [from |-> 0, to |-> 0, segs |-> {}, idxs |-> {}]

\* The keys of reopen_folder's groups: the block_from of every segment and
\* every index file.
Froms(dir) == {f.from : f \in dir}

\* The types of group[num][isIdx].
GroupTypes(dir, num, isIdx) == {f.type : f \in {g \in dir : g.from = num /\ g.idx = isIdx}}

\* Mutation: the group keeps the first of the sorted paths.
GroupPath_first(dir, num, isIdx, type) ==
  LET c == {f \in dir : f.from = num /\ f.idx = isIdx /\ f.type = type}
  IN CHOOSE f \in c : \A g \in c : f.to <= g.to

\* group[num][isIdx][type]: the loops over the sorted paths keep the index
\* of the last one, the file with the largest block_to.
GroupPath(dir, num, isIdx, type) ==
  LET c == {f \in dir : f.from = num /\ f.idx = isIdx /\ f.type = type}
  IN CHOOSE f \in c : \A g \in c : g.to <= f.to

\* The while condition: the group holds every segment and every index type.
GroupComplete(dir, num) ==
  /\ num \in Froms(dir)
  /\ Cardinality(GroupTypes(dir, num, FALSE)) = Cardinality(SegmentTypes)
  /\ Cardinality(GroupTypes(dir, num, TRUE)) = Cardinality(IndexTypes)

\* bundle_factory_->make(snapshot_path, index_path) for group num.
MakeBundle(dir, num) ==
  [from |-> num,
   to   |-> GroupPath(dir, num, FALSE, RangeType).to,
   segs |-> {GroupPath(dir, num, FALSE, t) : t \in SegmentTypes},
   idxs |-> {GroupPath(dir, num, TRUE, t) : t \in IndexTypes}]

(* The while loop of reopen_folder: a bundle for each complete group not  *)
(* already open, then on to the group at its block_to; it stops at a      *)
(* missing or incomplete group, or at a bundle that ends where it starts. *)
RECURSIVE Chain(_, _, _)
Chain(dir, bundles, num) ==
  IF ~GroupComplete(dir, num) THEN bundles
  ELSE LET b == IF num \in DOMAIN bundles THEN bundles ELSE (num :> MakeBundle(dir, num)) @@ bundles
       IN IF num < b[num].to THEN Chain(dir, b, b[num].to) ELSE b

\* reopen_folder: the chain from the lowest key of groups (0 if none).
reopen_folder(dir, bundles) ==
  Chain(dir, bundles, IF dir = {} THEN 0 ELSE Min(Froms(dir)))

\* find_bundle: from the newest bundle to the oldest, the first whose range
\* holds the block, or an empty bundle starting at it.
find_bundle(bundles, n) ==
  LET m == {k \in DOMAIN bundles :
              \/ bundles[k].from <= n /\ n < bundles[k].to
              \/ bundles[k].from = n /\ bundles[k].from = bundles[k].to}
  IN IF m = {} THEN NoBundle ELSE bundles[Max(m)]

\* Mutation: the last block taken as the bundle's block_to.
max_block_available_end(bundles) ==
  IF DOMAIN bundles = {} THEN 0 ELSE bundles[Max(DOMAIN bundles)].to

(* max_block_available: 0 without bundles; otherwise the last block of    *)
(* the bundle with the largest block_from, or its block_from when the     *)
(* bundle is empty.                                                        *)
max_block_available(bundles) ==
  IF DOMAIN bundles = {} THEN 0
  ELSE LET b == bundles[Max(DOMAIN bundles)]
       IN IF b.from < b.to THEN b.to - 1 ELSE b.from

\* The first of the segments in get_files' order (by block range; segments
\* of one range differ only in their type, which the loop ignores).
FirstSegment(segs) ==
  CHOOSE f \in segs : \A g \in segs : f.from < g.from \/ (f.from = g.from /\ f.to <= g.to)

(* The loop of missing_block_ranges over the ordered segments: a segment  *)
(* that ends at or before previous_to is skipped; one that does not start *)
(* at previous_to adds the range [previous_to, block_from); previous_to   *)
(* moves to its block_to.                                                  *)
RECURSIVE MissingFrom(_, _, _)
MissingFrom(segs, previous_to, ranges) ==
  IF segs = {} THEN ranges
  ELSE LET s == FirstSegment(segs)
           rest == segs \ {s}
       IN IF s.to <= previous_to THEN MissingFrom(rest, previous_to, ranges)
          ELSE MissingFrom(rest, s.to,
                 IF s.from # previous_to THEN Append(ranges, <<previous_to, s.from>>) ELSE ranges)

\* missing_block_ranges over get_segment_files.
missing_block_ranges(dir) == MissingFrom({f \in dir : ~f.idx}, 0, <<>>)

=============================================================================
