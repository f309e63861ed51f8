\* One run over any snapshot directory of segments and indexes [0,1),
\* [1,3) and the merged [0,3): missing_block_ranges over a directory that holds a segment and
\* the merged segment that contains it.
CONSTANTS
  SnapshotFiles <- MCSnapshotFiles
  SegmentTypes = {"headers"}
  IndexTypes = {"headers"}
  RangeType = "headers"
  LastBlock = 2
  MaxRuns = 1
  MaxCrashes = 0
  ThreadIds = {1}
  FailOps = {}
  MaxFaults = 0
SPECIFICATION Spec
CHECK_DEADLOCK FALSE
INVARIANT MissingRangesAreGaps
