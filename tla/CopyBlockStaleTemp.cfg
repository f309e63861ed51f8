\* Two runs of the tool over blocks 0..2 that get the same thread id; the
\* first may crash, and opening a temporary file may fail once.
CONSTANTS
  SnapshotFiles <- MCSnapshotFiles
  SegmentTypes = {"headers"}
  IndexTypes = {"headers"}
  RangeType = "headers"
  LastBlock = 2
  MaxRuns = 2
  MaxCrashes = 1
  ThreadIds = {1}
  FailOps = {"open_file"}
  MaxFaults = 1
SPECIFICATION Spec
CHECK_DEADLOCK FALSE
INVARIANT KeysHoldCompleteBlocks
