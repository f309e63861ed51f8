\* One run over any snapshot directory of segments and indexes [0,1),
\* [1,3) and the merged [0,3): the bundle reopen_folder makes from a group whose longest segment and
\* longest index cover different ranges.
CONSTANTS
  SnapshotFiles <- MCSnapshotFiles
  SegmentTypes = {"headers"}
  IndexTypes = {"headers"}
  RangeType = "headers"
  LastBlock = 2
  MaxRuns = 1
  MaxCrashes = 0
  ThreadIds = {1}
  FailOps = {}
  MaxFaults = 0
SPECIFICATION Spec
CHECK_DEADLOCK FALSE
INVARIANT BundleFilesAgree
