\* Two runs of the tool over blocks 0..2, each with either of two thread
\* ids: either run may crash between any two file-system steps, and
\* opening the database may fail once; the snapshot directory is any set
\* of segments and indexes [0,1), [1,3) and the merged [0,3).
CONSTANTS
  SnapshotFiles <- MCSnapshotFiles
  SegmentTypes = {"headers"}
  IndexTypes = {"headers"}
  RangeType = "headers"
  LastBlock = 2
  MaxRuns = 2
  MaxCrashes = 2
  ThreadIds = {1, 2}
  FailOps = {"open_db"}
  MaxFaults = 1
\* A run's own steps are weakly fair; starting again and crashing are not.
SPECIFICATION FairSpec
\* Once the last run has exited nothing is left to do.
CHECK_DEADLOCK FALSE
INVARIANT TypeOK
INVARIANT KeysHoldCompleteBlocks
INVARIANT ExitZeroMeansCopied
INVARIANT StrayTempsOnlyFromCrashes
INVARIANT ReadableIsChainedGroups
INVARIANT MaxBlockIsLastReadable
PROPERTY RunEnds
