\* A block whose receipts are not stored, asked for by erigon_getBlockReceiptsByBlockHash.
CONSTANTS
  Width = 3
  MaxTxs = 3
  MaxLogs = 2
  PageSizes <- MCPageSizes
  PageNumbers <- MCPageNumbers
  Chains <- MCChains
  TimestampParams <- MCTimestampParams
  CloseMayFail = FALSE
  MaxFaults = 0
SPECIFICATION Spec
\* A handler stops once it has replied or thrown.
CHECK_DEADLOCK FALSE
INVARIANT NoUndefinedBehaviour
