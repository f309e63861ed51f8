\* tx->close() may throw: the early returns that close inside the try block.
CONSTANTS
  Width = 3
  MaxTxs = 3
  MaxLogs = 2
  PageSizes <- MCPageSizes
  PageNumbers <- MCPageNumbers
  Chains <- MCChains
  TimestampParams <- MCTimestampParams
  CloseMayFail = TRUE
  MaxFaults = 1
SPECIFICATION Spec
\* A handler stops once it has replied or thrown.
CHECK_DEADLOCK FALSE
INVARIANT TxClosedExactlyOnce
