\* Every handler path with any one read throwing and tx->close() succeeding.
CONSTANTS
  Width = 3
  MaxTxs = 3
  MaxLogs = 2
  PageSizes <- MCPageSizes
  PageNumbers <- MCPageNumbers
  Chains <- MCChains
  TimestampParams <- MCTimestampParams
  CloseMayFail = FALSE
  MaxFaults = 1
SPECIFICATION Spec
\* A handler stops once it has replied or thrown.
CHECK_DEADLOCK FALSE
INVARIANT TypeOK
INVARIANT TxClosedExactlyOnce
INVARIANT PageIsWindow
INVARIANT BlockByTimestampIsLowest
INVARIANT ReceiptsMatchBlock
