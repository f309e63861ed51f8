\* "after" requests at the largest block number.
CONSTANTS
  Width = 3
  Blocks <- MCBlocks
  MaxChunks = 2
  Neighbours <- MCNeighbours
  TxCounts <- MCTxCounts
  MaxPageSize = 2
  Requests <- MCRequestsAtMax
  MaxFaults = 0
SPECIFICATION Spec
\* The handler stops once it has replied.
CHECK_DEADLOCK FALSE
INVARIANT AfterPageAfterReference
