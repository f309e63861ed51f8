\* Search pages with one throwing operation: is a page cut short by a failed read still a success?
CONSTANTS
  Width = 3
  Blocks <- MCBlocks
  MaxChunks = 2
  Neighbours <- MCNeighbours
  TxCounts <- MCTxCounts
  MaxPageSize = 2
  Requests <- MCRequests
  MaxFaults = 1
SPECIFICATION Spec
\* The handler stops once it has replied.
CHECK_DEADLOCK FALSE
INVARIANT PageIsIdeal
