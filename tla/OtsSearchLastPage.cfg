\* Search pages with no operation throwing: the no-more-pages flag.
CONSTANTS
  Width = 3
  Blocks <- MCBlocks
  MaxChunks = 2
  Neighbours <- MCNeighbours
  TxCounts <- MCTxCounts
  MaxPageSize = 2
  Requests <- MCRequests
  MaxFaults = 0
SPECIFICATION Spec
\* The handler stops once it has replied.
CHECK_DEADLOCK FALSE
INVARIANT LastPageMeansComplete
