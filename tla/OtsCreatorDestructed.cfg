\* Does a self-destructed contract get a creator?
CONSTANTS
  Width = 3
  Blocks <- MCBlocks
  MaxChunks = 2
  Neighbours <- MCNeighbours
  OtherAccounts <- MCOtherAccounts
  MaxFaults = 0
SPECIFICATION Spec
\* The handler stops once it has replied.
CHECK_DEADLOCK FALSE
INVARIANT CreatorOnlyForContracts
