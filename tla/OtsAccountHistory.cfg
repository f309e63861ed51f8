\* One request to the nonce search, the creator search (every history of up to two chunks, any one read failing) or the transaction search (no failure).
CONSTANTS
  Width = 3
  Blocks <- MCBlocks
  MaxChunks = 2
  Neighbours <- MCNeighbours
  MaxSent = 2
  Nonces <- MCNonces
  OtherNonces <- MCOtherNonces
  OtherAccounts <- MCOtherAccounts
  MaxFaults = 1
SPECIFICATION Spec
\* The handler stops once it has replied.
CHECK_DEADLOCK FALSE
INVARIANT TypeOK
INVARIANT NonceSearchCorrect
INVARIANT CreatorOfContract
INVARIANT PageIsIdeal
PROPERTY RequestTerminates
