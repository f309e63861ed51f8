\* Single-index block providers: get() after a failed look-ahead read.
CONSTANTS
  Width = 3
  Blocks <- MCBlocks
  MaxChunks = 3
  Neighbours <- MCNeighbours
  References <- MCReferences
  MaxFaults = 1
  MaxCalls = 7
SPECIFICATION Spec
\* The consumer stops calling after MaxCalls calls.
CHECK_DEADLOCK FALSE
PROPERTY TerminationIsSticky
