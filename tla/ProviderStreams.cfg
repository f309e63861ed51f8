\* Every BlockProvider implementation against the abstract sorted stream.
CONSTANT Width = 3
SPECIFICATION Spec
\* The consumer stops calling after MaxCalls calls, trace_blocks at the end mark.
CHECK_DEADLOCK FALSE
INVARIANT TypeOK
PROPERTY ImplementsSortedStream
