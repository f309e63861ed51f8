--------------------------- MODULE MCProviderStreams ---------------------------
(***************************************************************************)
(* Model-checking instance for the implementations of the BlockProvider   *)
(* interface of ots_api: ForwardBlockProvider and BackwardBlockProvider    *)
(* driven by repeated get() (BlockProviderSpec), and FromToBlockProvider   *)
(* driven as trace_blocks drives it (FromToSpec).  The initial `provider`  *)
(* picks the implementation; both are checked against SortedStream.  The   *)
(* consumer's state (the last response, the blocks handed out, the status, *)
(* the fault budget, the expected stream and the call count) is shared;    *)
(* each keeps its own provider and tables.                                 *)
(*                                                                         *)
(* Bounds, 3-bit block numbers and every reference block in both:         *)
(*   single provider: a history drawn from blocks 1..5 cut into up to      *)
(*     three chunks, with no neighbour, both or only the one above, and    *)
(*     any one operation throwing;                                         *)
(*   merge: each index holding a history drawn from blocks 1..4 in up to   *)
(*     two chunks, with no neighbour or both, and nothing throwing (the    *)
(*     single providers carry the faults).                                 *)
(* Neighbour addresses are IndexCursor's Below (0) and Above (2).         *)
(***************************************************************************)
EXTENDS Naturals

CONSTANT Width

VARIABLES
  provider,                                       \* "single" or "merge"
  resp, emitted, status, faults, expected, calls, \* the consumer
  table, bp,                                      \* BlockProviderSpec's own
  tables, ft                                      \* FromToSpec's own

vars == <<provider, resp, emitted, status, faults, expected, calls, table, bp, tables, ft>>

\* How many times the consumer of a single provider calls get().
SingleMaxCalls == 7

S == INSTANCE BlockProviderSpec
       WITH Blocks <- 1..5, MaxChunks <- 3, Neighbours <- {{}, {0, 2}, {2}},
            References <- 0..(2^Width - 1), MaxFaults <- 1, MaxCalls <- SingleMaxCalls

F == INSTANCE FromToSpec
       WITH Blocks <- 1..4, MaxChunks <- 2, Neighbours <- {{}, {0, 2}},
            References <- 0..(2^Width - 1), MaxFaults <- 0

\* The state of the implementation that is not picked is left at a fixed value.
Init ==
  \/ /\ provider = "single"
     /\ S!Init
     /\ tables = [s \in F!Sides |-> <<>>]
     /\ ft = F!NewFromToBlockProvider(FALSE, TRUE, 0)
  \/ /\ provider = "merge"
     /\ F!Init
     /\ table = <<>>
     /\ bp = S!NewBlockProvider(TRUE, 0)

Next ==
  \/ provider = "single" /\ S!Next /\ UNCHANGED <<provider, tables, ft>>
  \/ provider = "merge" /\ F!Next /\ UNCHANGED <<provider, table, bp>>

\* The fairness of each harness, for the implementation picked, in the form
\* each states it (its guard in place of ENABLED).
Fairness ==
  /\ <>[](provider = "single" /\ calls < SingleMaxCalls) => []<><<S!Get>>_vars
  /\ <>[](provider = "merge" /\ ~F!Stopped) => []<><<F!Get>>_vars

Spec == Init /\ [][Next]_vars /\ Fairness

-----------------------------------------------------------------------------
(* The single provider's state has its type.                              *)
TypeOK == provider = "single" => S!TypeOK

(* Each implementation implements the abstract sorted stream: the blocks  *)
(* it hands out are the history on the requested side of the reference,   *)
(* in order, each once, and the stream ends, or fails, and stays so.      *)
(* Both harnesses map the consumer's state onto the stream the same way.  *)
Stream == INSTANCE SortedStream WITH expected <- expected, emitted <- emitted, status <- status

ImplementsSortedStream == Stream!Spec

=============================================================================
