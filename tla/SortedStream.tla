---------------------------- MODULE SortedStream ----------------------------
(***************************************************************************)
(* What a block provider promises its consumer: a one-at-a-time stream of *)
(* the block numbers expected, in order, in which the last block comes   *)
(* with has_more = false (status becomes "exhausted" in the same step),  *)
(* an empty stream ends at once, and a failure may end the stream at any  *)
(* point ("failed").  Both the single-index providers and the merged      *)
(* from/to provider are shown to implement it.                            *)
(***************************************************************************)
EXTENDS Naturals, Sequences

\* Expected is fixed by the request that builds the provider; it is a
\* variable only so that an implementation can map its own state onto it.
VARIABLES expected, emitted, status

vars == <<expected, emitted, status>>

Init ==
  /\ emitted = <<>>
  /\ status = "active"

\* Hand out the next block; the last one also ends the stream.
Emit ==
  /\ status = "active"
  /\ Len(emitted) < Len(expected)
  /\ emitted' = Append(emitted, expected[Len(emitted) + 1])
  /\ status' = IF Len(emitted') = Len(expected) THEN "exhausted" ELSE "active"
  /\ UNCHANGED expected

\* An empty stream ends without handing out anything.
ExhaustEmpty ==
  /\ status = "active"
  /\ expected = <<>>
  /\ status' = "exhausted"
  /\ UNCHANGED <<expected, emitted>>

Fail ==
  /\ status = "active"
  /\ status' = "failed"
  /\ UNCHANGED <<expected, emitted>>

Next == Emit \/ ExhaustEmpty \/ Fail

Spec == Init /\ [][Next]_vars /\ WF_vars(Emit) /\ WF_vars(ExhaustEmpty)

=============================================================================
