--------------------------- MODULE ChunkProvider ---------------------------
(***************************************************************************)
(* ChunkLocator::get and ChunkProvider::get of ots_api.cpp.               *)
(*                                                                         *)
(* Both are coroutines whose only suspension points are cursor reads on a *)
(* cursor no one else uses, so each call is one function from the state  *)
(* it starts in to the response and the state it leaves behind.  A        *)
(* ChunkProvider is a record                                              *)
(*     [first, eof, error, kv]                                            *)
(* (first_, eof_, error_, first_seek_key_value_); the cursor position it  *)
(* moves is owned by the block provider and passed in and out.  A cursor  *)
(* read that throws is the Boolean argument fail.                         *)
(***************************************************************************)
EXTENDS IndexCursor

\* The ChunkProvider constructor, primed with the key/value of the seek.
NewChunkProvider(kv) == [first |-> TRUE, eof |-> FALSE, error |-> FALSE, kv |-> kv]

\* ChunkLocator::get(min_block): one seek at account_history_key(address,
\* min_block).  A throwing seek leaves the default (empty) key/value.
ChunkLocatorGet(T, min_block, fail) ==
  LET p == CursorSeek(T, account_history_key(Target, min_block))
  IN IF fail
       THEN [cp |-> NewChunkProvider(0), pos |-> 0, ok |-> FALSE, error |-> TRUE]
       ELSE [cp |-> NewChunkProvider(p), pos |-> p, ok |-> ~IsEmptyKey(T, p), error |-> FALSE]

\* The read of ChunkProvider::get() at position p (a throwing read, error,
\* leaves the position where it was): a chunk of the address, or eof.
ChunkRead(cp, pos, T, p, error) ==
  LET cp1 == [cp EXCEPT !.first = FALSE, !.error = error]
      pos1 == IF error THEN pos ELSE p
  IN IF error THEN [chunk |-> {}, ok |-> FALSE, error |-> TRUE, cp |-> [cp1 EXCEPT !.eof = TRUE], pos |-> pos1]
     ELSE IF IsEmptyKey(T, p) \/ T[p].addr # Target
       THEN [chunk |-> {}, ok |-> FALSE, error |-> FALSE, cp |-> [cp1 EXCEPT !.eof = TRUE], pos |-> pos1]
     ELSE [chunk |-> T[p].vals, ok |-> TRUE, error |-> FALSE, cp |-> cp1, pos |-> pos1]

\* ChunkProvider::get(): the primed entry on the first call, then one cursor
\* step per call in the provider's direction; sticky error and eof.
ChunkProviderGet(cp, pos, T, navigate_forward, fail) ==
  IF cp.error THEN [chunk |-> {}, ok |-> FALSE, error |-> TRUE, cp |-> cp, pos |-> pos]
  ELSE IF cp.eof THEN [chunk |-> {}, ok |-> FALSE, error |-> FALSE, cp |-> cp, pos |-> pos]
  ELSE ChunkRead(cp, pos, T, IF cp.first THEN cp.kv ELSE CursorMove(T, pos, navigate_forward),
                 ~cp.first /\ fail)

=============================================================================
