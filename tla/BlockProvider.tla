--------------------------- MODULE BlockProvider ---------------------------
(***************************************************************************)
(* ForwardBlockProvider::get and BackwardBlockProvider::get of            *)
(* ots_api.cpp, as functions of the provider's state.                     *)
(*                                                                         *)
(* A provider is a record                                                  *)
(*   forward   which of the two classes it is                             *)
(*   block     min_block_ (forward) or max_block_ (backward)              *)
(*   is_first, finished                                                    *)
(*   vec, idx  bitmap_vector_ and bitmap_index_ + 1 (sequences are 1-based)*)
(*   cp, pos   the owned ChunkProvider and its cursor position            *)
(* A call returns [resp, st]: the BlockProviderResponse and the new state.*)
(* Its argument f names the one operation of the call that throws, or is  *)
(* NoFault: the seek, a cursor read (ChunkProvider turns these into an    *)
(* error response) or a db::bitmap::parse.  A call whose exception is not *)
(* caught inside get() returns Thrown.                                     *)
(***************************************************************************)
EXTENDS ChunkProvider

NoFault == "none"
Sites == {"seek", "parse_first", "read_refill", "parse_refill",
          "read_lookahead", "parse_lookahead"}

\* BlockProviderResponse{block_number, has_more, error}.
Resp(b, more, err) == [block |-> b, more |-> more, error |-> err, thrown |-> FALSE]
End == Resp(0, FALSE, FALSE)
Err == Resp(0, FALSE, TRUE)
\* An exception escaping get() (std::out_of_range from bitmap_vector_.at).
Thrown == [block |-> 0, more |-> FALSE, error |-> TRUE, thrown |-> TRUE]

Reply(r, s) == [resp |-> r, st |-> s]

\* The BlockProvider constructors.
NewBlockProvider(forward, block) ==
  [forward |-> forward, block |-> block, is_first |-> TRUE, finished |-> FALSE,
   vec |-> <<>>, idx |-> 1, cp |-> NewChunkProvider(0), pos |-> 0]

Finish(s) == [s EXCEPT !.finished = TRUE]

\* Mutation: iterator() without bitmap_index_ = 0.
iterator_noreset(s, chunk) == [s EXCEPT !.vec = Ascending(chunk)]

\* ForwardBlockProvider::iterator: the chunk as an ascending vector.
iterator(s, chunk) == [s EXCEPT !.vec = Ascending(chunk), !.idx = 1]

\* BackwardBlockProvider::reverse_iterator: the chunk as a descending vector.
reverse_iterator(s, chunk) == [s EXCEPT !.vec = Reverse(Ascending(chunk)), !.idx = 1]

has_next(s) == s.idx <= Len(s.vec)

\* Mutation: advance_if_needed skipping min_block itself (> for >=).
advance_if_needed_past(s, min_block) ==
  LET ge == {i \in s.idx..Len(s.vec) : s.vec[i] > min_block}
  IN [s EXCEPT !.idx = IF ge = {} THEN Len(s.vec) + 1 ELSE Min(ge)]

\* ForwardBlockProvider::advance_if_needed: skip the entries below min_block.
advance_if_needed(s, min_block) ==
  LET ge == {i \in s.idx..Len(s.vec) : s.vec[i] >= min_block}
  IN [s EXCEPT !.idx = IF ge = {} THEN Len(s.vec) + 1 ELSE Min(ge)]

\* Roaring64Map::removeRange(lo, hi): drop the half-open range [lo, hi).
removeRange(chunk, lo, hi) == {b \in chunk : b < lo \/ b >= hi}

\* Store the cursor state a ChunkLocator or ChunkProvider call left behind.
WithCursor(s, c) == [s EXCEPT !.cp = c.cp, !.pos = c.pos]

\* Load the vector of a chunk: iterator or reverse_iterator, by class.
Load(s, chunk) == IF s.forward THEN iterator(s, chunk) ELSE reverse_iterator(s, chunk)

\* The look-ahead chunk c: an error, the end, or the next vector.
LookAheadRead(next_block, s1, c, f) ==
  IF c.error THEN Reply(Err, WithCursor(s1, c))
  ELSE IF ~c.ok THEN Reply(Resp(next_block, FALSE, FALSE), Finish(WithCursor(s1, c)))
  ELSE IF f = "parse_lookahead" THEN Reply(Err, Finish(WithCursor(s1, c)))
  ELSE Reply(Resp(next_block, TRUE, FALSE), Load(WithCursor(s1, c), c.chunk))

\* After next_block = next(): the response, or a look-ahead read first.
LookAhead(next_block, s1, T, f) ==
  IF has_next(s1) THEN Reply(Resp(next_block, TRUE, FALSE), s1)
  ELSE LookAheadRead(next_block, s1,
                     ChunkProviderGet(s1.cp, s1.pos, T, s1.forward, f = "read_lookahead"), f)

\* The part of get() shared by every call once the first chunk is loaded:
\* next(), then, when the vector is used up, a look-ahead chunk so that
\* has_more is exact.  Each step takes the result of the call before it
\* as an argument.
BlockProviderNext(s, T, f) ==
  IF ~has_next(s) THEN Reply(Thrown, s)
  ELSE LookAhead(s.vec[s.idx], [s EXCEPT !.idx = @ + 1], T, f)

\* The rest of the first call of ForwardBlockProvider::get once the first
\* chunk is loaded and advanced to min_block.
ForwardFirstLoaded(s3, T, f) ==
  IF ~has_next(s3) THEN Reply(End, Finish(s3))
  ELSE BlockProviderNext(s3, T, f)

\* The chunk c read before the clipped first chunk of a backward provider.
BackwardRefill(s3, c2, T, f) ==
  IF c2.error THEN Reply(Err, Finish(WithCursor(s3, c2)))
  ELSE IF ~c2.ok THEN Reply(End, Finish(WithCursor(s3, c2)))
  ELSE IF f = "parse_refill" THEN Reply(Err, Finish(WithCursor(s3, c2)))
  ELSE BlockProviderNext(reverse_iterator(WithCursor(s3, c2), c2.chunk), T, f)

\* The rest of the first call of BackwardBlockProvider::get once the first
\* chunk is clipped to max_block: refill if nothing is left of it.
BackwardClipped(s3, T, f) ==
  IF has_next(s3) THEN BlockProviderNext(s3, T, f)
  ELSE BackwardRefill(s3, ChunkProviderGet(s3.cp, s3.pos, T, FALSE, f = "read_refill"), T, f)

\* The first chunk, parsed: forward, skip what lies below min_block;
\* backward, drop what lies above max_block.
FirstParsed(s2, chunk, T, f) ==
  IF s2.forward
    THEN ForwardFirstLoaded(advance_if_needed(iterator(s2, chunk), s2.block), T, f)
    ELSE BackwardClipped(reverse_iterator(s2, IF s2.block # MaxBlockNum
                                                THEN removeRange(chunk, s2.block + 1, MaxBlockNum)
                                                ELSE chunk), T, f)

\* The first chunk c of the first call.
FirstChunk(s1, c, T, f) ==
  IF c.error THEN Reply(Err, Finish(WithCursor(s1, c)))
  ELSE IF ~c.ok THEN Reply(End, Finish(WithCursor(s1, c)))
  ELSE IF f = "parse_first" THEN Reply(Err, Finish(WithCursor(s1, c)))
  ELSE FirstParsed(WithCursor(s1, c), c.chunk, T, f)

\* The seek of the first call: no chunk (an error or an empty key) ends
\* the stream; otherwise the first chunk is read in the provider's
\* direction.
Located(s, loc, T, f) ==
  IF loc.error THEN Reply(Err, Finish(WithCursor(s, loc)))
  ELSE IF ~loc.ok THEN Reply(End, Finish(WithCursor(s, loc)))
  ELSE FirstChunk(WithCursor(s, loc),
                  ChunkProviderGet(loc.cp, loc.pos, T, s.forward, FALSE), T, f)

\* The first call of get(): is_first_ = false, then the seek at min_block
\* (forward) or max_block (backward).
BlockProviderFirst(s0, T, f) ==
  Located([s0 EXCEPT !.is_first = FALSE], ChunkLocatorGet(T, s0.block, f = "seek"), T, f)

\* BlockProvider::get: ForwardBlockProvider::get and
\* BackwardBlockProvider::get have the same control, dispatched on the
\* provider's class where they differ.
BlockProviderGet(s, T, f) ==
  IF s.finished THEN Reply(End, s)
  ELSE IF s.is_first THEN BlockProviderFirst(s, T, f)
  ELSE BlockProviderNext(s, T, f)

(***************************************************************************)
(* What a provider promises: the blocks of the history on its side of the  *)
(* reference block, nearest first.                                         *)
(***************************************************************************)
ExpectedBlocks(forward, block, H) ==
  IF forward THEN Ascending({b \in H : b >= block})
             ELSE Reverse(Ascending({b \in H : b <= block}))

=============================================================================
