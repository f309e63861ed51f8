------------------------ MODULE FromToBlockProvider ------------------------
(***************************************************************************)
(* FromToBlockProvider::get of ots_api.cpp: the merge of the call-from    *)
(* and call-to providers of one address into a single stream.            *)
(*                                                                         *)
(* A merge is a record                                                     *)
(*   isBackwards  is_backwards_ (true picks the smaller head, false the   *)
(*                larger one)                                              *)
(*   initialized  initialized_                                             *)
(*   bp           [Sides -> provider]: *callFromProvider_, *callToProvider_*)
(*   next, more   [Sides -> ...]: next_from_/next_to_, has_more_from_/to_ *)
(* T is [Sides -> index table]: the call-from and the call-to index.      *)
(* A fault names the child, whether it is the child's call of the        *)
(* initialisation (init) or of the pull, and the operation of that call  *)
(* that throws; NoFaultRecord names none.                                  *)
(***************************************************************************)
EXTENDS BlockProvider

Sides == {"from", "to"}

FaultRecords == [side : Sides, init : BOOLEAN, site : Sites]

NoFaultRecord == [side |-> NoFault, init |-> FALSE, site |-> NoFault]

\* The FromToBlockProvider constructor, with the two providers the
\* handlers build over the same reference block.
NewFromToBlockProvider(is_backwards, forward, block) ==
  [isBackwards |-> is_backwards, initialized |-> FALSE,
   bp   |-> [x \in Sides |-> NewBlockProvider(forward, block)],
   next |-> [x \in Sides |-> 0],
   more |-> [x \in Sides |-> FALSE]]

\* The operation that throws in child side's call, if f names that call.
FaultAt(f, side, init) ==
  IF f.side = side /\ f.init = init THEN f.site ELSE NoFault

\* callXProvider_->get() on side, whose answer is r.
Called(m, side, r) == [m EXCEPT !.bp[side] = r.st]

\* Mutation: has_more_x_ = has_more, without the "|| next_x_ != 0".
Took_nolast(m, side, r) ==
  [Called(m, side, r) EXCEPT !.next[side] = r.resp.block, !.more[side] = r.resp.more]

\* next_x_ = block_number; has_more_x_ = has_more || next_x_ != 0.
Took(m, side, r) ==
  [Called(m, side, r) EXCEPT !.next[side] = r.resp.block,
                             !.more[side] = r.resp.more \/ r.resp.block # 0]

ChildGet(m, side, T, f, init) == BlockProviderGet(m.bp[side], T[side], FaultAt(f, side, init))

\* Mutation: the comparisons of the two directions swapped.
PickHead_swapped(m) ==
  IF m.isBackwards
    THEN IF m.next["to"] > m.next["from"] THEN m.next["to"] ELSE m.next["from"]
    ELSE IF m.next["to"] < m.next["from"] THEN m.next["to"] ELSE m.next["from"]

\* The head chosen when both sides have more.
PickHead(m) ==
  IF m.isBackwards
    THEN IF m.next["to"] < m.next["from"] THEN m.next["to"] ELSE m.next["from"]
    ELSE IF m.next["to"] > m.next["from"] THEN m.next["to"] ELSE m.next["from"]

\* The head of the merge.
block_num(m) ==
  IF ~m.more["from"] THEN m.next["to"]
  ELSE IF ~m.more["to"] THEN m.next["from"]
  ELSE PickHead(m)

\* The answer r of the pull of the to side; b is the block returned.
PulledTo(m, b, r) ==
  IF r.resp.thrown THEN Reply(Thrown, Called(m, "to", r))
  ELSE IF r.resp.error THEN Reply(Err, Called(m, "to", r))
  ELSE LET mt == Took(m, "to", r)
       IN Reply(Resp(b, mt.more["from"] \/ mt.more["to"], FALSE), mt)

\* Pull the to side if it held b, then report whether anything is left.
PullTo(m, b, T, f) ==
  IF m.more["to"] /\ b = m.next["to"]
    THEN PulledTo(m, b, ChildGet(m, "to", T, f, FALSE))
    ELSE Reply(Resp(b, m.more["from"] \/ m.more["to"], FALSE), m)

\* The answer r of the pull of the from side.
PulledFrom(m, b, r, T, f) ==
  IF r.resp.thrown THEN Reply(Thrown, Called(m, "from", r))
  ELSE IF r.resp.error THEN Reply(Err, Called(m, "from", r))
  ELSE PullTo(Took(m, "from", r), b, T, f)

\* Everything after the initialisation: pick the head, pull the side (or
\* both sides) that held it and report whether anything is left.  The
\* pull of the from side leaves next_to_ and has_more_to_ as they were.
FromToStep(m, T, f) ==
  LET b == block_num(m)
  IN IF ~m.more["from"] /\ ~m.more["to"] THEN Reply(Err, m)
     ELSE IF m.more["from"] /\ b = m.next["from"]
       THEN PulledFrom(m, b, ChildGet(m, "from", T, f, FALSE), T, f)
     ELSE PullTo(m, b, T, f)

\* The first answer r of the to side; the step follows it.
InitTo(m1, r, T, f) ==
  IF r.resp.thrown THEN Reply(Thrown, Called(m1, "to", r))
  ELSE IF r.resp.error THEN Reply(Err, Called(m1, "to", r))
  ELSE FromToStep(Took(m1, "to", r), T, f)

\* The first answer r of the from side; the to side is asked next.
InitFrom(m0, r, T, f) ==
  IF r.resp.thrown THEN Reply(Thrown, Called(m0, "from", r))
  ELSE IF r.resp.error THEN Reply(Err, Called(m0, "from", r))
  ELSE LET m1 == Took(m0, "from", r)
       IN InitTo(m1, ChildGet(m1, "to", T, f, TRUE), T, f)

\* FromToBlockProvider::get.  An exception of a child propagates out.
FromToGet(m, T, f) ==
  IF m.initialized THEN FromToStep(m, T, f)
  ELSE LET m0 == [m EXCEPT !.initialized = TRUE]
       IN InitFrom(m0, ChildGet(m0, "from", T, f, TRUE), T, f)

=============================================================================
