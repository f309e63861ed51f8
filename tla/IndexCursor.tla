---------------------------- MODULE IndexCursor ----------------------------
(***************************************************************************)
(* The call-from / call-to history index tables as the block providers of *)
(* ots_api.cpp see them through db::kv::api::Cursor.                       *)
(*                                                                         *)
(* A table is a sequence of entries ordered by key.  The key of an entry  *)
(* is account_history_key(address, suffix): the 20 address bytes followed *)
(* by a big-endian block number, so keys compare first by address, then   *)
(* by suffix.  The history of one address is cut into consecutive chunks  *)
(* (compressed bitmaps); every chunk but the last is keyed by its highest *)
(* block and the last one by the largest BlockNum, which is how the index *)
(* writer lays the table out.  Addresses are abstracted to the searched   *)
(* one and one neighbour on each side, whose entries bound the searched   *)
(* address's run of keys.                                                  *)
(*                                                                         *)
(* A cursor position is an index into the table; a position outside      *)
(* 1..Len(T) stands for the empty key the cursor returns when it runs off *)
(* either end of the table.                                                *)
(***************************************************************************)
EXTENDS Integers, Sequences, SequencesExt, FiniteSets

CONSTANTS
  Width,        \* bit width of BlockNum (uint64_t in the code)
  Blocks,       \* block numbers that may occur in an address's history
  MaxChunks,    \* most chunks one address's history is cut into
  Neighbours    \* set of sets of neighbour addresses present in a table

\* std::numeric_limits<uint64_t>::max() at the model's width.
MaxBlockNum == 2^Width - 1

\* Addresses in byte order: the searched address and its two neighbours.
Below == 0
Target == 1
Above == 2

ASSUME Width \in Nat \ {0}
\* Block 0 (genesis) executes no transaction and never appears in an index;
\* no real block reaches the largest BlockNum.
ASSUME Blocks # {} /\ Blocks \subseteq 1..(MaxBlockNum - 1)
ASSUME MaxChunks \in Nat \ {0}
ASSUME Neighbours \subseteq SUBSET {Below, Above}

\* db::account_history_key(address, block).
account_history_key(addr, block) == <<addr, block>>

\* The finite set of numbers S in ascending order.  (SetToSortSeq of
\* SequencesExt enumerates bijections and is too slow to call per state.)
RECURSIVE Ascending(_)
Ascending(S) == IF S = {} THEN <<>> ELSE <<Min(S)>> \o Ascending(S \ {Min(S)})

KeyLess(k1, k2) == k1[1] < k2[1] \/ (k1[1] = k2[1] /\ k1[2] < k2[2])

EntryKey(e) == account_history_key(e.addr, e.key)

\* Every way of cutting the ascending history H into at most MaxChunks
\* consecutive non-empty chunks.
Chunkings(H) ==
  LET s == Ascending(H)
      Cut(C) == LET b == Ascending(C \cup {0, Len(s)})
                IN [i \in 1..(Len(b) - 1) |-> {s[j] : j \in (b[i] + 1)..b[i + 1]}]
  IN {Cut(C) : C \in {C \in SUBSET (1..(Len(s) - 1)) : Cardinality(C) < MaxChunks}}

\* The entries of one address whose history is cut as c.
AddressChunks(addr, c) ==
  [i \in 1..Len(c) |->
     [addr |-> addr,
      key  |-> IF i = Len(c) THEN MaxBlockNum ELSE Max(c[i]),
      vals |-> c[i]]]

NeighbourEntry(addr, N) ==
  IF addr \in N THEN AddressChunks(addr, <<{Min(Blocks)}>>) ELSE <<>>

\* Every index table whose searched address has a history drawn from Blocks.
IndexTables ==
  { NeighbourEntry(Below, N) \o AddressChunks(Target, c) \o NeighbourEntry(Above, N) :
      c \in UNION {Chunkings(H) : H \in SUBSET Blocks}, N \in Neighbours }

\* The blocks the table records for the searched address.
History(T) == UNION {T[i].vals : i \in {j \in 1..Len(T) : T[j].addr = Target}}

IsEmptyKey(T, p) == p \notin 1..Len(T)

\* Cursor::seek(k): the first entry whose key is not below k.
CursorSeek(T, k) ==
  LET ge == {i \in 1..Len(T) : ~KeyLess(EntryKey(T[i]), k)}
  IN IF ge = {} THEN Len(T) + 1 ELSE Min(ge)

\* Cursor::next() / Cursor::previous() from position p.
CursorMove(T, p, forward) ==
  IF forward THEN Min({p + 1, Len(T) + 1}) ELSE Max({p - 1, 0})

=============================================================================
