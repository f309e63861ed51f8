------------------------------ MODULE OtsNonce ------------------------------
(***************************************************************************)
(* OtsRpcApi::handle_ots_get_transaction_by_sender_and_nonce: find the    *)
(* transaction a sender sent with a given nonce.                           *)
(*                                                                         *)
(* The account history index of the sender has the layout of the call    *)
(* indexes (IndexCursor): chunks of the blocks in which the account       *)
(* changed, keyed by their highest block.  The account change set at a    *)
(* block holds the account as it was before that block, so its nonce is   *)
(* the number of transactions the sender sent in earlier blocks.  Here    *)
(* sent[b] is how many transactions the sender sent in block b of its     *)
(* history (0 for a change that is not a send); a block's transactions of *)
(* the sender carry the consecutive nonces from the pre-state nonce on.   *)
(*                                                                         *)
(* Steps, one per cursor read of the handler:                             *)
(*   Seek       the seek of the account history cursor at the sender;     *)
(*   ChunkStep  one iteration of the while loop over the sender's chunks; *)
(*   PlainState the while loop's exit past the last chunk, through the    *)
(*              account's current state;                                  *)
(*   ScanStep   one iteration of the for loop over the chosen chunk;      *)
(*   ReadBlock  the read of the block found and the search of its         *)
(*              transactions.                                             *)
(***************************************************************************)
EXTENDS IndexCursor

CONSTANTS
  MaxSent,      \* most transactions the sender sends in one block
  Nonces,       \* the nonces a request may ask for
  OtherNonces,  \* nonces of the account of the address after the sender
  MaxFaults     \* how many reads of the run may throw

ASSUME MaxSent \in Nat
ASSUME Nonces \subseteq Nat
ASSUME OtherNonces \subseteq Nat
ASSUME MaxFaults \in Nat

VARIABLES
  table,     \* the account history index (AccountHistory)
  sent,      \* [Blocks -> transactions the sender sent in the block]
  other,     \* nonce of the account stored after the sender in PlainState
  arity,     \* params.size()
  nonce,     \* the nonce asked for
  pc,        \* "start", "loop", "scan", "read" or "done"
  pos,       \* account_history_cursor's position
  bitmap,    \* the chunk last parsed
  prevMax,   \* max_block_prev_chunk
  i,         \* the for loop's index (0-based)
  idx,       \* idx
  reply,     \* the reply, once pc = "done"
  faults     \* reads that have thrown so far

vars == <<table, sent, other, arity, nonce, pc, pos, bitmap, prevMax, i, idx, reply, faults>>

Null == [kind |-> "null"]
Hash(b, n) == [kind |-> "hash", block |-> b, nonce |-> n]

\* The sender's history: the blocks in which its account changed.
Changes == History(table)

\* The account's nonce before block b: the change set entry at b.
PreNonce(b) == MapThenSumSet(LAMBDA x : sent[x], {x \in Changes : x < b})

\* The nonce in the account's current state (PlainState).
CurrentNonce == MapThenSumSet(LAMBDA x : sent[x], Changes)

\* account_block_numbers: bitmap.toUint64Array.
account_block_numbers == Ascending(bitmap)

\* The change set read at block b decoded as an account whose nonce
\* exceeds the nonce asked for.
PassedAt(b) == PreNonce(b) > nonce

\* The account found by plain_state_cursor->seek(sender): the sender's own
\* if it has a state, else whatever the seek lands on (the next address,
\* or the empty key/value past the end of the table).
PlainNonceAbove ==
  IF Changes # {} THEN CurrentNonce > nonce
  ELSE Above \in {t.addr : t \in Range(table)} /\ other > nonce

\* The cursor is on a key of the sender: neither the empty key nor a key
\* that does not start with the sender's address.
OnSender(p) == ~IsEmptyKey(table, p) /\ table[p].addr = Target

Init ==
  /\ table \in IndexTables
  /\ sent \in [Blocks -> 0..MaxSent]
  /\ other \in OtherNonces
  /\ arity \in {1, 2}
  /\ nonce \in Nonces
  /\ pc = "start"
  /\ pos = 0
  /\ bitmap = {}
  /\ prevMax = 0
  /\ i = 0
  /\ idx = 0
  /\ reply = [kind |-> "none"]
  /\ faults = 0

\* params.size() != 2: an invalid-params error before any read.
RejectParams ==
  /\ pc = "start"
  /\ arity # 2
  /\ pc' = "done"
  /\ reply' = [kind |-> "error"]
  /\ UNCHANGED <<table, sent, other, arity, nonce, pos, bitmap, prevMax, i, idx, faults>>

\* account_history_cursor->seek(sender): the sender's first chunk.
Seek ==
  /\ pc = "start"
  /\ arity = 2
  /\ pos' = CursorSeek(table, account_history_key(Target, 0))
  /\ pc' = "loop"
  /\ UNCHANGED <<table, sent, other, arity, nonce, bitmap, prevMax, i, idx, reply, faults>>

\* An iteration of the while loop on a chunk of the sender: parse it and
\* read the change set at its highest block; break if the nonce was
\* already passed before that block, else move on to the next chunk.
ChunkStep ==
  /\ pc = "loop"
  /\ OnSender(pos)
  /\ LET chunk == table[pos].vals
         max_block == Max(chunk)
     IN /\ bitmap' = chunk
        /\ IF PassedAt(max_block)
             THEN pc' = "scan" /\ UNCHANGED <<pos, prevMax>>
             ELSE /\ prevMax' = max_block
                  /\ pos' = CursorMove(table, pos, TRUE)
                  /\ UNCHANGED pc
  /\ UNCHANGED <<table, sent, other, arity, nonce, i, idx, reply, faults>>

\* The while loop past the sender's chunks: the account's current state
\* decides between scanning the last chunk parsed and a null reply.
PlainState ==
  /\ pc = "loop"
  /\ ~OnSender(pos)
  /\ IF PlainNonceAbove
       THEN pc' = "scan" /\ UNCHANGED reply
       ELSE pc' = "done" /\ reply' = Null
  /\ UNCHANGED <<table, sent, other, arity, nonce, pos, bitmap, prevMax, i, idx, faults>>

\* One iteration of the for loop: the first block of the chunk before
\* which the nonce was passed sets idx and ends the loop.
ScanStep ==
  /\ pc = "scan"
  /\ IF i < Cardinality(bitmap)
       THEN IF PassedAt(account_block_numbers[i + 1])
              THEN idx' = i /\ pc' = "read" /\ UNCHANGED i
              ELSE i' = i + 1 /\ UNCHANGED <<idx, pc>>
       ELSE pc' = "read" /\ UNCHANGED <<i, idx>>
  /\ UNCHANGED <<table, sent, other, arity, nonce, pos, bitmap, prevMax, reply, faults>>

\* Mutation: account_block_numbers[idx] for account_block_numbers[idx - 1].
nonce_block_at_idx == IF idx > 0 THEN account_block_numbers[idx + 1] ELSE prevMax

\* nonce_block: the block before the one found, or the highest block of
\* the previous chunk when idx is 0.
nonce_block == IF idx > 0 THEN account_block_numbers[idx] ELSE prevMax

\* The block holds a transaction of the sender with the nonce asked for.
HasTransaction(b) ==
  b \in Changes /\ PreNonce(b) <= nonce /\ nonce < PreNonce(b) + sent[b]

\* Mutation: the hash of the block's first transaction returned without
\* comparing sender and nonce.
ReadBlock_nomatch ==
  /\ pc = "read"
  /\ pc' = "done"
  /\ reply' = Hash(nonce_block, nonce)
  /\ UNCHANGED <<table, sent, other, arity, nonce, pos, bitmap, prevMax, i, idx, faults>>

\* read_block_by_number(nonce_block) and the search of its transactions.
ReadBlock ==
  /\ pc = "read"
  /\ pc' = "done"
  /\ reply' = IF HasTransaction(nonce_block) THEN Hash(nonce_block, nonce) ELSE Null
  /\ UNCHANGED <<table, sent, other, arity, nonce, pos, bitmap, prevMax, i, idx, faults>>

\* A read of the transaction throws: the handler replies an internal error.
Fail ==
  /\ pc \in {"start", "loop", "scan", "read"}
  /\ arity = 2
  /\ faults < MaxFaults
  /\ faults' = faults + 1
  /\ pc' = "done"
  /\ reply' = [kind |-> "internal"]
  /\ UNCHANGED <<table, sent, other, arity, nonce, pos, bitmap, prevMax, i, idx>>

Next == RejectParams \/ Seek \/ ChunkStep \/ PlainState \/ ScanStep \/ ReadBlock \/ Fail

Spec == Init /\ [][Next]_vars /\ WF_vars(Next)

(***************************************************************************)
(* Properties                                                              *)
(***************************************************************************)

TypeOK ==
  /\ pc \in {"start", "loop", "scan", "read", "done"}
  /\ bitmap \subseteq Blocks
  /\ prevMax \in {0} \cup Blocks
  /\ i \in 0..Cardinality(Blocks)
  /\ idx \in 0..Cardinality(Blocks)
  /\ reply \in {[kind |-> "none"], [kind |-> "error"], [kind |-> "internal"], Null}
               \cup [kind : {"hash"}, block : Blocks, nonce : Nonces]
  /\ faults \in 0..MaxFaults

\* The transaction the sender sent with the nonce asked for, or Null if
\* it has not sent that many.
Expected ==
  IF nonce < CurrentNonce
    THEN LET b == CHOOSE x \in Changes : HasTransaction(x) IN Hash(b, nonce)
    ELSE Null

\* A reply of the search is the sender's transaction with that nonce when
\* one exists and null otherwise: the walk over the chunks, the scan of
\* one chunk and the idx = 0 fall-back to the previous chunk's highest
\* block together find the block whose transactions carry the nonce.
NonceSearchCorrect == reply.kind \in {"hash", "null"} => reply = Expected

=============================================================================
