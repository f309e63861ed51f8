----------------------------- MODULE OtsCreator -----------------------------
(***************************************************************************)
(* OtsRpcApi::handle_ots_get_contract_creator: find the block in which    *)
(* the current incarnation of a contract was deployed, and trace its      *)
(* deployment there.                                                       *)
(*                                                                         *)
(* The contract's account history index has the layout of IndexCursor.   *)
(* What happens to the account in a block of its history is event[b]:    *)
(* "touch" (a change that keeps the incarnation), "create" (a deployment, *)
(* which takes the incarnation after the highest one so far) or           *)
(* "destruct" (a self-destruct, which deletes the account).  The change   *)
(* set at a block holds the account before the block; a deleted or never  *)
(* created account is stored empty, which decodes to incarnation 0.       *)
(* The current state of an address that has none is whatever              *)
(* PlainState holds next: OtherAccount.                                    *)
(***************************************************************************)
EXTENDS IndexCursor

CONSTANTS
  OtherAccounts,  \* accounts the seek past the address may land on
  MaxFaults       \* how many reads of the run may throw

ASSUME MaxFaults \in Nat

VARIABLES
  table,     \* the account history index (AccountHistory)
  event,     \* [Blocks -> "touch", "create" or "destruct"]
  other,     \* the account stored after the address in PlainState
  arity,     \* params.size()
  pc,        \* "start", "loop", "scan", "read" or "done"
  plain,     \* plain_state_account
  pos,       \* account_history_cursor's position
  bitmap,    \* the chunk last parsed
  prevMax,   \* max_block_prev_chunk
  i,         \* the for loop's index (0-based)
  idx,       \* idx
  reply,     \* the reply, once pc = "done"
  faults     \* reads that have thrown so far

vars == <<table, event, other, arity, pc, plain, pos, bitmap, prevMax, i, idx, reply, faults>>

Null == [kind |-> "null"]
Creator(b) == [kind |-> "creator", block |-> b]

\* Accounts as decoded: an incarnation and whether the code hash is the
\* empty one; NoAccount is a payload that decodes to no value.
Account(inc, code) == [inc |-> inc, code |-> code]
NoAccount == [inc |-> 0, code |-> FALSE, none |-> TRUE]
HasValue(a) == "none" \notin DOMAIN a

Changes == History(table)

\* The account's incarnation after the changes in S and the highest
\* incarnation it has had, applying the events in block order.
RECURSIVE IncarnationAfter(_)
IncarnationAfter(S) ==
  IF S = {} THEN [inc |-> 0, top |-> 0]
  ELSE LET b  == Max(S)
           st == IncarnationAfter(S \ {b})
       IN CASE event[b] = "create"   -> [inc |-> st.top + 1, top |-> st.top + 1]
            [] event[b] = "destruct" -> [inc |-> 0, top |-> st.top]
            [] OTHER                 -> st

Before(b) == {x \in Changes : x < b}

\* A deployment needs the account not to be alive, a self-destruct needs
\* it to be.
Possible ==
  \A b \in Changes :
    LET alive == IncarnationAfter(Before(b)).inc > 0
    IN (event[b] = "create" => ~alive) /\ (event[b] = "destruct" => alive)

\* The change set at block b decoded: the account before the block.
PreAccount(b) == Account(IncarnationAfter(Before(b)).inc, IncarnationAfter(Before(b)).inc > 0)

\* The account at the end of the history, or no state at all.
Current == IncarnationAfter(Changes)
Alive == Current.inc > 0

\* plain_state_cursor->seek(address) decoded: the address's own account if
\* it has one, else the value at the next key.
PlainStateSeek ==
  IF Alive THEN Account(Current.inc, TRUE)
  ELSE IF Changes # {} /\ Current.top = 0 THEN Account(0, FALSE)
  ELSE other

OnContract(p) == ~IsEmptyKey(table, p) /\ table[p].addr = Target

\* account_block_numbers after resize and toUint64Array.
account_block_numbers == Ascending(bitmap)

\* The account before block b has reached the current incarnation.
Reached(b) == PreAccount(b).inc >= plain.inc

Init ==
  /\ table \in IndexTables
  /\ event \in [Blocks -> {"touch", "create", "destruct"}]
  /\ Possible
  /\ other \in OtherAccounts
  /\ arity \in {0, 1}
  /\ pc = "start"
  /\ plain = NoAccount
  /\ pos = 0
  /\ bitmap = {}
  /\ prevMax = 0
  /\ i = 0
  /\ idx = 0
  /\ reply = [kind |-> "none"]
  /\ faults = 0

Done(r) == pc' = "done" /\ reply' = r

\* params.size() != 1: an invalid-params error before any read.
RejectParams ==
  /\ pc = "start"
  /\ arity # 1
  /\ Done([kind |-> "error"])
  /\ UNCHANGED <<table, event, other, arity, plain, pos, bitmap, prevMax, i, idx, faults>>

\* The plain state account: no value or no code is a null reply; else the
\* seek of the account history at (address, 0), null if it finds nothing.
Seek ==
  /\ pc = "start"
  /\ arity = 1
  /\ LET a == PlainStateSeek
         p == CursorSeek(table, account_history_key(Target, 0))
     IN /\ plain' = a
        /\ pos' = p
        /\ IF ~HasValue(a) \/ ~a.code \/ ~OnContract(p)
             THEN Done(Null)
             ELSE pc' = "loop" /\ UNCHANGED reply
  /\ UNCHANGED <<table, event, other, arity, bitmap, prevMax, i, idx, faults>>

\* An iteration of the while loop: parse the chunk, read the change set
\* at its highest block, break once the current incarnation is reached;
\* else move to the next chunk and break past the last one.
ChunkStep ==
  /\ pc = "loop"
  /\ LET chunk     == table[pos].vals
         max_block == Max(chunk)
         next      == CursorMove(table, pos, TRUE)
     IN /\ bitmap' = chunk
        /\ IF Reached(max_block)
             THEN pc' = "scan" /\ UNCHANGED <<pos, prevMax>>
             ELSE /\ prevMax' = max_block
                  /\ pos' = next
                  /\ pc' = IF OnContract(next) THEN "loop" ELSE "scan"
  /\ UNCHANGED <<table, event, other, arity, plain, i, idx, reply, faults>>

\* One iteration of the for loop: the first block before which the
\* current incarnation had been reached sets idx.
ScanStep ==
  /\ pc = "scan"
  /\ IF i < Cardinality(bitmap)
       THEN IF Reached(account_block_numbers[i + 1])
              THEN idx' = i /\ pc' = "read" /\ UNCHANGED i
              ELSE i' = i + 1 /\ UNCHANGED <<idx, pc>>
       ELSE pc' = "read" /\ UNCHANGED <<i, idx>>
  /\ UNCHANGED <<table, event, other, arity, plain, pos, bitmap, prevMax, reply, faults>>

\* Mutation: the block found taken at idx instead of idx - 1.
block_found_at_idx == IF idx > 0 THEN account_block_numbers[idx + 1] ELSE prevMax

\* block_found: the block before the one found, or the highest block of
\* the previous chunk when idx is 0.
block_found == IF idx > 0 THEN account_block_numbers[idx] ELSE prevMax

\* trace_deploy_transaction: the block holds a deployment of the address.
DeploysIn(b) == b \in Changes /\ event[b] = "create"

\* read_block_by_number(block_found) and the trace of the deployment.
ReadBlock ==
  /\ pc = "read"
  /\ Done(IF DeploysIn(block_found) THEN Creator(block_found) ELSE Null)
  /\ UNCHANGED <<table, event, other, arity, plain, pos, bitmap, prevMax, i, idx, faults>>

\* A read, a parse or the trace throws: an internal error.
Fail ==
  /\ pc \in {"start", "loop", "scan", "read"}
  /\ arity = 1
  /\ faults < MaxFaults
  /\ faults' = faults + 1
  /\ Done([kind |-> "internal"])
  /\ UNCHANGED <<table, event, other, arity, plain, pos, bitmap, prevMax, i, idx>>

Next == RejectParams \/ Seek \/ ChunkStep \/ ScanStep \/ ReadBlock \/ Fail

Spec == Init /\ [][Next]_vars /\ WF_vars(Next)

(***************************************************************************)
(* Properties                                                              *)
(***************************************************************************)

\* The deployment of the contract's current incarnation.
LastDeployment == Max({b \in Changes : event[b] = "create"})

\* For an address that holds a contract now, a successful reply traces
\* the deployment of its current incarnation: the chunk walk, the scan
\* and the idx = 0 fall-back find the block before the first change set
\* that already shows that incarnation, across self-destructs and
\* redeployments.
CreatorOfContract == (Alive /\ reply.kind \in {"creator", "null"}) => reply = Creator(LastDeployment)

\* Only an address that holds code now has a creator (the code answers
\* null for an address with no account or with the empty code hash).
CreatorOnlyForContracts == reply.kind = "creator" => Alive

=============================================================================
