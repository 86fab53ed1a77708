------------------------------ MODULE Settlement ------------------------------
(***************************************************************************)
(* The settlement sync: `run_settlement_sync` with `sync_once` and         *)
(* `refresh_summary` (src/chain/settlement.rs), the tables it fills        *)
(* (src/db.rs) and the summary it serves.                                  *)
(*                                                                         *)
(* One task runs it; `pc` names the await it stands at.  Blocks are those  *)
(* up to the safe head, which no reorg reaches, and a fetch returns all    *)
(* logs of its range (LogFetch says when).  A block carries at most one    *)
(* settlement log.  What can go wrong costs one unit of MaxFaults, and     *)
(* only the kinds in FaultKinds happen:                                    *)
(*   "sync"      a chain or database call of sync_once fails for good      *)
(*   "refresh"   one of the summary's database reads fails                 *)
(*   "pool"      the reward pool cannot be read                            *)
(*   "lag"       the safe head comes from an endpoint that is behind       *)
(*   "crash"     the process stops and starts again                        *)
(*   "forget"    the operator deletes the settlement checkpoints           *)
(*                                                                         *)
(* A definition X_Y is X with the slip Y in it; nothing uses it.  Put in   *)
(* place of X it makes TLC refute a property.                              *)
(***************************************************************************)
EXTENDS SettlementLedger

CONSTANTS
  FaultKinds,      \* which faults happen
  MaxFaults        \* bound: how many of them

AllFaultKinds == {"sync", "refresh", "pool", "lag", "crash", "forget"}

ASSUME FaultAssumption ==
  FaultKinds \subseteq AllFaultKinds /\ MaxFaults \in Nat

VARIABLES
  pc,
  pool,            \* REWARD_POOL_ADDRESS is set
  (* locals of run_settlement_sync and sync_once *)
  nextBlock,       \* next_block, NoBlock before the checkpoint is loaded
  target,
  chunkEnd, pending,      \* the fetched chunk: its end, logs not stored yet
  stored,          \* this round has stored a new log
  due,             \* GAUGE_REFRESH has passed since the last summary
  (* SettlementStatus *)
  lastBlock,       \* last_block, NoBlock if none
  totals,          \* the rows that the served totals count
  poolBlock,       \* pool_read_block, NoBlock if none
  claimBlock,      \* the block that a served `claimable` was read at, NoBlock
                   \* if no exit has one
  faults           \* faults so far

round  == <<target, chunkEnd, pending>>
status == <<lastBlock, totals, poolBlock, claimBlock>>
vars   == <<ledgerVars, pc, pool, nextBlock, round, stored, due, status, faults>>

NoBlock == -1
NoRows == [b \in Block |-> 0]

Fault(kind) ==
  /\ kind \in FaultKinds /\ faults < MaxFaults
  /\ faults' = faults + 1

NoRound == target' = 0 /\ chunkEnd' = 0 /\ pending' = {}

Init ==
  /\ LedgerInit
  /\ pc = "down" /\ pool = FALSE
  /\ nextBlock = NoBlock /\ target = 0 /\ chunkEnd = 0 /\ pending = {}
  /\ stored = FALSE /\ due = TRUE
  /\ lastBlock = NoBlock /\ totals = NoRows
  /\ poolBlock = NoBlock /\ claimBlock = NoBlock
  /\ faults = 0

\* The kinds of log that the filter selects.
Selected == Follows(IF pool THEN "entry+pool" ELSE "entry")

SourceKey_EntryPointOnly == "entry"

\* source_key, under which the checkpoint is kept.
SourceKey == IF pool THEN "entry+pool" ELSE "entry"

------------------------------------------------------------------------------
\* The process starts, with or without a reward pool.
Boot ==
  /\ pc = "down"
  /\ pc' = "tick" /\ pool' \in BOOLEAN
  /\ UNCHANGED <<ledgerVars, nextBlock, round, stored, due, status, faults>>

Crash ==
  /\ pc # "down" /\ Fault("crash")
  /\ pc' = "down" /\ pool' = FALSE
  /\ nextBlock' = NoBlock /\ NoRound /\ stored' = FALSE /\ due' = TRUE
  /\ lastBlock' = NoBlock /\ totals' = NoRows
  /\ poolBlock' = NoBlock /\ claimBlock' = NoBlock
  /\ UNCHANGED ledgerVars

\* "To rescan: DELETE FROM settlement_checkpoints; then restart" (README.md)
DeleteCheckpoints ==
  /\ pc = "down" /\ Fault("forget")
  /\ upto' = [s \in Source |-> NoCheckpoint]
  /\ UNCHANGED <<log, safe, rows, pc, pool, nextBlock, round, stored, due, status>>

------------------------------------------------------------------------------
(* One round: sync_once.                                                   *)

Tick ==
  /\ pc = "tick"
  /\ stored' = FALSE
  /\ pc' = IF nextBlock = NoBlock THEN "load" ELSE "head"
  /\ UNCHANGED <<ledgerVars, pool, nextBlock, round, due, status, faults>>

LoadCheckpoint ==
  LET c == upto[SourceKey] IN
  /\ pc = "load"
  /\ nextBlock' = IF c # NoCheckpoint /\ c + 1 >= FromBlock THEN c + 1 ELSE FromBlock
  /\ pc' = "head"
  /\ UNCHANGED <<ledgerVars, pool, round, stored, due, status, faults>>

\* The safe head, of an endpoint that may be behind.
Head ==
  /\ pc = "head"
  /\ \/ target' = safe /\ UNCHANGED faults
     \/ target' \in 0 .. safe - 1 /\ Fault("lag")
  /\ pc' = IF nextBlock <= target' THEN "fetch" ELSE "end"
  /\ UNCHANGED <<ledgerVars, pool, nextBlock, chunkEnd, pending, stored, due, status>>

\* decode_settlement_log takes a log of a configured contract, and no other.
Decoded(b) == log[b] \in Selected

\* A chunk ends somewhere up to the target; the logs get their timestamps.
FetchChunk ==
  /\ pc = "fetch"
  /\ \E e \in nextBlock .. target :
       /\ chunkEnd' = e
       /\ pending' = {b \in nextBlock .. e : Decoded(b)}
  /\ pc' = "store"
  /\ UNCHANGED <<ledgerVars, pool, nextBlock, target, stored, due, status, faults>>

Inserted_Again(b) == [rows EXCEPT ![b] = IF @ < 2 THEN @ + 1 ELSE @]

\* insert_paid_settlement, insert_exit_credit_claim: ON CONFLICT DO NOTHING
Inserted(b) == [rows EXCEPT ![b] = 1]

First(b) == b \in pending /\ \A c \in pending : b <= c

StoreLog(b) ==
  /\ pc = "store" /\ First(b)
  /\ rows' = Inserted(b)
  /\ stored' = (stored \/ rows[b] = 0)
  /\ pending' = pending \ {b}
  /\ UNCHANGED <<log, safe, upto, pc, pool, nextBlock, target, chunkEnd, due,
                 status, faults>>

ChunkStored_LogsLeft == pc = "store"

ChunkStored == pc = "store" /\ pending = {}

Reached_Target == target

\* What last_block becomes with the checkpoint.
Reached == chunkEnd

SetCheckpoint ==
  /\ ChunkStored
  /\ upto' = [upto EXCEPT ![SourceKey] = chunkEnd]
  /\ nextBlock' = chunkEnd + 1
  /\ lastBlock' = Reached
  /\ IF chunkEnd < target
     THEN pc' = "fetch" /\ UNCHANGED target
     ELSE pc' = "end" /\ target' = 0
  /\ chunkEnd' = 0
  /\ UNCHANGED <<log, safe, rows, pool, pending, stored, due, totals, poolBlock>>
  /\ UNCHANGED <<claimBlock, faults>>

\* A call of the round gave up: what the round had counted is forgotten.  A
\* write may have been made before its error.
RoundFails ==
  /\ pc \in {"tick", "load", "head", "fetch", "store"}
  /\ Fault("sync")
  /\ \/ UNCHANGED <<rows, upto>>
     \/ /\ pc = "store" /\ UNCHANGED upto
        /\ \E b \in Block : First(b) /\ rows' = Inserted(b)
     \/ /\ ChunkStored /\ UNCHANGED rows
        /\ upto' = [upto EXCEPT ![SourceKey] = chunkEnd]
  /\ stored' = FALSE /\ NoRound
  /\ pc' = "end"
  /\ UNCHANGED <<log, safe, pool, nextBlock, due, status>>

------------------------------------------------------------------------------
(* The end of a round: refresh_summary.                                    *)

NoRefresh ==
  /\ pc = "end" /\ ~ stored /\ ~ due
  /\ pc' = "tick"
  /\ UNCHANGED <<ledgerVars, pool, nextBlock, round, stored, due, status, faults>>

Due == pc = "end" /\ (stored \/ due)

\* The rows the two aggregate queries are about.
Counted == [b \in Block |-> IF log[b] \in Selected THEN rows[b] ELSE 0]

\* read_pool_gauges: at the last block, first what each exit can claim and then
\* the gauges of each asset.  When a call fails the old gauges stay, and exits
\* that had been read keep what they got.  Without exits nothing is called.
ReadPool ==
  LET exits == \E b \in Block : Counted[b] # 0 IN
  \/ /\ poolBlock' = lastBlock
     /\ claimBlock' = IF exits THEN lastBlock ELSE NoBlock
     /\ UNCHANGED faults
  \/ /\ exits /\ claimBlock' \in {NoBlock, lastBlock}
     /\ UNCHANGED poolBlock
     /\ Fault("pool")

Refresh ==
  /\ Due
  /\ totals' = Counted
  /\ IF pool /\ lastBlock # NoBlock
     THEN ReadPool
     ELSE claimBlock' = NoBlock /\ UNCHANGED <<poolBlock, faults>>
  /\ due' = FALSE
  /\ pc' = "tick"
  /\ UNCHANGED <<ledgerVars, pool, nextBlock, round, stored, lastBlock>>

RefreshFails ==
  /\ Due /\ Fault("refresh")
  /\ pc' = "tick"
  /\ UNCHANGED <<ledgerVars, pool, nextBlock, round, stored, due, status>>

Elapse ==
  /\ ~ due /\ due' = TRUE
  /\ UNCHANGED <<ledgerVars, pc, pool, nextBlock, round, stored, status, faults>>

NewBlock ==
  /\ Mine
  /\ UNCHANGED <<rows, upto, pc, pool, nextBlock, round, stored, due, status, faults>>

------------------------------------------------------------------------------
Sync ==
  \/ Boot \/ Tick \/ LoadCheckpoint \/ Head \/ FetchChunk
  \/ \E b \in Block : StoreLog(b)
  \/ SetCheckpoint \/ RoundFails \/ NoRefresh \/ Refresh \/ RefreshFails

Next == Sync \/ Crash \/ DeleteCheckpoints \/ Elapse \/ NewBlock

Spec == Init /\ [][Next]_vars

\* The task is scheduled, the process is started again, blocks come until the
\* bound, and ten minutes pass again and again.
FairSpec == Spec /\ WF_vars(Sync) /\ WF_vars(Elapse) /\ WF_vars(NewBlock)

------------------------------------------------------------------------------
(* Properties.                                                             *)

\* The shape of the state.
TypeOK ==
  /\ log \in [Block -> Kind] /\ safe \in 0 .. MaxBlock
  /\ rows \in [Block -> 0 .. 1]
  /\ upto \in [Source -> Block \cup {NoCheckpoint}]
  /\ pc \in {"down", "tick", "load", "head", "fetch", "store", "end"}
  /\ pool \in BOOLEAN
  /\ nextBlock \in 1 .. MaxBlock + 1 \cup {NoBlock}
  /\ target \in 0 .. MaxBlock /\ chunkEnd \in 0 .. MaxBlock
  /\ pending \subseteq Block
  /\ stored \in BOOLEAN /\ due \in BOOLEAN
  /\ {lastBlock, poolBlock, claimBlock} \subseteq Block \cup {NoBlock}
  /\ totals \in [Block -> 0 .. 1]
  /\ faults \in 0 .. MaxFaults

\* The sync implements the ledger: no log is counted twice by a chunk that
\* comes again after a failure, a crash, a rescan or a change of the reward
\* pool, and no checkpoint covers a block with a log that is not stored.
ImplementsLedger == LedgerSpec

\* The served totals are never behind the pool figures shown beside them:
\* they count every log up to the block the gauges and the claimable credits
\* were read at, once, although a round may have failed at any call before.
TotalsCoverPoolBlock ==
  \A read \in {poolBlock, claimBlock} \ {NoBlock} : \A b \in Block :
    b <= read /\ log[b] \in Selected => totals[b] = 1

\* What is served only grows while the process runs: the last block and the
\* block of the pool figures never go back and no log leaves the totals again,
\* whatever call fails and however far the endpoint of a later round is behind.
ServedOnlyGrows ==
  [][ pc # "down" /\ pc' # "down" =>
        /\ lastBlock' >= lastBlock /\ poolBlock' >= poolBlock
        /\ \A b \in Block : totals'[b] >= totals[b] ]_vars

\* When faults cease, the served totals become those of the chain, with the
\* pool read at the last block.
TotalsConverge ==
  <>[] /\ pc # "down"
       /\ \A b \in Block : totals[b] = IF log[b] \in Selected THEN 1 ELSE 0
       /\ pool /\ lastBlock # NoBlock => poolBlock = lastBlock
       /\ claimBlock \in {NoBlock, poolBlock}

=============================================================================
