--------------------------- MODULE SettlementProofs ---------------------------
(***************************************************************************)
(* Theorems about the settlement sync, for every MaxBlock, FromBlock, set  *)
(* of faults and number of faults: it implements the ledger, the totals it *)
(* serves cover the block the reward pool was read at, and what is served  *)
(* only grows while the process runs.                                      *)
(***************************************************************************)
EXTENDS Settlement, TLAPS

\* What the tables hold: contracts are silent before FROM_BLOCK, and below a
\* checkpoint every log of its source is counted.
TablesInv ==
  /\ \A b \in Block : log[b] # "none" => b >= FromBlock
  /\ \A s \in Source :
       /\ upto[s] <= safe
       /\ \A b \in Block : b <= upto[s] /\ log[b] \in Follows(s) => rows[b] = 1

\* The chunk in flight lies above what is done and below the safe head, and
\* what is not pending of it is stored.
ChunkInv ==
  /\ target <= safe
  /\ \A b \in pending : b <= safe /\ log[b] # "none"
  /\ pc \in {"down", "load"} => nextBlock = NoBlock
  /\ pc = "down" => pending = {}
  /\ pc = "head" => nextBlock # NoBlock
  /\ pc = "fetch" => nextBlock # NoBlock /\ nextBlock <= target
  /\ pc = "store" =>
       /\ nextBlock # NoBlock /\ nextBlock <= chunkEnd /\ chunkEnd <= target
       /\ \A b \in nextBlock .. chunkEnd :
            log[b] \in Selected => b \in pending \/ rows[b] = 1

\* Below next_block every selected log is counted; that block is at most one
\* past the safe head, or the first block to scan.
NextInv ==
  nextBlock # NoBlock =>
    /\ nextBlock <= safe + 1 \/ nextBlock = FromBlock
    /\ \A b \in Block : b < nextBlock /\ log[b] \in Selected => rows[b] = 1

\* The blocks shown are done, and so are counted in the totals beside them.
StatusInv ==
  /\ lastBlock # NoBlock => nextBlock # NoBlock /\ lastBlock < nextBlock /\ lastBlock <= safe
  /\ poolBlock # NoBlock => nextBlock # NoBlock /\ poolBlock < nextBlock /\ poolBlock <= safe
  /\ claimBlock # NoBlock => nextBlock # NoBlock /\ claimBlock < nextBlock /\ claimBlock <= safe
  /\ TotalsCoverPoolBlock

IInv == TypeOK /\ TablesInv /\ ChunkInv /\ NextInv /\ StatusInv

USE LedgerAssumption, FaultAssumption

------------------------------------------------------------------------------

\* The kinds of log that the filter selects are those of the source under
\* whose key the checkpoint is kept.
LEMMA KeyFollows == SourceKey \in Source /\ Follows(SourceKey) = Selected
BY DEF SourceKey, Source, Follows, Selected

\* Block 0 is before every block, so a first pending log is a block.
LEMMA FirstIsBlock ==
  ASSUME TypeOK, NEW b \in Block, First(b)
  PROVE  b \in pending /\ b \in Block /\ b \in Nat
BY DEF First, Block, TypeOK

\* Rows and totals count a log once or not.
LEMMA NoRowsType == NoRows \in [Block -> 0 .. 1]
BY DEF NoRows

LEMMA CountedType == TypeOK => Counted \in [Block -> 0 .. 1]
BY DEF Counted, TypeOK

LEMMA InsertedType ==
  ASSUME TypeOK, NEW b \in Block
  PROVE  Inserted(b) \in [Block -> 0 .. 1]
BY DEF Inserted, TypeOK

LEMMA InitInv == Init => IInv
<1> SUFFICES ASSUME Init PROVE IInv
  OBVIOUS
<1> USE DEF Init, LedgerInit, NoBlock, NoCheckpoint
<1>1. TypeOK
  <2>1. log \in [Block -> Kind] /\ rows \in [Block -> 0 .. 1]
    BY DEF Kind
  <2>2. totals \in [Block -> 0 .. 1]
    BY NoRowsType
  <2>3. upto \in [Source -> Block \cup {NoCheckpoint}]
    OBVIOUS
  <2>4. /\ safe \in 0 .. MaxBlock /\ target \in 0 .. MaxBlock
        /\ chunkEnd \in 0 .. MaxBlock /\ faults \in 0 .. MaxFaults
    OBVIOUS
  <2> QED
    BY <2>1, <2>2, <2>3, <2>4 DEF TypeOK
<1>2. TablesInv
  BY DEF TablesInv, Block
<1>3. ChunkInv /\ NextInv /\ StatusInv
  BY DEF ChunkInv, NextInv, StatusInv, TotalsCoverPoolBlock
<1> QED
  BY <1>1, <1>2, <1>3 DEF IInv

------------------------------------------------------------------------------
\* Every step keeps the shape of the state.
LEMMA TypeNext == IInv /\ [Next]_vars => TypeOK'
<1> SUFFICES ASSUME IInv, [Next]_vars PROVE TypeOK'
  OBVIOUS
<1> USE DEF IInv, TypeOK, Block, NoBlock, NoCheckpoint
<1>1. CASE Boot
  BY <1>1 DEF Boot, round, status, ledgerVars
<1>2. CASE Crash
  <2>1. UNCHANGED <<log, safe, rows, upto>> /\ faults' \in 0 .. MaxFaults
    BY <1>2 DEF Crash, Fault, ledgerVars
  <2>2. pc' = "down" /\ pool' = FALSE /\ stored' = FALSE /\ due' = TRUE
    BY <1>2 DEF Crash
  <2>3. target' \in 0 .. MaxBlock /\ chunkEnd' \in 0 .. MaxBlock /\ pending' \subseteq Block
    BY <1>2 DEF Crash, NoRound
  <2>4. /\ nextBlock' = NoBlock /\ lastBlock' = NoBlock
        /\ poolBlock' = NoBlock /\ claimBlock' = NoBlock
    BY <1>2 DEF Crash
  <2>5. totals' \in [Block -> 0 .. 1]
    BY <1>2, NoRowsType DEF Crash
  <2> QED
    BY <2>1, <2>2, <2>3, <2>4, <2>5
<1>3. CASE DeleteCheckpoints
  BY <1>3 DEF DeleteCheckpoints, Fault, round, status
<1>4. CASE Tick
  BY <1>4 DEF Tick, round, status, ledgerVars
<1>5. CASE LoadCheckpoint
  BY <1>5, KeyFollows, upto[SourceKey] \in Block \cup {NoCheckpoint}
     DEF LoadCheckpoint, TablesInv, round, status, ledgerVars
<1>6. CASE Head
  BY <1>6 DEF Head, Fault, status, ledgerVars
<1>7. CASE FetchChunk
  BY <1>7 DEF FetchChunk, Decoded, ChunkInv, status, ledgerVars
<1>8. ASSUME NEW b \in Block, StoreLog(b) PROVE TypeOK'
  BY <1>8 DEF StoreLog, Inserted, status
<1>9. CASE SetCheckpoint
  BY <1>9, KeyFollows DEF SetCheckpoint, ChunkStored, Reached, ChunkInv
<1>10. CASE RoundFails
  <2>1. rows' \in [Block -> 0 .. 1]
    BY <1>10, InsertedType DEF RoundFails
  <2>2. upto' \in [Source -> Block \cup {NoCheckpoint}]
    <3>1. CASE ChunkStored /\ upto' = [upto EXCEPT ![SourceKey] = chunkEnd]
      <4>1. chunkEnd \in Block
        BY <3>1 DEF ChunkStored, ChunkInv
      <4> QED
        BY <3>1, <4>1
    <3>2. CASE UNCHANGED upto
      BY <3>2
    <3> QED
      BY <1>10, <3>1, <3>2 DEF RoundFails
  <2> QED
    <3>1. /\ UNCHANGED <<log, safe, pool, nextBlock, due, lastBlock, totals, poolBlock,
                       claimBlock>>
          /\ stored' = FALSE /\ pc' = "end" /\ faults' \in 0 .. MaxFaults
      BY <1>10 DEF RoundFails, Fault, status
    <3>2. target' \in 0 .. MaxBlock /\ chunkEnd' \in 0 .. MaxBlock /\ pending' \subseteq Block
      BY <1>10 DEF RoundFails, NoRound
    <3> QED
      BY <2>1, <2>2, <3>1, <3>2
<1>11. CASE NoRefresh
  BY <1>11 DEF NoRefresh, round, status, ledgerVars
<1>12. CASE Refresh
  <2>1. totals' \in [Block -> 0 .. 1]
    BY <1>12, CountedType DEF Refresh
  <2>2. /\ {poolBlock', claimBlock'} \subseteq Block \cup {NoBlock}
        /\ faults' \in 0 .. MaxFaults
    BY <1>12 DEF Refresh, ReadPool, Fault
  <2>3. /\ UNCHANGED <<log, safe, rows, upto, pool, nextBlock, target, chunkEnd, pending>>
        /\ UNCHANGED <<stored, lastBlock>> /\ due' = FALSE /\ pc' = "tick"
    BY <1>12 DEF Refresh, round, ledgerVars
  <2> QED
    BY <2>1, <2>2, <2>3
<1>13. CASE RefreshFails
  BY <1>13 DEF RefreshFails, Fault, round, status, ledgerVars
<1>14. CASE Elapse
  BY <1>14 DEF Elapse, round, status, ledgerVars
<1>15. CASE NewBlock
  BY <1>15 DEF NewBlock, Mine, Kind, round, status
<1>16. CASE UNCHANGED vars
  BY <1>16 DEF vars, ledgerVars, round, status
<1> QED
  BY <1>1, <1>2, <1>3, <1>4, <1>5, <1>6, <1>7, <1>8, <1>9, <1>10, <1>11, <1>12,
     <1>13, <1>14, <1>15, <1>16 DEF Next, Sync

------------------------------------------------------------------------------
\* A row that is counted stays counted.
LEMMA RowsKept ==
  ASSUME IInv, [Next]_vars, NEW b \in Block, rows[b] = 1
  PROVE  rows'[b] = 1
<1>1. ASSUME NEW c \in Block PROVE Inserted(c)[b] = 1
  BY DEF Inserted, IInv, TypeOK
<1> QED
  BY <1>1 DEF Next, Sync, Boot, Crash, DeleteCheckpoints, Tick, LoadCheckpoint, Head,
    FetchChunk, StoreLog, SetCheckpoint, RoundFails, NoRefresh, Refresh, RefreshFails,
    Elapse, NewBlock, vars, ledgerVars

\* What a step does to the chain: nothing, or one more safe block.
LEMMA ChainStep ==
  ASSUME IInv, [Next]_vars
  PROVE  \/ UNCHANGED <<log, safe>>
         \/ /\ Mine
            /\ UNCHANGED <<rows, upto, pc, pool, nextBlock, target, chunkEnd, pending,
                           lastBlock, totals, poolBlock>>
BY DEF Next, Sync, Boot, Crash, DeleteCheckpoints, Tick, LoadCheckpoint, Head,
  FetchChunk, StoreLog, SetCheckpoint, RoundFails, NoRefresh, Refresh, RefreshFails,
  Elapse, NewBlock, vars, ledgerVars, round, status

\* A new block is above the old safe head, so it has no log yet.
LEMMA MinedAbove ==
  ASSUME IInv, Mine
  PROVE  /\ safe' = safe + 1 /\ safe + 1 \in Block
         /\ \A b \in Block : b # safe + 1 => log'[b] = log[b]
         /\ log'[safe + 1] # "none" => safe + 1 >= FromBlock
BY DEF Mine, IInv, TypeOK, Block

\* A chunk that is stored leaves no selected log up to its end uncounted.
LEMMA StoredCovers ==
  ASSUME IInv, ChunkStored
  PROVE  /\ chunkEnd \in Block /\ chunkEnd <= safe /\ nextBlock <= chunkEnd
         /\ \A b \in Block : b <= chunkEnd /\ log[b] \in Selected => rows[b] = 1
<1>1. /\ nextBlock \in Nat /\ nextBlock # NoBlock /\ nextBlock <= chunkEnd
      /\ chunkEnd <= target /\ target <= safe
  BY DEF ChunkStored, ChunkInv, IInv, TypeOK, NoBlock, Block
<1>2. ASSUME NEW b \in Block, b <= chunkEnd, log[b] \in Selected PROVE rows[b] = 1
  <2>1. CASE b < nextBlock
    BY <1>1, <1>2, <2>1 DEF NextInv, IInv
  <2>2. CASE ~ (b < nextBlock)
    <3>1. b \in nextBlock .. chunkEnd
      BY <1>1, <1>2, <2>2 DEF Block, IInv, TypeOK
    <3> QED
      BY <1>2, <3>1 DEF ChunkStored, ChunkInv, IInv
  <2> QED
    BY <2>1, <2>2
<1> QED
  BY <1>1, <1>2 DEF IInv, TypeOK, Block, NoBlock

------------------------------------------------------------------------------
\* What a step does to the checkpoints.
LEMMA UptoStep ==
  ASSUME IInv, [Next]_vars
  PROVE  \/ UNCHANGED upto
         \/ upto' = [s \in Source |-> NoCheckpoint] /\ UNCHANGED <<log, safe, rows>>
         \/ /\ ChunkStored /\ upto' = [upto EXCEPT ![SourceKey] = chunkEnd]
            /\ UNCHANGED <<log, safe, rows>>
BY DEF Next, Sync, Boot, Crash, DeleteCheckpoints, Tick, LoadCheckpoint, Head,
  FetchChunk, StoreLog, SetCheckpoint, RoundFails, NoRefresh, Refresh, RefreshFails,
  Elapse, NewBlock, vars, ledgerVars

LEMMA TablesNext == IInv /\ [Next]_vars => TablesInv'
<1> SUFFICES ASSUME IInv, [Next]_vars PROVE TablesInv'
  OBVIOUS
<1>1. ASSUME NEW b \in Block, log'[b] # "none" PROVE b >= FromBlock
  BY <1>1, ChainStep, MinedAbove DEF IInv, TablesInv, TypeOK
<1>2. ASSUME NEW s \in Source
      PROVE  /\ upto'[s] <= safe'
             /\ \A b \in Block : b <= upto'[s] /\ log'[b] \in Follows(s) => rows'[b] = 1
  <2>1. /\ upto[s] \in Int /\ upto[s] <= safe /\ safe \in Nat
        /\ \A b \in Block : b <= upto[s] /\ log[b] \in Follows(s) => rows[b] = 1
    BY DEF IInv, TablesInv, TypeOK, Block, NoCheckpoint
  <2>2. CASE UNCHANGED upto
    <3>1. CASE UNCHANGED <<log, safe>>
      BY <2>1, <2>2, <3>1, RowsKept
    <3>2. CASE Mine
      BY <2>1, <2>2, <3>2, RowsKept, MinedAbove DEF Block
    <3> QED
      BY <3>1, <3>2, ChainStep
  <2>3. CASE upto' = [r \in Source |-> NoCheckpoint] /\ UNCHANGED <<log, safe, rows>>
    BY <2>1, <2>3 DEF NoCheckpoint, Block
  <2>4. CASE /\ ChunkStored /\ upto' = [upto EXCEPT ![SourceKey] = chunkEnd]
             /\ UNCHANGED <<log, safe, rows>>
    <3>1. CASE s = SourceKey
      BY <2>4, <3>1, StoredCovers, KeyFollows DEF IInv, TypeOK
    <3>2. CASE s # SourceKey
      BY <2>1, <2>4, <3>2 DEF IInv, TypeOK
    <3> QED
      BY <3>1, <3>2
  <2> QED
    BY <2>2, <2>3, <2>4, UptoStep
<1> QED
  BY <1>1, <1>2 DEF TablesInv

\* What a step does to next_block.
LEMMA NextBlockStep ==
  ASSUME IInv, [Next]_vars
  PROVE  \/ UNCHANGED <<nextBlock, pool>>
         \/ nextBlock' = NoBlock
         \/ LoadCheckpoint
         \/ SetCheckpoint
BY DEF IInv, ChunkInv, Next, Sync, Boot, Crash, DeleteCheckpoints, Tick, Head,
  FetchChunk, StoreLog, RoundFails, NoRefresh, Refresh, RefreshFails,
  Elapse, NewBlock, vars, ledgerVars

LEMMA NextNext == IInv /\ [Next]_vars => NextInv'
<1> SUFFICES ASSUME IInv, [Next]_vars, nextBlock' # NoBlock
             PROVE  /\ nextBlock' <= safe' + 1 \/ nextBlock' = FromBlock
                    /\ \A b \in Block : b < nextBlock' /\ (log[b])' \in Selected' => rows'[b] = 1
  BY DEF NextInv
<1>0. safe \in Nat /\ FromBlock \in Nat /\ MaxBlock \in Nat
  BY DEF IInv, TypeOK
<1>1. CASE UNCHANGED <<nextBlock, pool>>
  <2>1. /\ nextBlock \in Nat
        /\ nextBlock <= safe + 1 \/ nextBlock = FromBlock
        /\ \A b \in Block : b < nextBlock /\ log[b] \in Selected => rows[b] = 1
    BY <1>1 DEF IInv, NextInv, TypeOK, NoBlock
  <2>2. Selected' = Selected
    BY <1>1 DEF Selected
  <2>3. CASE UNCHANGED <<log, safe>>
    BY <1>1, <2>1, <2>2, <2>3, RowsKept
  <2>4. CASE Mine
    <3>1. ASSUME NEW b \in Block, b < nextBlock, log'[b] \in Selected PROVE rows'[b] = 1
      <4>1. CASE b = safe + 1
        <5>1. nextBlock = FromBlock
          BY <1>0, <2>1, <3>1, <4>1
        <5>2. log'[b] # "none"
          BY <3>1 DEF Selected, Follows
        <5> QED
          BY <1>0, <2>4, <3>1, <4>1, <5>1, <5>2, MinedAbove
      <4>2. CASE b # safe + 1
        BY <2>1, <2>4, <3>1, <4>2, MinedAbove, RowsKept
      <4> QED
        BY <4>1, <4>2
    <3> QED
      BY <1>0, <1>1, <2>1, <2>2, <2>4, <3>1, MinedAbove
  <2> QED
    BY <2>3, <2>4, ChainStep
<1>2. CASE LoadCheckpoint
  <2>1. UNCHANGED <<log, safe, rows, pool>> /\ Selected' = Selected
    BY <1>2 DEF LoadCheckpoint, ledgerVars, Selected
  <2>2. \/ nextBlock' = FromBlock
        \/ upto[SourceKey] # NoCheckpoint /\ nextBlock' = upto[SourceKey] + 1
    BY <1>2 DEF LoadCheckpoint
  <2>3. CASE nextBlock' = FromBlock
    BY <1>0, <2>1, <2>3 DEF IInv, TablesInv, Selected, Follows, Block
  <2>4. CASE upto[SourceKey] # NoCheckpoint /\ nextBlock' = upto[SourceKey] + 1
    <3>1. /\ upto[SourceKey] \in Block /\ upto[SourceKey] <= safe
          /\ \A b \in Block : b <= upto[SourceKey] /\ log[b] \in Selected => rows[b] = 1
      BY <2>4, KeyFollows DEF IInv, TypeOK, TablesInv
    <3> QED
      BY <1>0, <2>1, <2>4, <3>1 DEF Block
  <2> QED
    BY <2>2, <2>3, <2>4
<1>3. CASE SetCheckpoint
  <2>1. /\ ChunkStored /\ nextBlock' = chunkEnd + 1
        /\ UNCHANGED <<log, safe, rows, pool>> /\ Selected' = Selected
    BY <1>3 DEF SetCheckpoint, Selected
  <2> QED
    BY <1>0, <2>1, StoredCovers DEF Block
<1> QED
  BY <1>1, <1>2, <1>3, NextBlockStep

------------------------------------------------------------------------------
LEMMA ChunkNext == IInv /\ [Next]_vars => ChunkInv'
<1> SUFFICES ASSUME IInv, [Next]_vars PROVE ChunkInv'
  OBVIOUS
<1>0. /\ safe \in Nat /\ target \in Nat /\ FromBlock \in Nat /\ NoBlock = -1
      /\ nextBlock # NoBlock => nextBlock \in Nat
  BY DEF IInv, TypeOK, NoBlock
<1> USE DEF ChunkInv
<1>a. ASSUME UNCHANGED <<log, safe, rows, pc, pool, nextBlock, target, chunkEnd, pending>>
      PROVE  ChunkInv'
  BY <1>a DEF IInv, Selected
<1>b. ASSUME UNCHANGED <<log, safe, target, pending>>, pc' \in {"tick", "end"}
      PROVE  ChunkInv'
  BY <1>b DEF IInv
<1>1. CASE Boot
  BY <1>1, <1>b DEF Boot, round, ledgerVars
<1>2. CASE Crash
  BY <1>0, <1>2 DEF Crash, NoRound, ledgerVars
<1>3. CASE DeleteCheckpoints
  BY <1>3, <1>a DEF DeleteCheckpoints, round
<1>4. CASE Tick
  <2>1. /\ UNCHANGED <<log, safe, target, pending, nextBlock>>
        /\ pc' = IF nextBlock = NoBlock THEN "load" ELSE "head"
    BY <1>4 DEF Tick, round, ledgerVars
  <2> QED
    BY <2>1 DEF IInv
<1>5. CASE LoadCheckpoint
  <2>1. UNCHANGED <<log, safe, target, pending>> /\ pc' = "head"
    BY <1>5 DEF LoadCheckpoint, round, ledgerVars
  <2>2. nextBlock' # NoBlock
    BY <1>0, <1>5, KeyFollows DEF LoadCheckpoint, IInv, TypeOK, Block, NoCheckpoint
  <2> QED
    BY <2>1, <2>2 DEF IInv
<1>6. CASE Head
  <2>1. /\ UNCHANGED <<log, safe, pending, nextBlock>> /\ pc = "head"
        /\ target' <= safe
        /\ pc' = IF nextBlock <= target' THEN "fetch" ELSE "end"
    BY <1>0, <1>6 DEF Head, ledgerVars
  <2> QED
    BY <2>1 DEF IInv
<1>7. CASE FetchChunk
  <2>1. PICK e \in nextBlock .. target :
          /\ chunkEnd' = e /\ pending' = {b \in nextBlock .. e : log[b] \in Selected}
    BY <1>7 DEF FetchChunk, Decoded
  <2>2. /\ UNCHANGED <<log, safe, rows, pool, nextBlock, target>> /\ Selected' = Selected
        /\ pc' = "store" /\ nextBlock \in Nat /\ nextBlock # NoBlock
    BY <1>0, <1>7 DEF FetchChunk, ledgerVars, Selected, IInv
  <2>3. /\ e \in Nat /\ nextBlock <= e /\ e <= target /\ target <= safe
    BY <1>0, <2>1, <2>2 DEF IInv
  <2>4. \A b \in pending' : b <= safe /\ log[b] # "none"
    BY <1>0, <2>1, <2>2, <2>3 DEF Selected, Follows
  <2> QED
    BY <2>1, <2>2, <2>3, <2>4
<1>8. ASSUME NEW c \in Block, StoreLog(c) PROVE ChunkInv'
  <2>1. /\ UNCHANGED <<log, safe, pool, nextBlock, target, chunkEnd, pc>> /\ pc = "store"
        /\ pending' = pending \ {c} /\ Selected' = Selected
    BY <1>8 DEF StoreLog, Selected
  <2>2. rows'[c] = 1
    BY <1>8 DEF StoreLog, Inserted, IInv, TypeOK
  <2>3. ASSUME NEW b \in nextBlock .. chunkEnd, log[b] \in Selected
        PROVE  b \in pending' \/ rows'[b] = 1
    <3>1. b \in Block
      BY <1>0, <2>1 DEF IInv, TypeOK, Block, NoBlock
    <3> QED
      BY <2>1, <2>2, <2>3, <3>1, RowsKept DEF IInv
  <2> QED
    BY <2>1, <2>3 DEF IInv
<1>9. CASE SetCheckpoint
  <2>1. /\ UNCHANGED <<log, safe, pending>> /\ nextBlock' = chunkEnd + 1
        /\ \/ chunkEnd < target /\ pc' = "fetch" /\ target' = target
           \/ pc' = "end" /\ target' = 0
    <3>1. CASE chunkEnd < target
      BY <1>9, <3>1 DEF SetCheckpoint
    <3>2. CASE ~ (chunkEnd < target)
      BY <1>9, <3>2 DEF SetCheckpoint
    <3> QED
      BY <3>1, <3>2
  <2>2. chunkEnd \in Nat /\ target <= safe
    BY DEF IInv, TypeOK
  <2> QED
    BY <1>0, <2>1, <2>2 DEF IInv
<1>10. CASE RoundFails
  BY <1>0, <1>10 DEF RoundFails, NoRound
<1>11. CASE NoRefresh
  BY <1>11, <1>b DEF NoRefresh, round, ledgerVars
<1>12. CASE Refresh
  BY <1>12, <1>b DEF Refresh, round, ledgerVars
<1>13. CASE RefreshFails
  BY <1>13, <1>b DEF RefreshFails, round, ledgerVars
<1>14. CASE Elapse
  BY <1>14, <1>a DEF Elapse, round, ledgerVars
<1>15. CASE NewBlock
  <2>1. /\ UNCHANGED <<rows, pc, pool, nextBlock, target, chunkEnd, pending>>
        /\ Selected' = Selected /\ pending \subseteq Block
    BY <1>15 DEF NewBlock, Selected, round, IInv, TypeOK
  <2>2. /\ safe' = safe + 1
        /\ \A b \in Block : b <= safe => log'[b] = log[b]
    BY <1>0, <1>15, MinedAbove DEF NewBlock, Block
  <2>3. ASSUME pc = "store"
        PROVE  \A b \in nextBlock .. chunkEnd : log'[b] \in Selected => b \in pending \/ rows[b] = 1
    BY <1>0, <2>2, <2>3 DEF IInv, TypeOK, Block, NoBlock
  <2>4. \A b \in pending : b <= safe' /\ log'[b] # "none"
    BY <1>0, <2>1, <2>2 DEF IInv, Block
  <2> QED
    BY <1>0, <2>1, <2>2, <2>3, <2>4 DEF IInv
<1>16. CASE UNCHANGED vars
  BY <1>16, <1>a DEF vars, ledgerVars, round
<1> QED
  BY <1>1, <1>2, <1>3, <1>4, <1>5, <1>6, <1>7, <1>8, <1>9, <1>10, <1>11, <1>12,
     <1>13, <1>14, <1>15, <1>16 DEF Next, Sync

------------------------------------------------------------------------------
\* What a step does to the blocks that are shown.
LEMMA StatusStep ==
  ASSUME IInv, [Next]_vars
  PROVE  \/ UNCHANGED <<pool, lastBlock, poolBlock, claimBlock, totals>>
         \/ lastBlock' = NoBlock /\ poolBlock' = NoBlock /\ claimBlock' = NoBlock
         \/ SetCheckpoint
         \/ Refresh
BY DEF IInv, ChunkInv, StatusInv, Next, Sync, Boot, Crash, DeleteCheckpoints, Tick,
  LoadCheckpoint, Head, FetchChunk, StoreLog, RoundFails, NoRefresh, RefreshFails,
  Elapse, NewBlock, vars, status

\* next_block is only forgotten with the process, and never goes back.
LEMMA NextBlockGrows ==
  ASSUME IInv, [Next]_vars, nextBlock # NoBlock,
         lastBlock' # NoBlock \/ poolBlock' # NoBlock \/ claimBlock' # NoBlock
  PROVE  nextBlock' # NoBlock /\ nextBlock' >= nextBlock
<1>0. nextBlock \in Nat
  BY DEF IInv, TypeOK, NoBlock
<1>1. CASE SetCheckpoint
  BY <1>0, <1>1, StoredCovers DEF SetCheckpoint, Block, NoBlock
<1>2. CASE UNCHANGED nextBlock
  BY <1>0, <1>2
<1> QED
  BY <1>1, <1>2 DEF IInv, ChunkInv, Next, Sync, Boot, Crash, DeleteCheckpoints, Tick,
    LoadCheckpoint, Head, FetchChunk, StoreLog, RoundFails, NoRefresh, Refresh, RefreshFails,
    Elapse, NewBlock, vars

LEMMA StatusNext == IInv /\ [Next]_vars => StatusInv'
<1> SUFFICES ASSUME IInv, [Next]_vars PROVE StatusInv'
  OBVIOUS
<1>0. /\ safe \in Nat /\ safe' \in Nat /\ safe <= safe' /\ NoBlock = -1
      /\ lastBlock \in Int /\ poolBlock \in Int /\ claimBlock \in Int
      /\ nextBlock \in Int /\ nextBlock' \in Int
  <2>1. /\ safe \in Nat /\ lastBlock \in Int /\ poolBlock \in Int /\ claimBlock \in Int
        /\ nextBlock \in Int
    BY DEF IInv, TypeOK, NoBlock, Block
  <2>2. nextBlock' \in Int
    BY TypeNext DEF TypeOK, NoBlock
  <2>3. safe' \in Nat /\ safe <= safe'
    BY <2>1, ChainStep, MinedAbove
  <2> QED
    BY <2>1, <2>2, <2>3 DEF NoBlock
<1>1. CASE UNCHANGED <<pool, lastBlock, poolBlock, claimBlock, totals>>
  <2>1. ASSUME lastBlock # NoBlock
        PROVE  nextBlock' # NoBlock /\ lastBlock < nextBlock' /\ lastBlock <= safe'
    BY <1>0, <1>1, <2>1, NextBlockGrows DEF IInv, StatusInv
  <2>2. ASSUME poolBlock # NoBlock
        PROVE  nextBlock' # NoBlock /\ poolBlock < nextBlock' /\ poolBlock <= safe'
    BY <1>0, <1>1, <2>2, NextBlockGrows DEF IInv, StatusInv
  <2>3. ASSUME claimBlock # NoBlock
        PROVE  nextBlock' # NoBlock /\ claimBlock < nextBlock' /\ claimBlock <= safe'
    BY <1>0, <1>1, <2>3, NextBlockGrows DEF IInv, StatusInv
  <2>4. ASSUME NEW read \in {poolBlock, claimBlock} \ {NoBlock}, NEW b \in Block,
               b <= read, log'[b] \in Selected'
        PROVE  totals[b] = 1
    <3>1. log'[b] = log[b]
      BY <1>0, <2>4, ChainStep, MinedAbove DEF IInv, StatusInv, Block
    <3> QED
      BY <1>1, <2>4, <3>1 DEF IInv, StatusInv, TotalsCoverPoolBlock, Selected
  <2> QED
    BY <1>1, <2>1, <2>2, <2>3, <2>4 DEF StatusInv, TotalsCoverPoolBlock
<1>2. CASE lastBlock' = NoBlock /\ poolBlock' = NoBlock /\ claimBlock' = NoBlock
  BY <1>2 DEF StatusInv, TotalsCoverPoolBlock
<1>3. CASE SetCheckpoint
  <2>1. /\ UNCHANGED <<log, safe, pool, poolBlock, claimBlock, totals>>
        /\ Selected' = Selected
        /\ lastBlock' = chunkEnd /\ nextBlock' = chunkEnd + 1 /\ ChunkStored
    BY <1>3 DEF SetCheckpoint, Selected, Reached
  <2>2. chunkEnd \in Nat /\ chunkEnd <= safe /\ nextBlock <= chunkEnd
    BY <2>1, StoredCovers DEF Block
  <2> QED
    BY <1>0, <2>1, <2>2 DEF IInv, StatusInv, TotalsCoverPoolBlock
<1>4. CASE Refresh
  <2>1. /\ UNCHANGED <<log, safe, rows, pool, nextBlock, lastBlock>> /\ Selected' = Selected
        /\ totals' = Counted /\ poolBlock' \in {lastBlock, poolBlock}
        /\ claimBlock' \in {lastBlock, NoBlock}
    BY <1>4 DEF Refresh, ReadPool, ledgerVars, Selected
  <2>2. ASSUME NEW read \in {poolBlock', claimBlock'} \ {NoBlock}, NEW b \in Block,
               b <= read, log[b] \in Selected
        PROVE  Counted[b] = 1
    <3>1. nextBlock # NoBlock /\ b < nextBlock
      BY <1>0, <2>1, <2>2 DEF IInv, StatusInv, Block
    <3> QED
      BY <2>2, <3>1 DEF IInv, NextInv, Counted
  <2> QED
    BY <1>0, <2>1, <2>2 DEF IInv, StatusInv, TotalsCoverPoolBlock
<1> QED
  BY <1>1, <1>2, <1>3, <1>4, StatusStep

------------------------------------------------------------------------------
LEMMA Invariance == Spec => []IInv
<1>1. IInv /\ [Next]_vars => IInv'
  BY TypeNext, TablesNext, ChunkNext, NextNext, StatusNext DEF IInv
<1> QED
  BY <1>1, InitInv, PTL DEF Spec

\* The state keeps its shape; in particular no log is ever counted twice.
THEOREM SettlementTypeCorrect == Spec => []TypeOK
<1>1. IInv => TypeOK
  BY DEF IInv
<1> QED
  BY <1>1, Invariance, PTL

\* Whatever call of a round fails, whenever the process stops and whatever the
\* operator deletes, the served totals count every log, once, up to the block
\* that the pool figures beside them were read at.
THEOREM TotalsCover == Spec => []TotalsCoverPoolBlock
<1>1. IInv => TotalsCoverPoolBlock
  BY DEF IInv, StatusInv
<1> QED
  BY <1>1, Invariance, PTL

\* A step of the sync is a step of the ledger, or changes nothing of it.
LEMMA StepImplements == IInv /\ [Next]_vars => [LedgerNext]_ledgerVars
<1> SUFFICES ASSUME IInv, [Next]_vars PROVE [LedgerNext]_ledgerVars
  OBVIOUS
<1>1. CASE UNCHANGED ledgerVars
  BY <1>1
<1>2. CASE NewBlock
  BY <1>2 DEF NewBlock, LedgerNext, Chain
<1>3. CASE DeleteCheckpoints
  BY <1>3 DEF DeleteCheckpoints, LedgerNext, Forget
<1>4. ASSUME NEW b \in Block, First(b), b \in pending, rows' = Inserted(b),
             UNCHANGED <<log, safe, upto>>
      PROVE  [LedgerNext]_ledgerVars
  <2>1. b <= safe /\ log[b] # "none"
    BY <1>4 DEF IInv, ChunkInv
  <2>2. CASE rows[b] = 0
    BY <1>4, <2>1, <2>2 DEF LedgerNext, Count, Inserted
  <2>3. CASE rows[b] = 1
    BY <1>4, <2>3 DEF Inserted, ledgerVars, IInv, TypeOK
  <2> QED
    BY <2>2, <2>3 DEF IInv, TypeOK
<1>5. ASSUME ChunkStored, upto' = [upto EXCEPT ![SourceKey] = chunkEnd],
             UNCHANGED <<log, safe, rows>>
      PROVE  LedgerNext
  <2>1. Close(SourceKey, chunkEnd)
    BY <1>5, StoredCovers, KeyFollows DEF Close, Block
  <2> QED
    BY <2>1, <1>5, StoredCovers, KeyFollows DEF LedgerNext
<1>6. ASSUME NEW b \in Block, StoreLog(b) PROVE [LedgerNext]_ledgerVars
  BY <1>4, <1>6 DEF StoreLog, First
<1>7. CASE SetCheckpoint
  BY <1>5, <1>7 DEF SetCheckpoint
<1>8. CASE RoundFails
  <2>1. UNCHANGED <<log, safe>>
    BY <1>8 DEF RoundFails
  <2>2. CASE UNCHANGED <<rows, upto>>
    BY <2>1, <2>2 DEF ledgerVars
  <2>3. CASE UNCHANGED upto /\ \E b \in Block : First(b) /\ rows' = Inserted(b)
    BY <1>4, <2>1, <2>3 DEF First
  <2>4. CASE ChunkStored /\ UNCHANGED rows /\ upto' = [upto EXCEPT ![SourceKey] = chunkEnd]
    BY <1>5, <2>1, <2>4
  <2> QED
    BY <1>8, <2>2, <2>3, <2>4 DEF RoundFails
<1> QED
  BY <1>1, <1>2, <1>3, <1>6, <1>7, <1>8 DEF Next, Sync, Boot, Crash, Tick,
    LoadCheckpoint, Head, FetchChunk, NoRefresh, Refresh, RefreshFails, Elapse, vars

\* The sync implements the ledger that counts every log once and closes a
\* block only when the logs of it are counted.
THEOREM SyncImplementsLedger == Spec => ImplementsLedger
<1>1. Init => LedgerInit
  BY DEF Init
<1> QED
  BY <1>1, Invariance, StepImplements, PTL DEF Spec, ImplementsLedger, LedgerSpec

------------------------------------------------------------------------------
(* What is served only grows.                                              *)

\* The pool is read at the last block, and the totals count logs that are
\* stored and selected; a log is never above the safe head.
GrowInv ==
  /\ poolBlock <= lastBlock
  /\ \A b \in Block : log[b] # "none" => b <= safe
  /\ \A b \in Block : totals[b] = 1 => rows[b] = 1 /\ log[b] \in Selected
  /\ pc = "down" => totals = NoRows

\* The log of a block only changes when the block becomes safe, and the pool
\* only changes while the process is down.
LEMMA LogKept ==
  ASSUME IInv, GrowInv, [Next]_vars, NEW b \in Block, log[b] # "none"
  PROVE  log'[b] = log[b]
<1>1. safe \in Nat /\ b \in Nat /\ b <= safe
  BY DEF IInv, TypeOK, GrowInv, Block
<1> QED BY <1>1, ChainStep, MinedAbove

LEMMA GrowNext == IInv /\ IInv' /\ GrowInv /\ [Next]_vars => GrowInv'
<1> SUFFICES ASSUME IInv, IInv', GrowInv, [Next]_vars PROVE GrowInv'
  OBVIOUS
<1>0. /\ poolBlock \in Int /\ lastBlock \in Int /\ safe \in Nat /\ safe' \in Nat
      /\ NoBlock = -1 /\ Block \subseteq Nat
  BY DEF IInv, TypeOK, NoBlock, Block
<1>1. poolBlock' <= lastBlock'
  <2>1. CASE SetCheckpoint
    <3>1. poolBlock' = poolBlock /\ lastBlock' = chunkEnd /\ ChunkStored
      BY <2>1 DEF SetCheckpoint, Reached
    <3>2. lastBlock <= chunkEnd
      <4>1. chunkEnd \in Nat /\ nextBlock \in Int /\ nextBlock <= chunkEnd
        BY <3>1, StoredCovers DEF IInv, TypeOK, Block, NoBlock
      <4> QED BY <1>0, <4>1 DEF IInv, StatusInv
    <3>3. chunkEnd \in Int
      BY DEF IInv, TypeOK
    <3> QED BY <1>0, <3>1, <3>2, <3>3 DEF GrowInv
  <2>2. CASE Refresh
    <3>1. lastBlock' = lastBlock /\ poolBlock' \in {lastBlock, poolBlock}
      BY <2>2 DEF Refresh, ReadPool
    <3> QED BY <1>0, <3>1 DEF GrowInv
  <2> QED BY <1>0, <2>1, <2>2, StatusStep DEF GrowInv
<1>2. ASSUME NEW b \in Block, log'[b] # "none" PROVE b <= safe'
  BY <1>0, <1>2, ChainStep, MinedAbove DEF IInv, GrowInv
<1>3. ASSUME NEW b \in Block, totals'[b] = 1
      PROVE  rows'[b] = 1 /\ (log[b])' \in Selected'
  <2>1. CASE totals[b] = 1 /\ UNCHANGED pool
    <3>1. rows[b] = 1 /\ log[b] \in Selected /\ log[b] # "none"
      BY <2>1 DEF GrowInv, Selected, Follows
    <3> QED BY <2>1, <3>1, RowsKept, LogKept DEF Selected
  <2>2. CASE Refresh
    <3>1. /\ UNCHANGED <<log, rows, pool>> /\ totals' = Counted
      BY <2>2 DEF Refresh, ledgerVars
    <3> QED BY <1>3, <3>1 DEF Counted, Selected
  <2>3. CASE totals' = totals /\ pc = "down"
    BY <1>3, <2>3 DEF GrowInv, NoRows
  <2>4. CASE totals' = NoRows
    BY <1>3, <2>4 DEF NoRows
  <2>5. \/ totals' = totals /\ (pool' = pool \/ pc = "down")
        \/ totals' = NoRows
        \/ Refresh
    BY DEF Next, Sync, Boot, Crash, DeleteCheckpoints, Tick, LoadCheckpoint, Head,
      FetchChunk, StoreLog, SetCheckpoint, RoundFails, NoRefresh, RefreshFails, Elapse,
      NewBlock, vars, status
  <2> QED BY <1>3, <2>1, <2>2, <2>3, <2>4, <2>5
<1>4. ASSUME pc' = "down" PROVE totals' = NoRows
  BY <1>4 DEF GrowInv, Next, Sync, Boot, Crash, DeleteCheckpoints, Tick, LoadCheckpoint,
    Head, FetchChunk, StoreLog, SetCheckpoint, RoundFails, NoRefresh, Refresh,
    RefreshFails, Elapse, NewBlock, vars, status
<1> QED BY <1>1, <1>2, <1>3, <1>4 DEF GrowInv

LEMMA Growing == Spec => []GrowInv
<1>1. Init => GrowInv
  BY DEF Init, LedgerInit, GrowInv, NoBlock, NoRows
<1> QED BY <1>1, GrowNext, Invariance, PTL DEF Spec

\* Neither the block that is served nor that of the pool figures goes back, and
\* no log leaves the totals, until the process stops.
THEOREM ServedGrows == Spec => ServedOnlyGrows
<1>1. IInv /\ IInv' /\ GrowInv /\ [Next]_vars =>
        [pc # "down" /\ pc' # "down" =>
           /\ lastBlock' >= lastBlock /\ poolBlock' >= poolBlock
           /\ \A b \in Block : totals'[b] >= totals[b]]_vars
  <2> SUFFICES ASSUME IInv, IInv', GrowInv, Next, pc # "down", pc' # "down"
               PROVE  /\ lastBlock' >= lastBlock /\ poolBlock' >= poolBlock
                      /\ \A b \in Block : totals'[b] >= totals[b]
    OBVIOUS
  <2>0. /\ poolBlock \in Int /\ lastBlock \in Int /\ nextBlock \in Int /\ NoBlock = -1
        /\ totals \in [Block -> 0 .. 1]
    BY DEF IInv, TypeOK, NoBlock, Block
  <2>1. CASE SetCheckpoint
    <3>1. UNCHANGED <<poolBlock, totals>> /\ lastBlock' = chunkEnd /\ ChunkStored
      BY <2>1 DEF SetCheckpoint, Reached
    <3>2. chunkEnd \in Nat /\ nextBlock <= chunkEnd
      BY <3>1, StoredCovers DEF Block
    <3>3. lastBlock <= chunkEnd
      BY <2>0, <3>2 DEF IInv, StatusInv
    <3> QED BY <2>0, <3>1, <3>2, <3>3
  <2>2. CASE Refresh
    <3>1. /\ lastBlock' = lastBlock /\ poolBlock' \in {lastBlock, poolBlock}
          /\ totals' = Counted
      BY <2>2 DEF Refresh, ReadPool
    <3>2. \A b \in Block : totals[b] = 1 => Counted[b] = 1
      BY DEF GrowInv, Counted
    <3>3. Counted \in [Block -> 0 .. 1]
      BY CountedType DEF IInv
    <3> QED BY <2>0, <3>1, <3>2, <3>3 DEF GrowInv
  <2>3. CASE UNCHANGED <<lastBlock, poolBlock, totals>>
    BY <2>0, <2>3
  <2> QED
    BY <2>1, <2>2, <2>3 DEF Next, Sync, Boot, Crash, DeleteCheckpoints, Tick,
      LoadCheckpoint, Head, FetchChunk, StoreLog, RoundFails, NoRefresh, RefreshFails,
      Elapse, NewBlock, status
<1> QED BY <1>1, Invariance, Growing, PTL DEF Spec, ServedOnlyGrows

=============================================================================
