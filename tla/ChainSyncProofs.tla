--------------------------- MODULE ChainSyncProofs ---------------------------
(* Proofs about ChainSync, for every value of its constants.               *)
EXTENDS ChainSync, TLAPS

------------------------------------------------------------------------------
(* Type correctness.                                                       *)

LEMMA ProfileType ==
  ASSUME NEW l, NEW a, NEW h \in 0 .. MaxBlock
  PROVE  Profile(l, a, h) \in Profiles
BY ConstantsAssumption DEF Profile, Profiles, Absent

LEMMA SafeHeadType ==
  ASSUME NEW h \in Nat
  PROVE  /\ SafeHead(h) \in Nat
         /\ SafeHead(h) + Confirmations <= h \/ SafeHead(h) = 0
BY ConstantsAssumption DEF SafeHead

LEMMA SeesType ==
  ASSUME NEW h, TypeOK, Sees(h)
  PROVE  h \in 0 .. tip /\ h \in 0 .. MaxBlock /\ h + Lag >= tip
         /\ faults' \in 0 .. MaxFaults
BY ConstantsAssumption DEF Sees, Fault, TypeOK

LEMMA FaultType ==
  ASSUME NEW k, TypeOK, Fault(k)
  PROVE  faults' \in 0 .. MaxFaults
BY ConstantsAssumption DEF Fault, TypeOK

LEMMA ChunkType ==
  ASSUME NEW from, NEW e, NEW cut, TypeOK, Chunk(from, e, cut)
  PROVE  e \in from .. target /\ faults' \in 0 .. MaxFaults
BY FaultType DEF Chunk, TypeOK

LEMMA NoProfilesType == NoProfiles \in [Addr -> Profiles]
BY DEF NoProfiles, Profiles, Absent

LEMMA TypeInit == Init => TypeOK
<1> SUFFICES ASSUME Init PROVE TypeOK
  OBVIOUS
<1>1. forceFull \in BOOLEAN /\ force \in BOOLEAN /\ changed \in BOOLEAN
  BY Zenon DEF Init
<1> QED
  BY <1>1, ConstantsAssumption, NoProfilesType
     DEF Init, TypeOK, Block, Empty, NoCheckpoint

LEMMA TypeStep == TypeOK /\ [Next]_vars => TypeOK'
<1> SUFFICES ASSUME TypeOK, [Next]_vars PROVE TypeOK'
  OBVIOUS
<1> USE ConstantsAssumption
<1>1. CASE Boot
  BY <1>1, FaultType, NoProfilesType
     DEF Boot, TypeOK, Here, Profiles, Absent, chainVars, dbVars, superVars,
         replayVars, syncVars, liveVars, ghostVars
<1>2. CASE Attempt
  <2> USE DEF chainVars, dbVars, superVars, replayVars, syncVars, liveVars, ghostVars
  <2>1. CASE StartAttempt
    BY <2>1 DEF StartAttempt, TypeOK, NoCheckpoint, Resumes
  <2>2. CASE TargetHead
    BY <2>2, SeesType, SafeHeadType DEF TargetHead, Target, TypeOK
  <2>3. CASE ScanChunk
    <3>1. PICK e \in Block, cut \in 0 .. MaxBlock :
            Chunk(next, e, cut) /\ members' = Replayed(members, next, cut) /\ next' = e + 1
      BY <2>3 DEF ScanChunk
    <3>2. next' \in Nat /\ members' \subseteq Addr /\ faults' \in 0 .. MaxFaults
      BY <3>1, ChunkType DEF Replayed, Block
    <3> QED BY <2>3, <3>2 DEF ScanChunk, TypeOK
  <2>4. CASE MembershipVerified
    BY <2>4, NoProfilesType DEF MembershipVerified, Accept, TypeOK
  <2>5. CASE MembershipTolerated
    BY <2>5, NoProfilesType DEF MembershipTolerated, Accept, TypeOK
  <2>6. CASE ResumeDisagrees
    BY <2>6, NoProfilesType DEF ResumeDisagrees, NoReplay, NoSyncWork, TypeOK
  <2>7. CASE FullReplayDisagrees
    BY <2>7, NoProfilesType DEF FullReplayDisagrees, NoReplay, NoSyncWork, TypeOK
  <2>8. CASE CheckFails
    BY <2>8, FaultType DEF CheckFails, LastCheck, TypeOK
  <2>9. CASE \E a \in Addr : ReadProfile(a)
    BY <2>9, SeesType, ProfileType DEF ReadProfile, TypeOK
  <2>10. CASE ProfilesRead
    BY <2>10 DEF ProfilesRead, TypeOK
  <2>11. CASE \E a \in Addr : UpsertRow(a)
    BY <2>11 DEF UpsertRow, NoteRewrittenRows, TypeOK
  <2>12. CASE PruneRows
    <3>1. row' \in [Addr -> Profiles]
      BY <2>12 DEF PruneRows, Pruned, TypeOK, Profiles, Absent
    <3> QED BY <2>12, <3>1 DEF PruneRows, NoteRewrittenRows, TypeOK
  <2>13. CASE SetCheckpoint
    BY <2>13 DEF SetCheckpoint, TypeOK
  <2>14. CASE Publish
    <3>1. changed' \in BOOLEAN
      BY <2>14, Zenon DEF Publish
    <3> QED BY <2>14, <3>1, NoProfilesType DEF Publish, NoReplay, NoSyncWork, TypeOK
  <2>15. CASE AttemptFails
    BY <2>15, FaultType, NoProfilesType DEF AttemptFails, NoSyncWork, TypeOK
  <2>16. CASE Retry
    BY <2>16 DEF Retry, TypeOK
  <2> QED
    BY <1>2, <2>1, <2>2, <2>3, <2>4, <2>5, <2>6, <2>7, <2>8, <2>9, <2>10,
       <2>11, <2>12, <2>13, <2>14, <2>15, <2>16 DEF Attempt
<1>3. CASE Follow
  <2> USE DEF chainVars, dbVars, superVars, replayVars, syncVars, liveVars, ghostVars
  <2>1. CASE Poll
    <3>1. changed' \in BOOLEAN
      BY <2>1, Zenon DEF Poll
    <3> QED BY <2>1, <3>1, SeesType, SafeHeadType DEF Poll, TypeOK
  <2>2. CASE FetchChunk
    <3>1. PICK e \in Block, cut \in 0 .. MaxBlock :
            /\ Chunk(lastBlock + 1, e, cut)
            /\ pending' = {b \in lastBlock + 1 .. cut : log[b].kind # "none"}
            /\ chunkEnd' = e
      BY <2>2 DEF FetchChunk
    <3>2. pending' \subseteq Block /\ chunkEnd' \in 0 .. MaxBlock /\ faults' \in 0 .. MaxFaults
      BY <3>1, ChunkType DEF Block, TypeOK
    <3> QED BY <2>2, <3>2 DEF FetchChunk, TypeOK
  <2>3. CASE FetchFails
    BY <2>3, FaultType DEF FetchFails, TypeOK
  <2>4. CASE \E b \in Block : ApplyEvent(b)
    <3>1. PICK b \in Block : ApplyEvent(b)
      BY <2>4
    <3> DEFINE a == log[b].addr
    <3>2. row' \in [Addr -> Profiles] /\ nodes' \in [Addr -> Profiles]
          /\ faults' \in 0 .. MaxFaults /\ suspect' \subseteq Addr
      <4>0. log[b].kind # "none" => a \in Addr
        BY DEF TypeOK, Event, Empty
      <4>1. CASE log[b].kind \in {"reg", "prof"} /\ RefreshNode(a)
        BY <4>0, <4>1, SeesType, ProfileType DEF RefreshNode, TypeOK
      <4>2. CASE log[b].kind = "rem" /\ RemoveNode(a)
        BY <4>2 DEF RemoveNode, TypeOK, Profiles, Absent
      <4>3. CASE EventLost(b, a)
        <5>1. a \in Addr
          BY <4>3 DEF EventLost, Event
        <5>2. Profile(log, a, tip) \in Profiles /\ Absent \in Profiles
          BY ProfileType DEF TypeOK, Profiles, Absent
        <5> QED BY <4>3, <5>1, <5>2, FaultType DEF EventLost, TypeOK
      <4> QED BY <3>1, <4>1, <4>2, <4>3 DEF ApplyEvent
    <3> QED BY <3>1, <3>2 DEF ApplyEvent, TypeOK
  <2>5. CASE SaveCheckpoint
    BY <2>5, FaultType DEF SaveCheckpoint, TypeOK
  <2>6. CASE CheckServed
    <3>1. changed' \in BOOLEAN
      BY <2>6, Zenon DEF CheckServed
    <3>2. floorUp' \in BOOLEAN
      <4>1. floorUp' = floorUp \/ floorUp' = FALSE
        BY <2>6, Zenon DEF CheckServed
      <4> QED BY <4>1, Zenon DEF TypeOK
    <3>3. /\ mismatches' \in 0 .. MismatchesBeforeResync
          /\ verified' \in {"yes", "no"} /\ pc' \in {"poll", "plan"}
          /\ phase' = phase \/ phase' = "Syncing"
      BY <2>6 DEF CheckServed, TypeOK
    <3>4. forceFull' \in BOOLEAN /\ force' \in BOOLEAN
      BY <2>6 DEF CheckServed, TypeOK
    <3>5. plan' \in {"none", "full", "resume"} /\ next' \in Nat /\ members' \subseteq Addr
      BY <2>6 DEF CheckServed, NoReplay, TypeOK
    <3> QED BY <2>6, <3>1, <3>2, <3>3, <3>4, <3>5 DEF CheckServed, TypeOK
  <2>7. CASE NoCheck
    <3>1. changed' \in BOOLEAN
      BY <2>7, Zenon DEF NoCheck
    <3> QED BY <2>7, <3>1, FaultType DEF NoCheck, TypeOK
  <2> QED BY <1>3, <2>1, <2>2, <2>3, <2>4, <2>5, <2>6, <2>7 DEF Follow
<1>4. CASE Environment
  <2> USE DEF chainVars, dbVars, superVars, replayVars, syncVars, liveVars, ghostVars
  <2>1. CASE Mine
    BY <2>1 DEF Mine, TypeOK, Block
  <2>2. CASE Reorg
    BY <2>2, FaultType DEF Reorg, TypeOK
  <2>3. CASE Crash
    <3>1. forceFull' \in BOOLEAN /\ force' \in BOOLEAN /\ changed' \in BOOLEAN
      BY <2>3, Zenon DEF Crash
    <3> QED
      BY <2>3, <3>1, FaultType, NoProfilesType
         DEF Crash, NoReplay, NoSyncWork, TypeOK
  <2>4. CASE ForeignRun
    BY <2>4, FaultType DEF ForeignRun, TypeOK, Profiles, Absent, Foreign
  <2>5. CASE FloorPasses
    BY <2>5 DEF FloorPasses, TypeOK
  <2>6. CASE StateRequestReads
    BY <2>6, FaultType DEF StateRequestReads, TypeOK, Profiles, Absent
  <2>7. CASE StateRequestInserts
    BY <2>7, NoProfilesType DEF StateRequestInserts, TypeOK
  <2> QED BY <1>4, <2>1, <2>2, <2>3, <2>4, <2>5, <2>6, <2>7 DEF Environment
<1>5. CASE UNCHANGED vars
  BY <1>5 DEF vars, TypeOK, chainVars, dbVars, superVars, replayVars, syncVars,
              liveVars, ghostVars
<1> QED BY <1>1, <1>2, <1>3, <1>4, <1>5 DEF Next

\* Every reachable state is well-typed, whatever the bounds and the faults.
THEOREM TypeCorrect == Spec => []TypeOK
BY TypeInit, TypeStep, PTL DEF Spec

------------------------------------------------------------------------------
(* The checkpoint goes back in a full replay only.                         *)

Live == {"poll", "fetch", "apply", "tail"}

\* A resumed replay starts after the checkpoint and an attempt ends where its
\* replay has come to; the live loop is never behind the checkpoint.
ProgressOk ==
  /\ plan = "resume" => ckpt < next
  /\ pc \in {"head", "scan"} => plan # "none"
  /\ pc \in {"check", "profiles", "upsert", "checkpoint", "publish"} =>
       plan # "none" /\ target = next - 1
  /\ pc = "publish" => ckpt = target
  /\ pc \in Live => plan = "none" /\ ckpt <= lastBlock
  /\ pc = "apply" => lastBlock < chunkEnd

LEMMA ProgressInit == Init => ProgressOk
BY DEF Init, ProgressOk, Live

LEMMA ProgressAttempt ==
  ASSUME TypeOK, ProgressOk, Attempt PROVE ProgressOk'
<1> USE DEF chainVars, dbVars, superVars, replayVars, syncVars, liveVars, ghostVars, Live
<1>1. CASE StartAttempt
  <2>1. plan' = "resume" => (plan = "resume" /\ next' = next) \/ next' = ckpt + 1
    BY <1>1 DEF StartAttempt
  <2>2. plan' # "none"
    BY <1>1 DEF StartAttempt
  <2> QED BY <1>1, <2>1, <2>2 DEF StartAttempt, ProgressOk, TypeOK, NoCheckpoint
<1>2. CASE TargetHead
  <2>1. target' \in Nat /\ target' >= next - 1
    <3>1. PICK h \in 0 .. tip :
            target' = IF SafeHead(h) >= next - 1 THEN SafeHead(h) ELSE next - 1
      BY <1>2 DEF TargetHead, Target
    <3>2. SafeHead(h) \in Nat
      BY SafeHeadType DEF TypeOK
    <3>3. CASE SafeHead(h) >= next - 1
      BY <3>1, <3>2, <3>3
    <3>4. CASE ~ (SafeHead(h) >= next - 1)
      BY <3>1, <3>2, <3>4 DEF TypeOK
    <3> QED BY <3>3, <3>4
  <2> QED BY <1>2, <2>1 DEF TargetHead, ProgressOk, TypeOK
<1>3. CASE ScanChunk
  <2>1. PICK e \in Block : /\ e \in next .. target /\ next' = e + 1
                           /\ pc' = IF e < target THEN "scan" ELSE "check"
    BY <1>3 DEF ScanChunk, Chunk
  <2>2. e \in Int /\ next \in Int /\ target \in Int /\ ckpt \in Int
    BY ConstantsAssumption DEF TypeOK, Block, NoCheckpoint
  <2> QED BY <1>3, <2>1, <2>2 DEF ScanChunk, ProgressOk
<1>4. CASE MembershipVerified \/ MembershipTolerated
  BY <1>4 DEF MembershipVerified, MembershipTolerated, Accept, ProgressOk
<1>5. CASE ResumeDisagrees \/ FullReplayDisagrees
  BY <1>5 DEF ResumeDisagrees, FullReplayDisagrees, NoReplay, ProgressOk
<1>6. CASE CheckFails \/ AttemptFails \/ Retry
  BY <1>6 DEF CheckFails, AttemptFails, Retry, ProgressOk
<1>7. CASE (\E a \in Addr : ReadProfile(a)) \/ ProfilesRead
  BY <1>7 DEF ReadProfile, ProfilesRead, ProgressOk
<1>8. CASE (\E a \in Addr : UpsertRow(a)) \/ PruneRows
  BY <1>8 DEF UpsertRow, PruneRows, ProgressOk
<1>9. CASE SetCheckpoint
  BY <1>9 DEF SetCheckpoint, ProgressOk, TypeOK
<1>10. CASE Publish
  BY <1>10 DEF Publish, NoReplay, ProgressOk, TypeOK
<1> QED BY <1>1, <1>2, <1>3, <1>4, <1>5, <1>6, <1>7, <1>8, <1>9, <1>10 DEF Attempt

LEMMA ProgressFollow ==
  ASSUME TypeOK, ProgressOk, Follow PROVE ProgressOk'
<1> USE DEF chainVars, dbVars, superVars, replayVars, syncVars, liveVars, ghostVars, Live
<1>1. CASE Poll \/ FetchFails \/ NoCheck
  BY <1>1 DEF Poll, FetchFails, NoCheck, ProgressOk
<1>2. CASE FetchChunk
  <2>1. chunkEnd' \in lastBlock + 1 .. target /\ lastBlock \in Nat
    BY <1>2 DEF FetchChunk, Chunk, TypeOK
  <2>2. lastBlock < chunkEnd'
    BY <2>1
  <2> QED BY <1>2, <2>2 DEF FetchChunk, ProgressOk
<1>3. CASE \E b \in Block : ApplyEvent(b)
  BY <1>3 DEF ApplyEvent, ProgressOk
<1>4. CASE SaveCheckpoint
  <2>1. ckpt' = chunkEnd \/ ckpt' = ckpt
    BY <1>4 DEF SaveCheckpoint
  <2>2. ckpt \in Int /\ lastBlock \in Nat /\ chunkEnd \in Nat
    BY DEF TypeOK, NoCheckpoint
  <2> QED BY <1>4, <2>1, <2>2 DEF SaveCheckpoint, ChunkDone, ProgressOk
<1>5. CASE CheckServed
  BY <1>5 DEF CheckServed, NoReplay, ProgressOk
<1> QED BY <1>1, <1>2, <1>3, <1>4, <1>5 DEF Follow

LEMMA ProgressStep == TypeOK /\ ProgressOk /\ [Next]_vars => ProgressOk'
<1> SUFFICES ASSUME TypeOK, ProgressOk, [Next]_vars PROVE ProgressOk'
  OBVIOUS
<1> USE DEF chainVars, dbVars, superVars, replayVars, syncVars, liveVars, ghostVars, Live
<1>1. CASE Boot
  BY <1>1 DEF Boot, ProgressOk
<1>2. CASE Environment
  BY <1>2 DEF Environment, Mine, Reorg, Crash, NoReplay, ForeignRun, FloorPasses,
              StateRequestReads, StateRequestInserts, ProgressOk
<1>3. CASE UNCHANGED vars
  BY <1>3 DEF vars, ProgressOk
<1> QED BY <1>1, <1>2, <1>3, ProgressAttempt, ProgressFollow DEF Next

\* The steps that write the checkpoint.
LEMMA CheckpointWriters ==
  ASSUME [Next]_vars, ckpt' # ckpt PROVE SetCheckpoint \/ SaveCheckpoint
<1> USE DEF dbVars
<1>1. ~ UNCHANGED vars
  BY DEF vars
<1>2. Attempt => SetCheckpoint
  BY DEF Attempt, StartAttempt, TargetHead, ScanChunk, MembershipVerified,
         MembershipTolerated, Accept, ResumeDisagrees, FullReplayDisagrees, CheckFails,
         ReadProfile, ProfilesRead, UpsertRow, PruneRows, Publish, AttemptFails, Retry
<1>3. Follow => SaveCheckpoint
  BY DEF Follow, Poll, FetchChunk, FetchFails, ApplyEvent, CheckServed, NoCheck
<1>4. ~ Environment /\ ~ Boot
  BY DEF Environment, Boot, Mine, Reorg, Crash, ForeignRun, FloorPasses,
         StateRequestReads, StateRequestInserts
<1> QED BY <1>1, <1>2, <1>3, <1>4 DEF Next

\* Only a replay from the deployment block moves the checkpoint back, with
\* endpoints as far behind and as incomplete as they may be: a resumed sync
\* takes no head below its own start, and the live loop none below last_block.
THEOREM CheckpointRewinds == Spec => OnlyFullReplayRewinds
<1>1. Spec => []ProgressOk
  BY ProgressInit, ProgressStep, TypeCorrect, PTL DEF Spec
<1>2. TypeOK /\ ProgressOk /\ [Next]_vars => [ckpt' < ckpt => plan = "full"]_vars
  <2> SUFFICES ASSUME TypeOK, ProgressOk, [Next]_vars, ckpt' < ckpt PROVE plan = "full"
    OBVIOUS
  <2>1. /\ ckpt \in Int /\ target \in Nat /\ next \in Nat /\ lastBlock \in Nat
        /\ chunkEnd \in Nat /\ plan \in {"none", "full", "resume"}
    BY DEF TypeOK, NoCheckpoint
  <2>2. CASE SetCheckpoint
    BY <2>1, <2>2 DEF SetCheckpoint, ProgressOk
  <2>3. CASE SaveCheckpoint
    <3>1. ckpt' = chunkEnd \/ ckpt' = ckpt
      BY <2>3 DEF SaveCheckpoint
    <3>2. ckpt <= lastBlock /\ lastBlock < chunkEnd
      BY <2>3 DEF SaveCheckpoint, ChunkDone, ProgressOk, Live
    <3> QED BY <2>1, <3>1, <3>2
  <2> QED BY <2>1, <2>2, <2>3, CheckpointWriters
<1> QED BY <1>1, <1>2, TypeCorrect, PTL DEF Spec, OnlyFullReplayRewinds

=============================================================================
