------------------------- MODULE ChainSyncCoverProofs -------------------------
(***************************************************************************)
(* The steps of the proof of ChainSyncCover: IInv holds initially and      *)
(* every action keeps it, one lemma per action, and the theorems that      *)
(* follow from it.  At the end, with an invariant of its own, what a       *)
(* verified sync publishes.                                                *)
(***************************************************************************)
EXTENDS ChainSyncCover

LEMMA CoverInit == Init => IInv
BY ConstantsAssumption
   DEF Settled, Init, IInv, ChainOk, HeightsOk, ReplayOk, MembersOk, FreshOk, OwnOk,
       RowsOk, LiveOk, ServedOk,
       PendingOk, ApplyOk, Live, NoProfiles, Absent, Foreign

------------------------------------------------------------------------------
(* Start and stop, the other tasks.                                        *)

LEMMA CoverBoot ==
  ASSUME TypeOK, TypeOK', IInv, Boot PROVE IInv'
<1> USE DEF chainVars, dbVars, superVars, replayVars, syncVars, liveVars, ghostVars
<1>1. ChainOk' /\ ReplayOk' /\ MembersOk' /\ RowsOk'
  BY DEF IInv, Boot, ChainOk, ReplayOk, MembersOk, RowsOk
<1>2. HeightsOk' /\ FreshOk' /\ LiveOk' /\ ServedOk' /\ PendingOk' /\ ApplyOk'
  BY DEF IInv, Boot, HeightsOk, FreshOk, LiveOk, ServedOk, PendingOk, ApplyOk, Live
<1>3. OwnOk'
  BY DEF IInv, Boot, OwnOk, Live, Here, NoProfiles, Absent, Foreign
<1> QED BY <1>1, <1>2, <1>3 DEF IInv

LEMMA CoverCrash ==
  ASSUME TypeOK, TypeOK', IInv, Crash PROVE IInv'
<1> USE DEF chainVars, dbVars, superVars, replayVars, syncVars, liveVars, ghostVars
<1>1. ChainOk' /\ ReplayOk' /\ MembersOk' /\ RowsOk'
  BY DEF IInv, Crash, NoReplay, ChainOk, ReplayOk, MembersOk, RowsOk
<1>2. HeightsOk' /\ FreshOk' /\ LiveOk' /\ ServedOk' /\ PendingOk' /\ ApplyOk'
  BY ConstantsAssumption
     DEF IInv, Crash, NoReplay, Settled, HeightsOk, FreshOk, LiveOk, ServedOk, PendingOk,
         ApplyOk, Live
<1>3. OwnOk'
  BY DEF IInv, Crash, NoSyncWork, OwnOk, Live, NoProfiles, Absent, Foreign
<1> QED BY <1>1, <1>2, <1>3 DEF IInv

LEMMA CoverForeignRun ==
  ASSUME TypeOK, TypeOK', IInv, ForeignRun PROVE IInv'
<1> USE DEF chainVars, dbVars, superVars, replayVars, syncVars, liveVars, ghostVars
<1>1. ChainOk' /\ ReplayOk' /\ MembersOk' /\ RowsOk'
  BY DEF IInv, ForeignRun, ChainOk, ReplayOk, MembersOk, RowsOk
<1>2. HeightsOk' /\ FreshOk' /\ LiveOk' /\ ServedOk' /\ PendingOk' /\ ApplyOk' /\ OwnOk'
  BY DEF IInv, ForeignRun, HeightsOk, FreshOk, LiveOk, ServedOk, PendingOk, ApplyOk, OwnOk,
         Live, TypeOK
<1> QED BY <1>1, <1>2 DEF IInv

LEMMA CoverFloorPasses ==
  ASSUME IInv, FloorPasses PROVE IInv'
BY DEF IInv, FloorPasses, ChainOk, HeightsOk, ReplayOk, MembersOk, FreshOk, OwnOk, RowsOk,
       LiveOk, ServedOk, PendingOk, ApplyOk, Live, chainVars, dbVars, replayVars, syncVars,
       liveVars, ghostVars

LEMMA CoverStateRequestReads ==
  ASSUME IInv, StateRequestReads PROVE IInv'
<1> USE DEF chainVars, dbVars, superVars, replayVars, syncVars, liveVars, ghostVars
<1>1. OwnOk'
  BY DEF IInv, StateRequestReads, OwnOk, Here, Absent, Foreign
<1> QED
  BY <1>1 DEF IInv, StateRequestReads, ChainOk, HeightsOk, ReplayOk, MembersOk, FreshOk,
              RowsOk, LiveOk, ServedOk, PendingOk, ApplyOk, Live

LEMMA CoverStateRequestInserts ==
  ASSUME TypeOK, TypeOK', IInv, StateRequestInserts PROVE IInv'
<1> USE DEF chainVars, dbVars, superVars, replayVars, syncVars, liveVars, ghostVars
<1>1. ChainOk' /\ HeightsOk' /\ ReplayOk' /\ MembersOk' /\ PendingOk'
  BY DEF IInv, StateRequestInserts, ChainOk, HeightsOk, ReplayOk, MembersOk, PendingOk, Live
<1>2. OwnOk'
  BY DEF IInv, StateRequestInserts, OwnOk, NoProfiles, Absent, Foreign, TypeOK
<1>3. suspect \subseteq suspect' /\ \A a \in Addr \ suspect' : nodes'[a] = nodes[a]
  BY DEF StateRequestInserts
<1>4. FreshOk' /\ RowsOk'
  BY <1>3 DEF IInv, StateRequestInserts, FreshOk, RowsOk
<1>5. LiveOk' /\ ServedOk' /\ ApplyOk'
  BY <1>3 DEF IInv, StateRequestInserts, LiveOk, ServedOk, ApplyOk, Live
<1> QED BY <1>1, <1>2, <1>4, <1>5 DEF IInv

------------------------------------------------------------------------------
(* The attempt, up to the verdict.                                         *)

LEMMA CoverStartAttempt ==
  ASSUME TypeOK, TypeOK', IInv, StartAttempt PROVE IInv'
<1> USE ConstantsAssumption
    DEF chainVars, dbVars, superVars, replayVars, syncVars, liveVars, ghostVars
<1>1. /\ ChainOk' /\ RowsOk' /\ LiveOk' /\ ServedOk' /\ PendingOk' /\ ApplyOk'
      /\ FreshOk' /\ OwnOk'
  BY DEF IInv, StartAttempt, ChainOk, RowsOk, LiveOk, ServedOk, PendingOk, ApplyOk, FreshOk,
         OwnOk, Live
<1>2. HeightsOk'
  <2>1. plan' # "none" /\ next' >= 1 /\ Settled(tip, next' - 1)
    <3>1. CASE plan # "none"
      BY <3>1 DEF IInv, StartAttempt, HeightsOk
    <3>2. CASE plan = "none" /\ Resumes(force)
      BY <3>2 DEF IInv, StartAttempt, HeightsOk, Resumes, NoCheckpoint, TypeOK
    <3>3. CASE plan = "none" /\ ~ Resumes(force)
      BY <3>3 DEF StartAttempt, Settled
    <3> QED BY <3>1, <3>2, <3>3
  <2> QED BY <2>1 DEF IInv, StartAttempt, HeightsOk, Live
<1>3. ReplayOk'
  BY NoMembersBefore DEF IInv, StartAttempt, ReplayOk, ChainOk, MembersAt
<1>4. MembersOk'
  <2>1. CASE plan # "none"
    BY <2>1 DEF IInv, StartAttempt, MembersOk
  <2>2. CASE plan = "none" /\ Resumes(force)
    <3>1. ckpt # NoCheckpoint /\ ckpt \in Nat /\ Settled(tip, ckpt)
      BY <2>2 DEF IInv, HeightsOk, Resumes, TypeOK
    <3>2. next' - 1 = ckpt /\ members' = {a \in Addr : Here(a)}
      BY <2>2, <3>1 DEF StartAttempt
    <3>3. ASSUME NEW a \in Addr \ suspect,
                 \A c \in ckpt + 1 .. tip : log[c] \notin {Reg(a), Rem(a)}
          PROVE  Here(a) <=> Member(log, a, ckpt)
      <4>1. Here(a) <=> Member(log, a, tip)
        BY <3>1, <3>3 DEF IInv, RowsOk, Cur, Here
      <4> QED BY <3>1, <3>3, <4>1, SettledMember DEF IInv
    <3> QED BY <2>2, <3>2, <3>3 DEF StartAttempt, MembersOk
  <2>3. CASE plan = "none" /\ ~ Resumes(force)
    <3>1. next' = FromBlock /\ members' = {} /\ log' = log
      BY <2>3 DEF StartAttempt
    <3>2. \A a \in Addr : ~ Member(log, a, FromBlock - 1)
      BY NoMembersBefore DEF IInv, MembersAt
    <3> QED BY <3>1, <3>2 DEF MembersOk
  <2> QED BY <2>1, <2>2, <2>3
<1> QED BY <1>1, <1>2, <1>3, <1>4 DEF IInv

LEMMA CoverTargetHead ==
  ASSUME TypeOK, TypeOK', IInv, TargetHead PROVE IInv'
<1> USE DEF chainVars, dbVars, superVars, replayVars, syncVars, liveVars, ghostVars
<1>1. /\ ChainOk' /\ RowsOk' /\ LiveOk' /\ ServedOk' /\ PendingOk' /\ ApplyOk'
      /\ ReplayOk' /\ MembersOk' /\ OwnOk'
  BY DEF IInv, TargetHead, ChainOk, RowsOk, LiveOk, ServedOk, PendingOk, ApplyOk,
         ReplayOk, MembersOk,
         OwnOk, Live
<1>2. FreshOk'
  BY DEF IInv, TargetHead, FreshOk
<1>3. HeightsOk'
  <2>1. PICK h \in 0 .. tip :
          target' = IF SafeHead(h) >= next - 1 THEN SafeHead(h) ELSE next - 1
    BY DEF TargetHead, Target
  <2>2. SafeHead(h) \in Nat /\ Settled(tip, SafeHead(h))
    BY SafeHeadSettled DEF TypeOK
  <2> QED BY <2>1, <2>2 DEF IInv, TargetHead, HeightsOk, Live, TypeOK
<1> QED BY <1>1, <1>2, <1>3 DEF IInv

LEMMA CoverScanChunk ==
  ASSUME HonestEndpoints, TypeOK, TypeOK', IInv, ScanChunk PROVE IInv'
<1> USE DEF chainVars, dbVars, superVars, replayVars, syncVars, liveVars, ghostVars
<1>1. PICK e \in Block :
        /\ e \in next .. target
        /\ members' = Replayed(members, next, e)
        /\ next' = e + 1
        /\ pc' = IF e < target THEN "scan" ELSE "check"
  BY DEF ScanChunk, Chunk, HonestEndpoints, Fault
<1>2. /\ ChainOk' /\ RowsOk' /\ LiveOk' /\ ServedOk' /\ PendingOk' /\ ApplyOk'
      /\ FreshOk' /\ OwnOk'
  BY <1>1 DEF IInv, ScanChunk, ChainOk, RowsOk, LiveOk, ServedOk, PendingOk, ApplyOk,
              FreshOk,
         OwnOk, Live
<1>3. Settled(tip, target) /\ plan # "none" /\ next >= 1
  BY DEF IInv, ScanChunk, HeightsOk
<1>4. HeightsOk'
  <2>1. Settled(tip, e)
    BY <1>1, <1>3, SettledDown DEF TypeOK
  <2> QED BY <1>1, <1>3, <2>1 DEF IInv, ScanChunk, HeightsOk, Live, TypeOK, Block
<1>5. /\ next \in Nat \ {0} /\ e \in Nat /\ next <= e /\ next' - 1 = e
      /\ log' = log /\ tip' = tip /\ suspect' = suspect /\ plan' = plan
  <2>1. next \in Nat /\ target \in Nat /\ e \in next .. target
    BY <1>1 DEF TypeOK
  <2> QED BY <1>1, <1>3, <2>1 DEF ScanChunk
<1>6. ReplayOk'
  <2>1. ASSUME plan = "full" PROVE members' = MembersAt(log, e)
    BY <1>1, <1>5, <2>1, ReplayedStep DEF IInv, ReplayOk
  <2> QED BY <1>5, <2>1 DEF ReplayOk
<1>7. MembersOk'
  <2>1. ASSUME NEW a \in Addr \ suspect,
               \A c \in e + 1 .. tip : log[c] \notin {Reg(a), Rem(a)}
        PROVE  a \in members' <=> Member(log, a, e)
    <3>1. ASSUME \A c \in next .. e : log[c] \notin {Reg(a), Rem(a)}
          PROVE  a \in members <=> Member(log, a, next - 1)
      <4>1. \A c \in next .. tip : c \in next .. e \/ c \in e + 1 .. tip
        BY <1>5
      <4> QED BY <1>3, <2>1, <3>1, <4>1 DEF IInv, MembersOk
    <3> QED BY <1>1, <1>5, <3>1, ReplayedMember
  <2>2. next' = e + 1 /\ next' - 1 = e
    BY <1>1, <1>5
  <2> QED BY <1>5, <2>1, <2>2 DEF MembersOk
<1> QED BY <1>2, <1>4, <1>6, <1>7 DEF IInv

\* Who was no member at a settled block is current as absent.
LEMMA AbsentCurrent ==
  ASSUME TypeOK, ChainOk, NEW a \in Addr, NEW x \in Nat, Settled(tip, x),
         a \notin MembersAt(log, x)
  PROVE  Cur(log, tip, Absent, a, x)
<1> USE ConstantsAssumption
<1>1. ASSUME \A c \in x + 1 .. tip : log[c] \notin {Reg(a), Rem(a)}
      PROVE  ~ Member(log, a, tip)
  BY <1>1, SettledMember DEF MembersAt
<1>2. ASSUME \A c \in x + 1 .. tip : log[c].addr # a
      PROVE  Profile(log, a, tip) = Absent
  <2>1. \A c \in x + 1 .. tip : log[c] \notin {Reg(a), Rem(a)}
    BY <1>2, EventAddr
  <2> QED BY <1>1, <2>1 DEF Profile
<1> QED BY <1>1, <1>2 DEF Cur

\* Either way of serving a set leaves to a reconcile what it has to read.
LEMMA CoverAccept ==
  ASSUME TypeOK, TypeOK', IInv, pc = "check", NEW v, Accept(v),
         members = MembersAt(log, target)
  PROVE  IInv'
<1> USE DEF chainVars, dbVars, superVars, replayVars, syncVars, liveVars, ghostVars
<1>1. /\ ChainOk' /\ RowsOk' /\ LiveOk' /\ ServedOk' /\ PendingOk' /\ ApplyOk'
      /\ ReplayOk' /\ MembersOk' /\ HeightsOk'
  BY DEF IInv, Accept, ChainOk, RowsOk, LiveOk, ServedOk, PendingOk, ApplyOk, ReplayOk,
         MembersOk,
         HeightsOk, Live
<1>2. OwnOk'
  BY DEF IInv, Accept, OwnOk, NoProfiles, Absent, Foreign, Live
<1>3. FreshOk'
  <2>1. Settled(tip, target)
    BY DEF IInv, HeightsOk
  <2>2. ASSUME NEW a \in Addr, a \notin members PROVE Cur(log, tip, Absent, a, target)
    BY <2>1, <2>2, AbsentCurrent DEF IInv, TypeOK
  <2>3. \A a \in Addr \ todo' : Cur(log, tip, fresh'[a], a, target)
    BY <2>2 DEF Accept, NoProfiles
  <2> QED BY <2>3 DEF IInv, Accept, FreshOk
<1> QED BY <1>1, <1>2, <1>3 DEF IInv

\* While endpoints are honest a full replay never disagrees.
LEMMA FullReplayAgrees ==
  ASSUME IInv, pc = "check", plan = "full"
  PROVE  members = MembersAt(log, target)
BY DEF IInv, ReplayOk, HeightsOk

LEMMA CoverResumeDisagrees ==
  ASSUME TypeOK, TypeOK', IInv, ResumeDisagrees PROVE IInv'
<1> USE DEF chainVars, dbVars, superVars, replayVars, syncVars, liveVars, ghostVars
<1>1. ChainOk' /\ RowsOk' /\ LiveOk' /\ ServedOk' /\ PendingOk' /\ ApplyOk'
  BY DEF IInv, ResumeDisagrees, ChainOk, RowsOk, LiveOk, ServedOk, PendingOk, ApplyOk, Live
<1>2. ReplayOk' /\ MembersOk' /\ HeightsOk' /\ FreshOk'
  BY DEF IInv, ResumeDisagrees, NoReplay, ReplayOk, MembersOk, HeightsOk, FreshOk, Live
<1>3. OwnOk'
  BY DEF IInv, ResumeDisagrees, NoSyncWork, OwnOk, NoProfiles, Absent, Foreign, Live
<1> QED BY <1>1, <1>2, <1>3 DEF IInv

LEMMA CoverCheckFails ==
  ASSUME TypeOK, TypeOK', IInv, CheckFails PROVE IInv'
<1> USE DEF chainVars, dbVars, superVars, replayVars, syncVars, liveVars, ghostVars
<1>1. ChainOk' /\ RowsOk' /\ LiveOk' /\ ServedOk' /\ PendingOk' /\ ApplyOk'
  BY DEF IInv, CheckFails, ChainOk, RowsOk, LiveOk, ServedOk, PendingOk, ApplyOk, Live
<1>2. ReplayOk' /\ MembersOk' /\ HeightsOk' /\ FreshOk' /\ OwnOk'
  BY DEF IInv, CheckFails, ReplayOk, MembersOk, HeightsOk, FreshOk, OwnOk, Live
<1> QED BY <1>1, <1>2 DEF IInv

LEMMA CoverAttemptFails ==
  ASSUME TypeOK, TypeOK', IInv, AttemptFails PROVE IInv'
<1> USE DEF chainVars, dbVars, superVars, replayVars, syncVars, liveVars, ghostVars
<1>1. ChainOk' /\ RowsOk' /\ LiveOk' /\ ServedOk' /\ PendingOk' /\ ApplyOk'
  BY DEF IInv, AttemptFails, ChainOk, RowsOk, LiveOk, ServedOk, PendingOk, ApplyOk, Live
<1>2. ReplayOk' /\ MembersOk' /\ HeightsOk' /\ FreshOk'
  BY DEF IInv, AttemptFails, ReplayOk, MembersOk, HeightsOk, FreshOk, Live
<1>3. OwnOk'
  BY DEF IInv, AttemptFails, NoSyncWork, OwnOk, NoProfiles, Absent, Foreign, Live
<1> QED BY <1>1, <1>2, <1>3 DEF IInv

LEMMA CoverRetry ==
  ASSUME TypeOK, TypeOK', IInv, Retry PROVE IInv'
<1> USE DEF chainVars, dbVars, superVars, replayVars, syncVars, liveVars, ghostVars
<1>1. ChainOk' /\ RowsOk' /\ LiveOk' /\ ServedOk' /\ PendingOk' /\ ApplyOk'
  BY DEF IInv, Retry, ChainOk, RowsOk, LiveOk, ServedOk, PendingOk, ApplyOk, Live
<1>2. ReplayOk' /\ MembersOk' /\ HeightsOk' /\ FreshOk' /\ OwnOk'
  BY DEF IInv, Retry, ReplayOk, MembersOk, HeightsOk, FreshOk, OwnOk, Live
<1> QED BY <1>1, <1>2 DEF IInv

------------------------------------------------------------------------------
(* The reconcile.                                                          *)

\* What Sees allows without a fault, and with one, an honest endpoint has.
LEMMA SeesHonest ==
  ASSUME TypeOK, NEW h \in 0 .. tip, Sees(h) PROVE h + Lag >= tip
BY ConstantsAssumption DEF Sees, TypeOK

LEMMA CoverReadProfile ==
  ASSUME HonestEndpoints, TypeOK, TypeOK', IInv, NEW a \in Addr, ReadProfile(a)
  PROVE  IInv'
<1> USE DEF chainVars, dbVars, superVars, replayVars, syncVars, liveVars, ghostVars
<1>1. /\ ChainOk' /\ RowsOk' /\ LiveOk' /\ ServedOk' /\ PendingOk' /\ ApplyOk'
      /\ ReplayOk' /\ MembersOk' /\ HeightsOk'
  BY DEF IInv, ReadProfile, ChainOk, RowsOk, LiveOk, ServedOk, PendingOk, ApplyOk,
         ReplayOk, MembersOk,
         HeightsOk, Live
<1>2. PICK h \in 0 .. tip : Sees(h) /\ fresh' = [fresh EXCEPT ![a] = Profile(log, a, h)]
  BY DEF ReadProfile
<1>3. Profile(log, a, h) # Foreign
  BY ProfilePresent DEF TypeOK
<1>4. Cur(log, tip, Profile(log, a, h), a, target)
  BY <1>2, SeesHonest, ReadCurrent DEF HonestEndpoints, IInv, HeightsOk, ReadProfile, TypeOK
<1>5. OwnOk'
  BY <1>2, <1>3 DEF IInv, ReadProfile, OwnOk, Live, TypeOK
<1>6. FreshOk'
  <2>1. ASSUME NEW c \in Addr \ (todo' \cup undone) PROVE Cur(log, tip, fresh'[c], c, target)
    BY <1>2, <1>4, <2>1 DEF IInv, FreshOk, ReadProfile, TypeOK
  <2> QED BY <2>1 DEF IInv, ReadProfile, FreshOk
<1> QED BY <1>1, <1>5, <1>6 DEF IInv

LEMMA CoverProfilesRead ==
  ASSUME TypeOK, TypeOK', IInv, ProfilesRead PROVE IInv'
<1> USE DEF chainVars, dbVars, superVars, replayVars, syncVars, liveVars, ghostVars
<1>1. /\ ChainOk' /\ RowsOk' /\ LiveOk' /\ ServedOk' /\ PendingOk' /\ ApplyOk'
      /\ ReplayOk' /\ MembersOk' /\ HeightsOk'
  BY DEF IInv, ProfilesRead, ChainOk, RowsOk, LiveOk, ServedOk, PendingOk, ApplyOk,
         ReplayOk, MembersOk,
         HeightsOk, Live
<1>2. OwnOk' /\ FreshOk'
  BY DEF IInv, ProfilesRead, OwnOk, FreshOk, Live
<1> QED BY <1>1, <1>2 DEF IInv

\* Rows that a reconcile writes are as current as the checkpoint asks for.
LEMMA RewrittenRowsOk ==
  ASSUME TypeOK, TypeOK', IInv, pc = "upsert", NoteRewrittenRows,
         UNCHANGED <<ckpt, log, tip>>,
         \A a \in Addr : row'[a] = row[a] \/ row'[a] = fresh[a]
  PROVE  RowsOk'
<1> SUFFICES ASSUME ckpt # NoCheckpoint, NEW a \in Addr \ suspect'
             PROVE  Cur(log, tip, row'[a], a, ckpt)
  BY DEF RowsOk
<1>1. a \notin suspect /\ a \notin undone
  BY DEF NoteRewrittenRows, IInv, FreshOk
<1>2. CASE row'[a] = row[a]
  BY <1>1, <1>2 DEF IInv, RowsOk
<1>3. CASE row'[a] # row[a]
  <2>1. ckpt <= target
    BY <1>3 DEF NoteRewrittenRows
  <2>2. row'[a] = fresh[a] /\ Cur(log, tip, fresh[a], a, target)
    BY <1>1, <1>3 DEF IInv, FreshOk
  <2> QED BY <2>1, <2>2, CurLater DEF TypeOK, NoCheckpoint
<1> QED BY <1>2, <1>3

LEMMA CoverUpsertRow ==
  ASSUME TypeOK, TypeOK', IInv, NEW a \in Addr, UpsertRow(a) PROVE IInv'
<1> USE DEF chainVars, dbVars, superVars, replayVars, syncVars, liveVars, ghostVars
<1>0. suspect \subseteq suspect'
  BY DEF UpsertRow, NoteRewrittenRows
<1>1. /\ ChainOk' /\ LiveOk' /\ ServedOk' /\ PendingOk' /\ ApplyOk' /\ ReplayOk'
      /\ MembersOk' /\ HeightsOk'
  BY <1>0 DEF IInv, UpsertRow, ChainOk, LiveOk, ServedOk, PendingOk, ApplyOk, ReplayOk,
              MembersOk, HeightsOk, Live
<1>2. OwnOk'
  BY DEF IInv, UpsertRow, OwnOk, Live
<1>3. RowsOk'
  BY RewrittenRowsOk DEF UpsertRow, TypeOK
<1>4. \A c \in Addr \ todo' : fresh[c] # Absent => row'[c] = fresh[c]
  BY DEF IInv, FreshOk, UpsertRow, TypeOK
<1>5. FreshOk'
  BY <1>0, <1>4 DEF IInv, UpsertRow, FreshOk
<1> QED BY <1>1, <1>2, <1>3, <1>5 DEF IInv

LEMMA CoverPruneRows ==
  ASSUME TypeOK, TypeOK', IInv, PruneRows PROVE IInv'
<1> USE DEF chainVars, dbVars, superVars, replayVars, syncVars, liveVars, ghostVars
<1>0. suspect \subseteq suspect'
  BY DEF PruneRows, NoteRewrittenRows
<1>1. /\ ChainOk' /\ LiveOk' /\ ServedOk' /\ PendingOk' /\ ApplyOk' /\ ReplayOk'
      /\ MembersOk' /\ HeightsOk'
  BY <1>0 DEF IInv, PruneRows, ChainOk, LiveOk, ServedOk, PendingOk, ApplyOk, ReplayOk,
              MembersOk, HeightsOk, Live
<1>2. OwnOk'
  BY DEF IInv, PruneRows, OwnOk, Live
<1>3. ASSUME NEW a \in Addr PROVE row'[a] = fresh[a]
  <2>1. row'[a] = IF fresh[a] = Absent THEN Absent ELSE row[a]
    BY DEF PruneRows, Pruned
  <2> QED BY <2>1 DEF IInv, FreshOk, PruneRows
<1>4. row' = fresh
  BY <1>3 DEF TypeOK
<1>5. RowsOk'
  BY <1>3, RewrittenRowsOk DEF PruneRows
<1>6. FreshOk'
  BY <1>4 DEF IInv, PruneRows, NoteRewrittenRows, FreshOk
<1> QED BY <1>1, <1>2, <1>5, <1>6 DEF IInv

LEMMA CoverSetCheckpoint ==
  ASSUME TypeOK, TypeOK', IInv, SetCheckpoint PROVE IInv'
<1> USE DEF chainVars, dbVars, superVars, replayVars, syncVars, liveVars, ghostVars
<1>1. /\ ChainOk' /\ LiveOk' /\ ServedOk' /\ PendingOk' /\ ApplyOk' /\ ReplayOk'
      /\ MembersOk' /\ OwnOk'
  BY DEF IInv, SetCheckpoint, ChainOk, LiveOk, ServedOk, PendingOk, ApplyOk, ReplayOk,
         MembersOk, OwnOk, Live
<1>2. HeightsOk' /\ FreshOk'
  BY DEF IInv, SetCheckpoint, HeightsOk, FreshOk, Live
<1>3. RowsOk'
  BY DEF IInv, SetCheckpoint, RowsOk, FreshOk
<1> QED BY <1>1, <1>2, <1>3 DEF IInv

LEMMA CoverPublish ==
  ASSUME TypeOK, TypeOK', IInv, Publish PROVE IInv'
<1> USE DEF chainVars, dbVars, superVars, replayVars, syncVars, liveVars, ghostVars
<1>1. /\ row = fresh /\ ckpt = target /\ Settled(tip, target)
      /\ \A a \in Addr \ undone : Cur(log, tip, fresh[a], a, target)
  BY DEF IInv, FreshOk, HeightsOk, Publish
<1>2. ChainOk' /\ PendingOk' /\ ApplyOk' /\ ReplayOk' /\ MembersOk'
  BY DEF IInv, Publish, NoReplay, ChainOk, PendingOk, ApplyOk, ReplayOk, MembersOk
<1>3. OwnOk'
  BY <1>1 DEF IInv, Publish, NoSyncWork, OwnOk, NoProfiles, Absent, Foreign, TypeOK
<1>4. HeightsOk'
  BY <1>1 DEF IInv, Publish, NoReplay, HeightsOk, Live, NoCheckpoint, TypeOK
<1>5. RowsOk' /\ LiveOk' /\ ServedOk'
  BY <1>1 DEF Publish, RowsOk, LiveOk, ServedOk
<1>6. FreshOk'
  BY DEF Publish, FreshOk
<1> QED BY <1>2, <1>3, <1>4, <1>5, <1>6 DEF IInv

------------------------------------------------------------------------------
(* The live loop.                                                          *)

LEMMA CoverPoll ==
  ASSUME TypeOK, TypeOK', IInv, Poll PROVE IInv'
<1> USE DEF chainVars, dbVars, superVars, replayVars, syncVars, liveVars, ghostVars
<1>1. /\ ChainOk' /\ RowsOk' /\ LiveOk' /\ ServedOk' /\ PendingOk' /\ ApplyOk'
      /\ ReplayOk' /\ MembersOk'
      /\ OwnOk' /\ FreshOk'
  BY DEF IInv, Poll, ChainOk, RowsOk, LiveOk, ServedOk, PendingOk, ApplyOk, ReplayOk,
         MembersOk, OwnOk,
         FreshOk, Live
<1>2. HeightsOk'
  <2>1. PICK h \in 0 .. tip : target' = SafeHead(h)
    BY DEF Poll
  <2>2. Settled(tip, target')
    BY <2>1, SafeHeadSettled DEF TypeOK
  <2> QED BY <2>2 DEF IInv, Poll, HeightsOk, Live
<1> QED BY <1>1, <1>2 DEF IInv

LEMMA CoverFetchChunk ==
  ASSUME HonestEndpoints, TypeOK, TypeOK', IInv, FetchChunk PROVE IInv'
<1> USE DEF chainVars, dbVars, superVars, replayVars, syncVars, liveVars, ghostVars
<1>1. PICK e \in Block :
        /\ e \in lastBlock + 1 .. target
        /\ pending' = {b \in lastBlock + 1 .. e : log[b].kind # "none"}
        /\ chunkEnd' = e
  BY DEF FetchChunk, Chunk, HonestEndpoints, Fault
<1>2. /\ ChainOk' /\ RowsOk' /\ LiveOk' /\ ServedOk' /\ ReplayOk' /\ MembersOk'
      /\ OwnOk' /\ FreshOk'
  BY DEF IInv, FetchChunk, ChainOk, RowsOk, LiveOk, ServedOk, ReplayOk, MembersOk, OwnOk,
         FreshOk, Live
<1>3. HeightsOk'
  <2>1. Settled(tip, target)
    BY DEF IInv, HeightsOk, FetchChunk
  <2>2. Settled(tip, e) /\ lastBlock < e
    BY <1>1, <2>1, SettledDown DEF TypeOK
  <2> QED BY <1>1, <2>1, <2>2 DEF IInv, FetchChunk, HeightsOk, Live
<1>4. \A b \in Block : log[b].kind # "none" <=> log[b] # Empty
  BY DEF TypeOK, Event, Empty
<1>5. PendingOk'
  BY <1>1, <1>4 DEF FetchChunk, PendingOk, TypeOK, Block
<1>6. ASSUME NEW p, NEW a \in Addr, Cur(log, tip, p, a, lastBlock)
      PROVE  CurAfter(log, tip, pending', p, a, e)
  <2>1. tip \in 0 .. MaxBlock /\ lastBlock \in Nat /\ e \in Nat /\ MaxBlock \in Nat
    BY ConstantsAssumption DEF TypeOK, Block
  <2>2. Empty \notin {Reg(a), Rem(a)} /\ Empty.addr # a
    BY ConstantsAssumption DEF Empty, Reg, Rem
  <2>3. ASSUME NEW c \in lastBlock + 1 .. tip
        PROVE  c \in pending' \/ c \in e + 1 .. tip \/ log[c] = Empty
    <3>1. c \in Block
      BY <2>1 DEF Block
    <3>2. c \in lastBlock + 1 .. e \/ c \in e + 1 .. tip
      BY <2>1
    <3> QED BY <1>1, <1>4, <3>1, <3>2, Zenon
  <2>4. ASSUME \A b \in pending' : log[b] \notin {Reg(a), Rem(a)},
               \A c \in e + 1 .. tip : log[c] \notin {Reg(a), Rem(a)}
        PROVE  \A c \in lastBlock + 1 .. tip : log[c] \notin {Reg(a), Rem(a)}
    BY <2>2, <2>3, <2>4, Zenon
  <2>5. ASSUME \A b \in pending' : log[b].addr # a, \A c \in e + 1 .. tip : log[c].addr # a
        PROVE  \A c \in lastBlock + 1 .. tip : log[c].addr # a
    BY <2>2, <2>3, <2>5, Zenon
  <2> QED BY <1>6, <2>4, <2>5 DEF Cur, CurAfter
<1>7. ApplyOk'
  BY <1>1, <1>6 DEF IInv, FetchChunk, LiveOk, ServedOk, ApplyOk, Live
<1> QED BY <1>2, <1>3, <1>5, <1>7 DEF IInv

LEMMA CoverFetchFails ==
  ASSUME TypeOK, TypeOK', IInv, FetchFails PROVE IInv'
<1> USE DEF chainVars, dbVars, superVars, replayVars, syncVars, liveVars, ghostVars
<1>1. /\ ChainOk' /\ RowsOk' /\ LiveOk' /\ ServedOk' /\ PendingOk' /\ ApplyOk'
      /\ ReplayOk' /\ MembersOk'
      /\ OwnOk' /\ FreshOk' /\ HeightsOk'
  BY DEF IInv, FetchFails, ChainOk, RowsOk, LiveOk, ServedOk, PendingOk, ApplyOk,
         ReplayOk, MembersOk,
         OwnOk, FreshOk, HeightsOk, Live
<1> QED BY <1>1 DEF IInv

LEMMA CoverSaveCheckpoint ==
  ASSUME TypeOK, TypeOK', IInv, SaveCheckpoint PROVE IInv'
<1> USE DEF chainVars, dbVars, superVars, replayVars, syncVars, liveVars, ghostVars
<1>1. \A a \in Addr \ suspect : /\ Cur(log, tip, row[a], a, chunkEnd)
                                /\ Cur(log, tip, nodes[a], a, chunkEnd)
  BY CurAfterNone DEF IInv, ApplyOk, SaveCheckpoint, ChunkDone
<1>2. /\ Settled(tip, chunkEnd) /\ lastBlock < chunkEnd /\ ckpt <= lastBlock
      /\ ckpt # NoCheckpoint
  BY DEF IInv, HeightsOk, SaveCheckpoint, ChunkDone, Live
<1>3. ChainOk' /\ PendingOk' /\ ApplyOk' /\ ReplayOk' /\ MembersOk' /\ OwnOk' /\ FreshOk'
  BY DEF IInv, SaveCheckpoint, ChunkDone, ChainOk, PendingOk, ApplyOk, ReplayOk,
         MembersOk, OwnOk,
         FreshOk, Live
<1>4. LiveOk' /\ ServedOk' /\ RowsOk'
  BY <1>1 DEF IInv, SaveCheckpoint, LiveOk, ServedOk, RowsOk
<1>5. HeightsOk'
  BY <1>2 DEF IInv, SaveCheckpoint, ChunkDone, HeightsOk, Live, NoCheckpoint, TypeOK
<1> QED BY <1>3, <1>4, <1>5 DEF IInv

LEMMA CoverCheckServed ==
  ASSUME TypeOK, TypeOK', IInv, CheckServed PROVE IInv'
<1> USE DEF chainVars, dbVars, superVars, replayVars, syncVars, liveVars, ghostVars
<1>1. pc' \in {"poll", "plan"} /\ (plan' = "none" \/ UNCHANGED <<plan, next, members>>)
  BY DEF CheckServed, NoReplay
<1>2. /\ ChainOk' /\ RowsOk' /\ LiveOk' /\ ServedOk' /\ PendingOk' /\ ApplyOk'
      /\ OwnOk' /\ FreshOk'
  BY <1>1 DEF IInv, CheckServed, ChainOk, RowsOk, LiveOk, ServedOk, PendingOk, ApplyOk,
              OwnOk,
              FreshOk, Live
<1>3. ReplayOk' /\ MembersOk' /\ HeightsOk'
  BY <1>1 DEF IInv, CheckServed, ReplayOk, MembersOk, HeightsOk, Live
<1> QED BY <1>2, <1>3 DEF IInv

LEMMA CoverNoCheck ==
  ASSUME TypeOK, TypeOK', IInv, NoCheck PROVE IInv'
<1> USE DEF chainVars, dbVars, superVars, replayVars, syncVars, liveVars, ghostVars
<1>1. /\ ChainOk' /\ RowsOk' /\ LiveOk' /\ ServedOk' /\ PendingOk' /\ ApplyOk'
      /\ ReplayOk' /\ MembersOk'
      /\ OwnOk' /\ FreshOk' /\ HeightsOk'
  BY DEF IInv, NoCheck, ChainOk, RowsOk, LiveOk, ServedOk, PendingOk, ApplyOk, ReplayOk,
         MembersOk,
         OwnOk, FreshOk, HeightsOk, Live
<1> QED BY <1>1 DEF IInv

\* Applying the event at b settles what it says about other addresses: nothing.
LEMMA AppliedOther ==
  ASSUME NEW b, NEW a, NEW p, log[b].addr # a,
         CurAfter(log, tip, pending, p, a, chunkEnd)
  PROVE  CurAfter(log, tip, pending \ {b}, p, a, chunkEnd)
BY EventAddr DEF CurAfter

\* What a refresh reads is current, so no pending event is needed for it.
LEMMA AppliedRead ==
  ASSUME NEW S, NEW a, NEW p, Cur(log, tip, p, a, chunkEnd)
  PROVE  CurAfter(log, tip, S, p, a, chunkEnd)
BY DEF Cur, CurAfter

\* A refresh that finds no member may leave the old profile.
LEMMA AppliedAbsent ==
  ASSUME TypeOK, PendingOk, pc = "apply", NEW b \in pending, NEW a \in Addr, NEW p,
         p # Foreign, log[b].addr = a, log[b] # Rem(a), b <= tip,
         CurAfter(log, tip, pending, p, a, chunkEnd),
         Cur(log, tip, Absent, a, chunkEnd)
  PROVE  CurAfter(log, tip, pending \ {b}, p, a, chunkEnd)
<1>1. /\ tip \in 0 .. MaxBlock /\ MaxBlock \in Nat /\ chunkEnd \in Nat
      /\ b \in Block /\ b \in 1 .. MaxBlock
  BY ConstantsAssumption DEF TypeOK, Block
<1>2. ASSUME \A c \in pending \ {b} : log[c] \notin {Reg(a), Rem(a)},
             \A c \in chunkEnd + 1 .. tip : log[c] \notin {Reg(a), Rem(a)}
      PROVE  ~ Member(log, a, tip) /\ p = Absent
  <2>1. ~ Member(log, a, tip)
    BY <1>2 DEF Cur
  <2>2. log[b] # Reg(a)
    <3> SUFFICES ASSUME log[b] = Reg(a) PROVE FALSE
      OBVIOUS
    <3>1. ASSUME NEW d \in b + 1 .. tip PROVE log[d] # Rem(a)
      <4>1. d \in Block /\ b < d /\ d # b /\ (d <= chunkEnd \/ d \in chunkEnd + 1 .. tip)
        BY <1>1 DEF Block
      <4>2. CASE d <= chunkEnd /\ log[d] # Empty
        <5>1. d \in pending \ {b}
          BY <4>1, <4>2, Zenon DEF PendingOk
        <5> QED BY <1>2, <5>1
      <4>3. CASE log[d] = Empty
        BY <4>3, ConstantsAssumption DEF Empty, Rem
      <4> QED BY <1>2, <4>1, <4>2, <4>3
    <3> QED BY <1>1, <2>1, <3>1 DEF Member
  <2>3. \A c \in pending : log[c] \notin {Reg(a), Rem(a)}
    BY <1>2, <2>2
  <2>4. p \notin {Absent, Foreign} <=> Member(log, a, tip)
    BY <1>2, <2>3 DEF CurAfter
  <2> QED BY <2>1, <2>4
<1>3. Absent = Profile(log, a, tip) <=> ~ Member(log, a, tip)
  BY <1>1, ProfilePresent
<1>4. ASSUME \A c \in pending \ {b} : log[c].addr # a,
             \A c \in chunkEnd + 1 .. tip : log[c].addr # a
      PROVE  p = Profile(log, a, tip)
  <2>1. /\ \A c \in pending \ {b} : log[c] \notin {Reg(a), Rem(a)}
        /\ \A c \in chunkEnd + 1 .. tip : log[c] \notin {Reg(a), Rem(a)}
    BY <1>4, EventAddr
  <2> QED BY <1>2, <1>3, <2>1, Zenon
<1> QED BY <1>2, <1>4, Zenon DEF CurAfter

\* Once the removal at b is applied, a is absent until it registers again.
LEMMA AppliedRemoval ==
  ASSUME TypeOK, PendingOk, pc = "apply", NEW b \in pending, NEW a \in Addr,
         log[b] = Rem(a), b <= tip
  PROVE  CurAfter(log, tip, pending \ {b}, Absent, a, chunkEnd)
<1>1. /\ tip \in 0 .. MaxBlock /\ MaxBlock \in Nat /\ chunkEnd \in Nat
      /\ b \in Block /\ b \in 1 .. MaxBlock
  BY ConstantsAssumption DEF TypeOK, Block
<1>2. ASSUME \A c \in pending \ {b} : log[c] \notin {Reg(a), Rem(a)},
             \A c \in chunkEnd + 1 .. tip : log[c] \notin {Reg(a), Rem(a)}
      PROVE  ~ Member(log, a, tip)
  <2> SUFFICES ASSUME Member(log, a, tip) PROVE FALSE
    OBVIOUS
  <2>1. PICK c \in 1 .. tip : log[c] = Reg(a) /\ \A d \in c + 1 .. tip : log[d] # Rem(a)
    BY DEF Member
  <2>2. log[c] # Empty /\ log[c] # log[b]
    BY <2>1, ConstantsAssumption DEF Empty, Reg, Rem
  <2>3. c > b /\ c \in Block /\ (c <= chunkEnd \/ c \in chunkEnd + 1 .. tip)
    BY <1>1, <2>1, <2>2 DEF Block
  <2>4. CASE c <= chunkEnd
    <3>1. c \in pending
      BY <2>2, <2>3, <2>4 DEF PendingOk
    <3> QED BY <1>2, <2>1, <2>2, <3>1
  <2> QED BY <1>2, <2>1, <2>3, <2>4
<1>3. Absent = Profile(log, a, tip) <=> ~ Member(log, a, tip)
  BY <1>1, ProfilePresent
<1>4. ASSUME \A c \in pending \ {b} : log[c].addr # a,
             \A c \in chunkEnd + 1 .. tip : log[c].addr # a
      PROVE  Absent = Profile(log, a, tip)
  <2>1. /\ \A c \in pending \ {b} : log[c] \notin {Reg(a), Rem(a)}
        /\ \A c \in chunkEnd + 1 .. tip : log[c] \notin {Reg(a), Rem(a)}
    BY <1>4, EventAddr
  <2> QED BY <1>2, <1>3, <2>1, Zenon
<1> QED BY <1>2, <1>4, Zenon DEF CurAfter

LEMMA CoverApplyEvent ==
  ASSUME HonestEndpoints, TypeOK, TypeOK', IInv, NEW b \in Block, ApplyEvent(b)
  PROVE  IInv'
<1> DEFINE a == log[b].addr
<1> USE DEF chainVars, dbVars, superVars, replayVars, syncVars, liveVars, ghostVars
<1>1. /\ pc = "apply" /\ pc' = "apply" /\ b \in pending /\ pending' = pending \ {b}
      /\ log' = log /\ tip' = tip /\ ckpt' = ckpt /\ chunkEnd' = chunkEnd
      /\ lastBlock' = lastBlock /\ undone' = undone
      /\ \/ log[b].kind \in {"reg", "prof"} /\ RefreshNode(a)
         \/ log[b].kind = "rem" /\ RemoveNode(a)
         \/ EventLost(b, a)
  BY DEF ApplyEvent
<1>2. /\ lastBlock < b /\ b <= chunkEnd /\ log[b] # Empty
      /\ \A c \in Block : b < c /\ c <= chunkEnd /\ log[c] # Empty => c \in pending
  BY <1>1 DEF IInv, PendingOk
<1>3. log[b] \in Event /\ a \in Addr /\ tip \in Nat /\ chunkEnd \in Nat /\ ckpt \in Int
  BY <1>2, ConstantsAssumption DEF TypeOK, Event, NoCheckpoint
<1>4. b <= tip
  BY <1>2, <1>3 DEF IInv, ChainOk, Block
<1>5. /\ Settled(tip, chunkEnd) /\ ckpt \in Nat /\ Settled(tip, ckpt) /\ ckpt < b
  BY <1>1, <1>2, <1>3 DEF IInv, HeightsOk, Live, TypeOK, NoCheckpoint, Block
<1>6. /\ suspect \subseteq suspect'
      /\ row \in [Addr -> Profiles] /\ nodes \in [Addr -> Profiles]
      /\ \A c \in Addr : row[c] # Foreign /\ nodes[c] # Foreign
  BY <1>1 DEF RefreshNode, RemoveNode, EventLost, TypeOK, IInv, OwnOk, Live
<1>7. \A c \in Addr \ {a} : row'[c] = row[c] /\ nodes'[c] = nodes[c]
  BY <1>1, <1>6 DEF RefreshNode, RemoveNode, EventLost
<1>8. \A h \in Nat : Profile(log, a, h) # Foreign
  BY ProfilePresent
<1>9. row'[a] # Foreign /\ nodes'[a] # Foreign
  BY <1>1, <1>3, <1>6, <1>8 DEF RefreshNode, RemoveNode, EventLost, Absent, Foreign
<1>10. ASSUME a \notin suspect'
       PROVE  /\ CurAfter(log, tip, pending', row'[a], a, chunkEnd)
              /\ CurAfter(log, tip, pending', nodes'[a], a, chunkEnd)
              /\ Cur(log, tip, row'[a], a, ckpt)
  <2>1. /\ CurAfter(log, tip, pending, row[a], a, chunkEnd)
        /\ CurAfter(log, tip, pending, nodes[a], a, chunkEnd)
        /\ Cur(log, tip, row[a], a, ckpt)
    BY <1>1, <1>3, <1>5, <1>6, <1>10 DEF IInv, ApplyOk, RowsOk, NoCheckpoint
  <2>2. CASE log[b].kind \in {"reg", "prof"} /\ RefreshNode(a)
    <3>1. PICK h \in 0 .. tip :
            /\ Sees(h)
            /\ row' = IF Profile(log, a, h) = Absent THEN row
                      ELSE [row EXCEPT ![a] = Profile(log, a, h)]
            /\ nodes' = IF Profile(log, a, h) = Absent THEN nodes
                        ELSE [nodes EXCEPT ![a] = Profile(log, a, h)]
      BY <2>2 DEF RefreshNode
    <3>2. h + Lag >= tip
      BY <3>1, SeesType
    <3>3. /\ Cur(log, tip, Profile(log, a, h), a, chunkEnd)
          /\ Cur(log, tip, Profile(log, a, h), a, ckpt)
      BY <1>3, <1>5, <3>2, ReadCurrent DEF HonestEndpoints, IInv
    <3>4. CASE Profile(log, a, h) = Absent
      <4>1. log[b] # Rem(a)
        BY <2>2 DEF Rem
      <4>2. row' = row /\ nodes' = nodes
        BY <3>1, <3>4
      <4>3. Cur(log, tip, Absent, a, chunkEnd)
        BY <3>3, <3>4
      <4>4. PendingOk
        BY DEF IInv
      <4>5. row[a] # Foreign /\ nodes[a] # Foreign
        BY <1>3, <1>6
      <4>6. /\ CurAfter(log, tip, pending \ {b}, row[a], a, chunkEnd)
            /\ CurAfter(log, tip, pending \ {b}, nodes[a], a, chunkEnd)
        BY <1>1, <1>3, <1>4, <2>1, <4>1, <4>3, <4>4, <4>5, AppliedAbsent
      <4> QED BY <1>1, <2>1, <4>2, <4>6
    <3>5. CASE Profile(log, a, h) # Absent
      <4>1. row'[a] = Profile(log, a, h) /\ nodes'[a] = Profile(log, a, h)
        BY <1>3, <1>6, <3>1, <3>5
      <4> QED BY <3>3, <4>1, AppliedRead
    <3> QED BY <3>4, <3>5
  <2>3. CASE log[b].kind = "rem" /\ RemoveNode(a)
    <3>1. log[b] = Rem(a)
      BY <1>3, <2>3 DEF Event, Rem
    <3>2. row'[a] = Absent /\ nodes'[a] = Absent
      BY <1>3, <1>6, <2>3 DEF RemoveNode
    <3>3. CurAfter(log, tip, pending \ {b}, Absent, a, chunkEnd)
      BY <1>1, <1>3, <1>4, <3>1, AppliedRemoval DEF IInv
    <3>4. b \in ckpt + 1 .. tip
      BY <1>4, <1>5, <1>3 DEF Block
    <3>5. Cur(log, tip, Absent, a, ckpt)
      BY <3>1, <3>4 DEF Cur
    <3> QED BY <1>1, <3>2, <3>3, <3>5
  <2>4. CASE EventLost(b, a)
    BY <1>10, <2>4 DEF EventLost
  <2> QED BY <1>1, <2>2, <2>3, <2>4
<1>11. ASSUME NEW c \in Addr \ suspect'
       PROVE  /\ CurAfter(log, tip, pending', row'[c], c, chunkEnd)
              /\ CurAfter(log, tip, pending', nodes'[c], c, chunkEnd)
              /\ Cur(log, tip, row'[c], c, ckpt)
  <2>1. CASE c = a
    BY <1>10, <2>1
  <2>2. CASE c # a
    <3>1. /\ CurAfter(log, tip, pending, row[c], c, chunkEnd)
          /\ CurAfter(log, tip, pending, nodes[c], c, chunkEnd)
          /\ Cur(log, tip, row[c], c, ckpt)
      BY <1>1, <1>5, <1>6, <1>11 DEF IInv, ApplyOk, RowsOk, NoCheckpoint
    <3>2. row'[c] = row[c] /\ nodes'[c] = nodes[c]
      BY <1>7, <2>2
    <3> QED BY <1>1, <2>2, <3>1, <3>2, AppliedOther
  <2> QED BY <2>1, <2>2
<1>12. ApplyOk' /\ RowsOk' /\ LiveOk' /\ ServedOk'
  BY <1>1, <1>11 DEF ApplyOk, RowsOk, LiveOk, ServedOk
<1>13. PendingOk'
  <2>1. \A c \in pending : b <= c
    BY DEF ApplyEvent
  <2>2. ASSUME NEW d \in pending'
        PROVE  /\ lastBlock < d /\ d <= chunkEnd /\ log[d] # Empty
               /\ \A c \in Block : d < c /\ c <= chunkEnd /\ log[c] # Empty => c \in pending \ {b}
    <3>1. d \in pending /\ b <= d /\ d \in Int /\ b \in Int
      BY <1>1, <2>1, ConstantsAssumption DEF TypeOK, Block
    <3>2. \A c \in Block : d < c => c # b
      BY <3>1 DEF Block
    <3> QED BY <1>1, <3>1, <3>2 DEF IInv, PendingOk
  <2> QED BY <1>1, <2>2, Zenon DEF PendingOk
<1>14. OwnOk'
  BY <1>3, <1>6, <1>7, <1>9 DEF IInv, OwnOk, ApplyEvent
<1>15. ChainOk' /\ ReplayOk' /\ MembersOk' /\ HeightsOk' /\ FreshOk'
  BY <1>1, <1>6 DEF IInv, ApplyEvent, ChainOk, ReplayOk, MembersOk, HeightsOk, FreshOk, Live
<1> QED BY <1>12, <1>13, <1>14, <1>15 DEF IInv

------------------------------------------------------------------------------
(* Steps of the chain, and all steps together.                             *)

\* Whatever the program holds stays as good as it was while the chain moves.
LEMMA CoverChain ==
  ASSUME TypeOK, TypeOK', IInv, ChainOk', ChainMoved,
         UNCHANGED <<dbVars, pc, nodes, verified, superVars, replayVars, syncVars, liveVars,
                     snapshot>>
  PROVE  IInv'
<1> USE DEF chainVars, dbVars, superVars, replayVars, syncVars, liveVars
<1>1. /\ tip \in Nat /\ tip' \in Nat /\ tip <= tip'
      /\ \A x \in Nat : Settled(tip, x) => \A c \in Block : c <= x => log'[c] = log[c]
  BY ConstantsAssumption DEF TypeOK, ChainMoved
<1>2. PICK gone \in SUBSET Addr :
        /\ suspect' = suspect \cup gone /\ undone' = undone \cup gone
        /\ \A a \in Addr \ gone, x \in Nat :
             Settled(tip, x) => Continues(log, tip, log', tip', a, x)
  BY Zenon DEF ChainMoved
<1>3. ASSUME NEW x \in Int, Settled(tip, x) PROVE Settled(tip', x)
  BY <1>1, <1>3, ConstantsAssumption DEF Settled
<1>4. ASSUME NEW a \in Addr \ gone, NEW x \in Nat, Settled(tip, x), NEW p,
             Cur(log, tip, p, a, x)
      PROVE  Cur(log', tip', p, a, x)
  <2>1. Continues(log, tip, log', tip', a, x)
    BY <1>2, <1>4
  <2> QED BY <1>1, <1>4, <2>1, ContinuesCur
<1>5. HeightsOk'
  BY <1>3, ConstantsAssumption DEF IInv, HeightsOk, TypeOK, NoCheckpoint, Block, Live
<1>6. ReplayOk' /\ MembersOk'
  <2> SUFFICES ASSUME plan # "none" PROVE ReplayOk' /\ MembersOk'
    BY DEF ReplayOk, MembersOk
  <2> DEFINE x == next - 1
  <2>1. x \in Nat /\ Settled(tip, x) /\ next = x + 1
    BY DEF IInv, HeightsOk, TypeOK
  <2> HIDE DEF x
  <2>2. ASSUME NEW c \in 1 .. x PROVE log'[c] = log[c]
    <3>1. CASE c \in Block
      BY <1>1, <2>1, <3>1
    <3>2. CASE c \notin Block
      BY <1>1, <2>1, <3>2, ConstantsAssumption DEF Settled, Block, TypeOK
    <3> QED BY <3>1, <3>2
  <2>3. ASSUME NEW a \in Addr PROVE Member(log, a, x) <=> Member(log', a, x)
    <3>1. \A c \in 1 .. x : /\ log[c] = Reg(a) <=> log'[c] = Reg(a)
                            /\ log[c] = Rem(a) <=> log'[c] = Rem(a)
      BY <2>2
    <3>2. \A c \in x + 1 .. x : log'[c] \notin {Reg(a), Rem(a)}
      BY <2>1
    <3> QED BY <2>1, <3>1, <3>2, MemberSame
  <2>4. ReplayOk'
    BY <2>3 DEF x, IInv, ReplayOk, MembersAt
  <2>5. ASSUME NEW a \in Addr \ (suspect \cup gone),
               \A c \in next .. tip' : log'[c] \notin {Reg(a), Rem(a)}
        PROVE  a \in members <=> Member(log', a, x)
    <3>1. Continues(log, tip, log', tip', a, x)
      BY <1>2, <2>1
    <3>2. ASSUME NEW c \in next .. tip PROVE log[c] \notin {Reg(a), Rem(a)}
      BY <1>1, <2>1, <2>5, <3>1, EventAddr DEF Continues
    <3>3. a \in members <=> Member(log, a, x)
      BY <3>2 DEF x, IInv, MembersOk
    <3> QED BY <2>3, <3>3
  <2> QED BY <1>2, <2>4, <2>5 DEF x, MembersOk
<1>7. FreshOk'
  BY <1>2, <1>4 DEF IInv, FreshOk, HeightsOk, TypeOK
<1>8. OwnOk'
  BY DEF IInv, OwnOk
<1>9. RowsOk'
  BY <1>2, <1>4 DEF IInv, RowsOk, HeightsOk, TypeOK, NoCheckpoint
<1>10. LiveOk' /\ ServedOk'
  BY <1>2, <1>4 DEF IInv, LiveOk, ServedOk, HeightsOk, TypeOK, Live
<1>11. pc = "apply" => chunkEnd \in Nat /\ Settled(tip, chunkEnd)
  BY DEF IInv, HeightsOk, TypeOK
<1>12. PendingOk'
  <2>1. ASSUME pc = "apply", NEW c \in Block, c <= chunkEnd PROVE log'[c] = log[c]
    BY <1>1, <1>11, <2>1
  <2> QED BY <2>1 DEF IInv, PendingOk, TypeOK
<1>13. ApplyOk'
  <2> SUFFICES ASSUME pc = "apply", NEW a \in Addr \ (suspect \cup gone), NEW p,
                      CurAfter(log, tip, pending, p, a, chunkEnd)
               PROVE  CurAfter(log', tip', pending, p, a, chunkEnd)
    BY <1>2 DEF IInv, ApplyOk
  <2>1. \A b \in pending : b \in 1 .. chunkEnd /\ log'[b] = log[b]
    BY <1>1, <1>11 DEF IInv, PendingOk, TypeOK, Block
  <2>2. Continues(log, tip, log', tip', a, chunkEnd)
    BY <1>2, <1>11
  <2> QED BY <1>1, <1>11, <2>1, <2>2, ContinuesAfter
<1> QED BY <1>5, <1>6, <1>7, <1>8, <1>9, <1>10, <1>12, <1>13 DEF IInv

LEMMA CoverStep ==
  ASSUME HonestEndpoints PROVE TypeOK /\ TypeOK' /\ IInv /\ [Next]_vars => IInv'
<1> SUFFICES ASSUME TypeOK, TypeOK', IInv, [Next]_vars PROVE IInv'
  OBVIOUS
<1>1. CASE UNCHANGED vars
  BY <1>1 DEF vars, chainVars, dbVars, superVars, replayVars, syncVars, liveVars, ghostVars,
              IInv, ChainOk, HeightsOk, ReplayOk, MembersOk, FreshOk, OwnOk, RowsOk,
              LiveOk, ServedOk,
              PendingOk, ApplyOk
<1>2. CASE Boot
  BY <1>2, CoverBoot
<1>3. CASE Attempt
  <2>1. MembershipVerified => IInv'
    BY CoverAccept DEF MembershipVerified
  <2>2. ~ MembershipTolerated /\ ~ FullReplayDisagrees
    BY FullReplayAgrees DEF MembershipTolerated, FullReplayDisagrees
  <2>3. \A a \in Addr : ReadProfile(a) => IInv'
    BY CoverReadProfile
  <2>4. \A a \in Addr : UpsertRow(a) => IInv'
    BY CoverUpsertRow
  <2> QED BY <1>3, <2>1, <2>2, <2>3, <2>4, CoverStartAttempt, CoverTargetHead,
             CoverScanChunk, CoverResumeDisagrees, CoverCheckFails, CoverProfilesRead,
             CoverPruneRows, CoverSetCheckpoint, CoverPublish, CoverAttemptFails,
             CoverRetry DEF Attempt
<1>4. CASE Follow
  <2>1. \A b \in Block : ApplyEvent(b) => IInv'
    BY CoverApplyEvent
  <2> QED BY <1>4, <2>1, CoverPoll, CoverFetchChunk, CoverFetchFails, CoverSaveCheckpoint,
             CoverCheckServed, CoverNoCheck DEF Follow
<1>5. CASE Environment
  <2>1. Mine \/ Reorg => IInv'
    <3>1. Mine \/ Reorg => ChainOk' /\ ChainMoved
      BY MineMoves, ReorgMoves DEF IInv
    <3>2. Mine \/ Reorg => UNCHANGED <<dbVars, pc, nodes, verified, superVars, replayVars,
                                       syncVars, liveVars, snapshot>>
      BY DEF Mine, Reorg
    <3> QED BY <3>1, <3>2, CoverChain
  <2> QED BY <1>5, <2>1, CoverCrash, CoverForeignRun, CoverFloorPasses,
             CoverStateRequestReads, CoverStateRequestInserts DEF Environment
<1> QED BY <1>1, <1>2, <1>3, <1>4, <1>5 DEF Next

\* While endpoints are honest, the inductive invariant holds.
LEMMA CoverInvariant ==
  ASSUME HonestEndpoints PROVE Spec => []IInv
<1>1. TypeOK /\ TypeOK' /\ IInv /\ [Next]_vars => IInv'
  BY CoverStep
<1> QED BY <1>1, CoverInit, TypeCorrect, PTL DEF Spec

\* A restart finds, for every address no fault touched, the rows as of the
\* checkpoint or a later event that repairs them: the order in which a sync
\* and the live loop write rows and checkpoint leaves no gap.
THEOREM CheckpointCovers == Spec => []CheckpointCoversRows
<1>1. CASE HonestEndpoints
  <2>1. IInv => CheckpointCoversRows
    BY CurIs DEF IInv, RowsOk, CheckpointCoversRows
  <2> QED BY <1>1, <2>1, CoverInvariant, PTL
<1>2. CASE ~ HonestEndpoints
  <2>1. CheckpointCoversRows
    BY <1>2 DEF CheckpointCoversRows
  <2> QED BY <2>1, PTL
<1> QED BY <1>1, <1>2

\* Once this process has synced, the served map is what the chain says up to
\* last_block, for every address no fault touched: events are applied in
\* order, each once, the profiles read for them are never too old, and a
\* forced resync with its retries leaves the map alone until it replaces it.
THEOREM ServedCovers == Spec => []ServedCoversEvents
<1>1. CASE HonestEndpoints
  <2>1. IInv => ServedCoversEvents
    BY CurIs DEF IInv, LiveOk, ServedOk, Live, ServedCoversEvents
  <2> QED BY <1>1, <2>1, CoverInvariant, PTL
<1>2. CASE ~ HonestEndpoints
  <2>1. ServedCoversEvents
    BY <1>2 DEF ServedCoversEvents
  <2> QED BY <2>1, PTL
<1> QED BY <1>1, <1>2

\* When a membership check disagrees while endpoints are honest, a fault or a
\* change after the checked block is the reason: a resumed replay is right
\* although it starts from rows ahead of the checkpoint, a full one without
\* exception, and the map that the live loop has kept is right as well.
THEOREM AlarmsExplained == Spec => []AlarmsAreExplained
<1>1. CASE HonestEndpoints
  <2>1. TypeOK /\ IInv => AlarmsAreExplained
    <3> SUFFICES ASSUME TypeOK, IInv PROVE AlarmsAreExplained
      OBVIOUS
    <3>1. ASSUME pc = "check" PROVE MembersUpTo(members, target)
      <4>1. plan # "none" /\ target = next - 1 /\ next \in Nat
        BY <3>1 DEF IInv, HeightsOk, TypeOK
      <4>2. next = target + 1
        BY <4>1
      <4> QED BY <4>1, <4>2 DEF IInv, MembersOk, MembersUpTo, NoMembershipEventAfter
    <3>2. pc = "check" /\ plan = "full" => members = MembersAt(log, target)
      BY FullReplayAgrees
    <3>3. ASSUME pc = "tail" PROVE MembersUpTo(Served, lastBlock)
      <4> SUFFICES ASSUME NEW a \in Addr \ suspect, NoMembershipEventAfter(a, lastBlock)
                   PROVE  a \in Served <=> Member(log, a, lastBlock)
        BY DEF MembersUpTo
      <4>1. Cur(log, tip, nodes[a], a, lastBlock) /\ nodes[a] # Foreign
        BY <3>3 DEF IInv, LiveOk, OwnOk, Live
      <4>2. a \in Served <=> Member(log, a, tip)
        BY <4>1 DEF Cur, NoMembershipEventAfter, Served
      <4>3. Member(log, a, lastBlock) <=> Member(log, a, tip)
        BY SettledMember DEF IInv, HeightsOk, TypeOK, NoMembershipEventAfter
      <4> QED BY <4>2, <4>3
    <3> QED BY <3>1, <3>2, <3>3 DEF AlarmsAreExplained
  <2> QED BY <1>1, <2>1, CoverInvariant, TypeCorrect, PTL
<1>2. CASE ~ HonestEndpoints
  <2>1. AlarmsAreExplained
    BY <1>2 DEF AlarmsAreExplained
  <2> QED BY <2>1, PTL
<1> QED BY <1>1, <1>2

\* Once there is a map to speak of, whoever is served is a member at the head
\* and the other way round, but for changes that the map is not about yet.
Present ==
  verified # "unknown" \/ pc \in Live =>
    \A a \in Addr \ suspect :
      NoMembershipEventAfter(a, lastBlock) => (nodes[a] # Absent <=> Member(log, a, tip))

LEMMA PresentHolds == TypeOK /\ IInv => Present
<1> SUFFICES ASSUME TypeOK, IInv, verified # "unknown" \/ pc \in Live,
                    NEW a \in Addr \ suspect, NoMembershipEventAfter(a, lastBlock)
             PROVE  nodes[a] # Absent <=> Member(log, a, tip)
  BY DEF Present
<1>1. nodes[a] # Foreign
  BY DEF IInv, OwnOk
<1>2. CASE pc = "apply"
  <2>1. CurAfter(log, tip, pending, nodes[a], a, chunkEnd)
    BY <1>2 DEF IInv, ApplyOk
  <2>2. tip \in Nat /\ lastBlock \in Nat /\ chunkEnd \in Nat /\ lastBlock < chunkEnd
    BY <1>2, ConstantsAssumption DEF IInv, HeightsOk, TypeOK
  <2>3. \A b \in pending : b \in lastBlock + 1 .. tip
    BY <1>2, <2>2 DEF IInv, PendingOk, ChainOk, TypeOK, Block
  <2>4. \A c \in chunkEnd + 1 .. tip : c \in lastBlock + 1 .. tip
    BY <2>2
  <2>5. \A c \in lastBlock + 1 .. tip : log[c] \notin {Reg(a), Rem(a)}
    BY DEF NoMembershipEventAfter
  <2> QED BY <1>1, <2>1, <2>3, <2>4, <2>5, Zenon DEF CurAfter
<1>3. CASE pc # "apply"
  <2>1. Cur(log, tip, nodes[a], a, lastBlock)
    BY <1>3 DEF IInv, LiveOk, ServedOk
  <2> QED BY <1>1, <2>1 DEF Cur, NoMembershipEventAfter
<1> QED BY <1>2, <1>3

\* The steps that write the map.
LEMMA MapWriters ==
  ASSUME [Next]_vars, nodes' # nodes
  PROVE  \/ Boot \/ Crash \/ Publish \/ (\E b \in Block : ApplyEvent(b))
         \/ StateRequestInserts
<1>1. ~ UNCHANGED vars
  BY DEF vars
<1>2. Attempt => Publish
  BY DEF Attempt, StartAttempt, TargetHead, ScanChunk, MembershipVerified,
         MembershipTolerated, Accept, ResumeDisagrees, FullReplayDisagrees, CheckFails,
         ReadProfile, ProfilesRead, UpsertRow, PruneRows, SetCheckpoint, AttemptFails, Retry
<1>3. Follow => \E b \in Block : ApplyEvent(b)
  BY DEF Follow, Poll, FetchChunk, FetchFails, SaveCheckpoint, CheckServed, NoCheck
<1>4. Environment => Crash \/ StateRequestInserts
  BY DEF Environment, Mine, Reorg, ForeignRun, FloorPasses, StateRequestReads
<1> QED BY <1>1, <1>2, <1>3, <1>4 DEF Next

\* No step drops from the map a relayer that no fault touched, or adds it,
\* unless its membership changed after a block that the map is about: neither
\* an event of another relayer, nor a profile read at a later head, nor a
\* resync that replaces the map as of an earlier block.
THEOREM NoFlapping == Spec => MembersDoNotFlap
<1>1. CASE HonestEndpoints
  <2>1. Spec => []Present
    BY <1>1, CoverInvariant, TypeCorrect, PresentHolds, PTL
  <2>2. IInv /\ Present /\ Present' /\ [Next]_vars =>
          [ HonestEndpoints /\ verified # "unknown" /\ pc' # "down" =>
              \A a \in Addr \ (suspect \cup suspect') :
                NoMembershipEventAfter(a, lastBlock)
                  /\ NoMembershipEventAfter(a, lastBlock') =>
                  (nodes'[a] # Absent <=> nodes[a] # Absent) ]_vars
    <3> SUFFICES ASSUME IInv, Present, Present', [Next]_vars, verified # "unknown",
                        pc' # "down", NEW a \in Addr \ (suspect \cup suspect'),
                        NoMembershipEventAfter(a, lastBlock),
                        NoMembershipEventAfter(a, lastBlock'), nodes' # nodes
                 PROVE  nodes'[a] # Absent <=> nodes[a] # Absent
      OBVIOUS
    <3>1. nodes[a] # Absent <=> Member(log, a, tip)
      BY DEF Present
    <3>2. ~ Boot /\ ~ Crash
      BY DEF Boot, Crash, IInv, ServedOk
    <3>3. CASE StateRequestInserts
      BY <3>3 DEF StateRequestInserts
    <3>4. CASE Publish \/ \E b \in Block : ApplyEvent(b)
      <4>1. log' = log /\ tip' = tip /\ pc' \in Live
        BY <3>4 DEF Publish, ApplyEvent, chainVars, Live
      <4>2. NoMembershipEventAfter(a, lastBlock)'
        BY <4>1 DEF NoMembershipEventAfter
      <4>3. nodes'[a] # Absent <=> Member(log', a, tip')
        BY <4>1, <4>2 DEF Present
      <4> QED BY <3>1, <4>1, <4>3
    <3> QED BY <3>2, <3>3, <3>4, MapWriters
  <2> QED BY <1>1, <2>1, <2>2, CoverInvariant, PTL DEF Spec, MembersDoNotFlap
<1>2. CASE ~ HonestEndpoints
  <2>1. [ HonestEndpoints /\ verified # "unknown" /\ pc' # "down" =>
            \A a \in Addr \ (suspect \cup suspect') :
              NoMembershipEventAfter(a, lastBlock)
                /\ NoMembershipEventAfter(a, lastBlock') =>
                (nodes'[a] # Absent <=> nodes[a] # Absent) ]_vars
    BY <1>2
  <2> QED BY <2>1, PTL DEF MembersDoNotFlap
<1> QED BY <1>1, <1>2

------------------------------------------------------------------------------
(* What a verified sync publishes.  Nothing is assumed of the logs here:   *)
(* the check, not the replay, makes the set right, so the invariant starts *)
(* where a set has passed it and follows the profiles to the map.          *)

\* The heights an attempt works with are settled whatever logs it got.
AttemptHeightsOk ==
  /\ ckpt # NoCheckpoint => Settled(tip, ckpt)
  /\ plan # "none" => next >= 1 /\ Settled(tip, next - 1)
  /\ pc \in {"head", "scan", "check"} => plan # "none"
  /\ pc \in {"scan", "check", "profiles", "upsert", "checkpoint", "publish",
             "fetch", "apply"} => Settled(tip, target)
  /\ pc = "apply" => Settled(tip, chunkEnd)

\* After a check that passed, every profile that is not still to be read is
\* current as of the block of the check.
VerifiedOk ==
  /\ \A a \in Addr : fresh[a] # Foreign
  /\ verdict = "yes" =>
       /\ pc = "profiles" =>
            \A a \in Addr \ (todo \cup undone) : Cur(log, tip, fresh[a], a, target)
       /\ pc \in {"upsert", "checkpoint", "publish"} =>
            \A a \in Addr \ undone : Cur(log, tip, fresh[a], a, target)

VInv == ChainOk /\ AttemptHeightsOk /\ VerifiedOk

LEMMA VerifiedInit == Init => VInv
BY ConstantsAssumption
   DEF Init, VInv, ChainOk, AttemptHeightsOk, VerifiedOk, NoProfiles, Absent, Foreign

LEMMA VerifiedStartAttempt ==
  ASSUME TypeOK, TypeOK', VInv, StartAttempt PROVE VInv'
<1> USE DEF chainVars, dbVars, superVars, replayVars, syncVars, liveVars, ghostVars
<1>1. plan' # "none" /\ next' >= 1 /\ Settled(tip, next' - 1)
  <2>1. CASE plan # "none"
    BY <2>1 DEF VInv, StartAttempt, AttemptHeightsOk
  <2>2. CASE plan = "none" /\ Resumes(force)
    BY <2>2, ConstantsAssumption
       DEF VInv, StartAttempt, AttemptHeightsOk, Resumes, NoCheckpoint, TypeOK
  <2>3. CASE plan = "none" /\ ~ Resumes(force)
    BY <2>3, ConstantsAssumption DEF StartAttempt, Settled
  <2> QED BY <2>1, <2>2, <2>3
<1> QED BY <1>1 DEF VInv, StartAttempt, ChainOk, AttemptHeightsOk, VerifiedOk

LEMMA VerifiedTargetHead ==
  ASSUME TypeOK, TypeOK', VInv, TargetHead PROVE VInv'
<1> USE DEF chainVars, dbVars, superVars, replayVars, syncVars, liveVars, ghostVars
<1>1. PICK h \in 0 .. tip :
        target' = IF SafeHead(h) >= next - 1 THEN SafeHead(h) ELSE next - 1
  BY DEF TargetHead, Target
<1>2. SafeHead(h) \in Nat /\ Settled(tip, SafeHead(h))
  BY SafeHeadSettled DEF TypeOK
<1>3. Settled(tip, target')
  BY <1>1, <1>2 DEF VInv, AttemptHeightsOk, TargetHead
<1> QED BY <1>3 DEF VInv, TargetHead, ChainOk, AttemptHeightsOk, VerifiedOk

LEMMA VerifiedScanChunk ==
  ASSUME TypeOK, TypeOK', VInv, ScanChunk PROVE VInv'
<1> USE DEF chainVars, dbVars, superVars, replayVars, syncVars, liveVars, ghostVars
<1>1. PICK e \in Block : /\ e \in next .. target /\ next' = e + 1
                         /\ pc' = IF e < target THEN "scan" ELSE "check"
  BY DEF ScanChunk, Chunk
<1>2. Settled(tip, e) /\ plan # "none"
  BY <1>1, SettledDown DEF VInv, AttemptHeightsOk, ScanChunk, TypeOK
<1>3. next' >= 1 /\ Settled(tip, next' - 1)
  BY <1>1, <1>2 DEF Block
<1> QED BY <1>1, <1>2, <1>3 DEF VInv, ScanChunk, ChainOk, AttemptHeightsOk, VerifiedOk

\* A set that passed the check has all the members: who is not in it is
\* current as absent, and the others are read next.
LEMMA VerifiedAccept ==
  ASSUME TypeOK, TypeOK', VInv, pc = "check", NEW v, Accept(v),
         v = "yes" => members = MembersAt(log, target)
  PROVE  VInv'
<1> USE DEF chainVars, dbVars, superVars, replayVars, syncVars, liveVars, ghostVars
<1>1. ChainOk' /\ AttemptHeightsOk'
  BY DEF VInv, Accept, ChainOk, AttemptHeightsOk
<1>2. ASSUME v = "yes", NEW a \in Addr \ members PROVE Cur(log, tip, Absent, a, target)
  BY <1>2, AbsentCurrent DEF VInv, AttemptHeightsOk, TypeOK
<1>3. VerifiedOk'
  BY <1>2 DEF Accept, VerifiedOk, NoProfiles, Absent, Foreign
<1> QED BY <1>1, <1>3 DEF VInv

LEMMA VerifiedReadProfile ==
  ASSUME Lag <= Confirmations, TypeOK, TypeOK', VInv, NEW a \in Addr, ReadProfile(a)
  PROVE  VInv'
<1> USE DEF chainVars, dbVars, superVars, replayVars, syncVars, liveVars, ghostVars
<1>1. PICK h \in 0 .. tip : Sees(h) /\ fresh' = [fresh EXCEPT ![a] = Profile(log, a, h)]
  BY DEF ReadProfile
<1>2. Profile(log, a, h) # Foreign
  BY ProfilePresent DEF TypeOK
<1>3. Cur(log, tip, Profile(log, a, h), a, target)
  BY <1>1, SeesHonest, ReadCurrent DEF VInv, AttemptHeightsOk, ReadProfile, TypeOK
<1>4. VerifiedOk'
  <2>1. \A c \in Addr : fresh'[c] # Foreign
    BY <1>1, <1>2 DEF VInv, VerifiedOk, TypeOK
  <2>2. ASSUME verdict = "yes", NEW c \in Addr \ (todo' \cup undone)
        PROVE  Cur(log, tip, fresh'[c], c, target)
    BY <1>1, <1>3, <2>2 DEF VInv, VerifiedOk, ReadProfile, TypeOK
  <2> QED BY <2>1, <2>2 DEF ReadProfile, VerifiedOk
<1> QED BY <1>4 DEF VInv, ReadProfile, ChainOk, AttemptHeightsOk

LEMMA VerifiedReconcile ==
  ASSUME TypeOK, TypeOK', VInv,
         ProfilesRead \/ (\E a \in Addr : UpsertRow(a)) \/ PruneRows \/ SetCheckpoint
           \/ Publish
  PROVE  VInv'
<1> USE DEF chainVars, dbVars, superVars, replayVars, syncVars, liveVars, ghostVars
<1>1. CASE ProfilesRead
  BY <1>1 DEF VInv, ProfilesRead, ChainOk, AttemptHeightsOk, VerifiedOk
<1>2. CASE \E a \in Addr : UpsertRow(a)
  BY <1>2 DEF VInv, UpsertRow, ChainOk, AttemptHeightsOk, VerifiedOk
<1>3. CASE PruneRows
  BY <1>3 DEF VInv, PruneRows, ChainOk, AttemptHeightsOk, VerifiedOk
<1>4. CASE SetCheckpoint
  BY <1>4 DEF VInv, SetCheckpoint, ChainOk, AttemptHeightsOk, VerifiedOk
<1>5. CASE Publish
  BY <1>5 DEF VInv, Publish, NoReplay, NoSyncWork, NoProfiles, Absent, Foreign, ChainOk,
              AttemptHeightsOk, VerifiedOk
<1> QED BY <1>1, <1>2, <1>3, <1>4, <1>5

\* An attempt that ends or breaks off leaves no verdict behind.
LEMMA VerifiedAttemptOver ==
  ASSUME TypeOK, TypeOK', VInv,
         ResumeDisagrees \/ FullReplayDisagrees \/ CheckFails \/ AttemptFails \/ Retry
           \/ Crash
  PROVE  VInv'
<1> USE DEF chainVars, dbVars, superVars, replayVars, syncVars, liveVars, ghostVars,
            NoReplay, NoSyncWork, NoProfiles, Absent, Foreign
<1>1. CASE ResumeDisagrees
  BY <1>1 DEF VInv, ResumeDisagrees, ChainOk, AttemptHeightsOk, VerifiedOk
<1>2. CASE FullReplayDisagrees
  BY <1>2 DEF VInv, FullReplayDisagrees, ChainOk, AttemptHeightsOk, VerifiedOk
<1>3. CASE CheckFails
  BY <1>3 DEF VInv, CheckFails, ChainOk, AttemptHeightsOk, VerifiedOk
<1>4. CASE AttemptFails
  BY <1>4 DEF VInv, AttemptFails, ChainOk, AttemptHeightsOk, VerifiedOk
<1>5. CASE Retry
  BY <1>5 DEF VInv, Retry, ChainOk, AttemptHeightsOk, VerifiedOk
<1>6. CASE Crash
  BY <1>6 DEF VInv, Crash, ChainOk, AttemptHeightsOk, VerifiedOk
<1> QED BY <1>1, <1>2, <1>3, <1>4, <1>5, <1>6

LEMMA VerifiedFollow ==
  ASSUME TypeOK, TypeOK', VInv, Follow PROVE VInv'
<1> USE DEF chainVars, dbVars, superVars, replayVars, syncVars, liveVars, ghostVars
<1>1. CASE Poll
  <2>1. PICK h \in 0 .. tip : target' = SafeHead(h)
    BY <1>1 DEF Poll
  <2>2. Settled(tip, target')
    BY <2>1, SafeHeadSettled DEF TypeOK
  <2> QED BY <1>1, <2>2 DEF VInv, Poll, ChainOk, AttemptHeightsOk, VerifiedOk
<1>2. CASE FetchChunk
  <2>1. PICK e \in Block : e \in lastBlock + 1 .. target /\ chunkEnd' = e
    BY <1>2 DEF FetchChunk, Chunk
  <2>2. Settled(tip, chunkEnd')
    BY <1>2, <2>1, SettledDown DEF VInv, AttemptHeightsOk, FetchChunk, TypeOK
  <2> QED BY <1>2, <2>2 DEF VInv, FetchChunk, ChainOk, AttemptHeightsOk, VerifiedOk
<1>3. CASE FetchFails
  BY <1>3 DEF VInv, FetchFails, ChainOk, AttemptHeightsOk, VerifiedOk
<1>4. CASE \E b \in Block : ApplyEvent(b)
  BY <1>4 DEF VInv, ApplyEvent, ChainOk, AttemptHeightsOk, VerifiedOk
<1>5. CASE SaveCheckpoint
  BY <1>5 DEF VInv, SaveCheckpoint, ChunkDone, ChainOk, AttemptHeightsOk, VerifiedOk
<1>6. CASE CheckServed
  BY <1>6 DEF VInv, CheckServed, NoReplay, ChainOk, AttemptHeightsOk, VerifiedOk
<1>7. CASE NoCheck
  BY <1>7 DEF VInv, NoCheck, ChainOk, AttemptHeightsOk, VerifiedOk
<1> QED BY <1>1, <1>2, <1>3, <1>4, <1>5, <1>6, <1>7 DEF Follow

LEMMA VerifiedOthers ==
  ASSUME TypeOK, TypeOK', VInv,
         Boot \/ ForeignRun \/ FloorPasses \/ StateRequestReads \/ StateRequestInserts
  PROVE  VInv'
BY DEF VInv, Boot, ForeignRun, FloorPasses, StateRequestReads, StateRequestInserts,
       ChainOk, AttemptHeightsOk, VerifiedOk, chainVars, dbVars, superVars, replayVars,
       syncVars, liveVars, ghostVars

LEMMA VerifiedChain ==
  ASSUME TypeOK, TypeOK', VInv, Mine \/ Reorg PROVE VInv'
<1> USE DEF chainVars, dbVars, superVars, replayVars, syncVars, liveVars, ghostVars
<1>1. ChainOk' /\ ChainMoved
  BY MineMoves, ReorgMoves DEF VInv
<1>2. UNCHANGED <<dbVars, pc, replayVars, syncVars, liveVars>>
  BY DEF Mine, Reorg
<1>3. tip \in Nat /\ tip' \in Nat /\ tip <= tip'
  BY <1>1, ConstantsAssumption DEF TypeOK, ChainMoved
<1>4. ASSUME NEW x \in Int, Settled(tip, x) PROVE Settled(tip', x)
  BY <1>3, <1>4, ConstantsAssumption DEF Settled
<1>5. AttemptHeightsOk'
  BY <1>2, <1>4, ConstantsAssumption
     DEF VInv, AttemptHeightsOk, TypeOK, NoCheckpoint, Block
<1>6. PICK gone \in SUBSET Addr :
        /\ undone' = undone \cup gone
        /\ \A a \in Addr \ gone, x \in Nat :
             Settled(tip, x) => Continues(log, tip, log', tip', a, x)
  BY <1>1, Zenon DEF ChainMoved
<1>7. ASSUME NEW a \in Addr \ gone, Settled(tip, target), Cur(log, tip, fresh[a], a, target)
      PROVE  Cur(log', tip', fresh[a], a, target)
  <2>1. target \in Nat /\ Continues(log, tip, log', tip', a, target)
    BY <1>6, <1>7 DEF TypeOK
  <2> QED BY <1>3, <1>7, <2>1, ContinuesCur
<1>8. VerifiedOk'
  BY <1>2, <1>6, <1>7 DEF VInv, AttemptHeightsOk, VerifiedOk
<1> QED BY <1>1, <1>5, <1>8 DEF VInv

LEMMA VerifiedStep ==
  ASSUME Lag <= Confirmations PROVE TypeOK /\ TypeOK' /\ VInv /\ [Next]_vars => VInv'
<1> SUFFICES ASSUME TypeOK, TypeOK', VInv, [Next]_vars PROVE VInv'
  OBVIOUS
<1>1. CASE UNCHANGED vars
  BY <1>1 DEF vars, chainVars, dbVars, replayVars, syncVars, liveVars, ghostVars, VInv,
              ChainOk, AttemptHeightsOk, VerifiedOk
<1>2. CASE Attempt
  <2>1. MembershipVerified \/ MembershipTolerated => VInv'
    BY VerifiedAccept DEF MembershipVerified, MembershipTolerated
  <2>2. \A a \in Addr : ReadProfile(a) => VInv'
    BY VerifiedReadProfile
  <2> QED BY <1>2, <2>1, <2>2, VerifiedStartAttempt, VerifiedTargetHead, VerifiedScanChunk,
             VerifiedReconcile, VerifiedAttemptOver DEF Attempt
<1>3. CASE Follow
  BY <1>3, VerifiedFollow
<1>4. CASE Boot \/ Environment
  BY <1>4, VerifiedChain, VerifiedAttemptOver, VerifiedOthers DEF Environment
<1> QED BY <1>1, <1>2, <1>3, <1>4 DEF Next

\* Only Publish goes from "publish" to the live loop.
LEMMA PublishesBy ==
  ASSUME [Next]_vars, pc = "publish", pc' = "poll" PROVE Publish
<1> USE DEF chainVars, dbVars, superVars, replayVars, syncVars, liveVars, ghostVars
<1>1. ~ UNCHANGED vars
  BY DEF vars
<1>2. ~ Boot
  BY DEF Boot
<1>3. ~ Follow
  BY DEF Follow, Poll, FetchChunk, FetchFails, ApplyEvent, SaveCheckpoint, ChunkDone,
         CheckServed, NoCheck
<1>4. ~ Environment
  BY DEF Environment, Mine, Reorg, Crash, ForeignRun, FloorPasses, StateRequestReads,
         StateRequestInserts
<1>5. Attempt => Publish
  BY DEF Attempt, StartAttempt, TargetHead, ScanChunk, MembershipVerified,
         MembershipTolerated, Accept, ResumeDisagrees, FullReplayDisagrees, CheckFails,
         ReadProfile, ProfilesRead, UpsertRow, PruneRows, SetCheckpoint, AttemptFails, Retry
<1> QED BY <1>1, <1>2, <1>3, <1>4, <1>5 DEF Next

\* A sync that ends flagged verified puts in service exactly the members at
\* its block, but for later events and readings that a reorg took back, also
\* when logs were missing: the check decides, and a profile read later agrees
\* with it as long as an endpoint is no further behind than the confirmations.
THEOREM VerifiedPublish == Spec => VerifiedPublishIsExact
<1>1. CASE Lag <= Confirmations
  <2>1. Spec => []VInv
    BY <1>1, VerifiedStep, VerifiedInit, TypeCorrect, PTL DEF Spec
  <2>2. TypeOK /\ VInv /\ [Next]_vars =>
          [ (Lag <= Confirmations /\ pc = "publish" /\ pc' = "poll" /\ verified' = "yes") =>
              \A a \in Addr \ suspect' :
                NoMembershipEventAfter(a, lastBlock') =>
                  (nodes'[a] # Absent <=> Member(log, a, tip)) ]_vars
    <3> SUFFICES ASSUME TypeOK, VInv, [Next]_vars, pc = "publish", pc' = "poll",
                        verified' = "yes", NEW a \in Addr \ suspect',
                        NoMembershipEventAfter(a, lastBlock')
                 PROVE  nodes'[a] # Absent <=> Member(log, a, tip)
      OBVIOUS
    <3>1. Publish
      BY PublishesBy
    <3>2. /\ nodes' = fresh /\ verdict = "yes" /\ lastBlock' = target
          /\ suspect' = undone
      BY <3>1 DEF Publish
    <3>3. Cur(log, tip, fresh[a], a, target) /\ fresh[a] # Foreign
      BY <3>2 DEF VInv, VerifiedOk
    <3> QED BY <3>2, <3>3 DEF Cur, NoMembershipEventAfter
  <2> QED BY <2>1, <2>2, TypeCorrect, PTL DEF Spec, VerifiedPublishIsExact
<1>2. CASE ~ (Lag <= Confirmations)
  <2>1. [ (Lag <= Confirmations /\ pc = "publish" /\ pc' = "poll" /\ verified' = "yes") =>
            \A a \in Addr \ suspect' :
              NoMembershipEventAfter(a, lastBlock') =>
                (nodes'[a] # Absent <=> Member(log, a, tip)) ]_vars
    BY <1>2
  <2> QED BY <2>1, PTL DEF VerifiedPublishIsExact
<1> QED BY <1>1, <1>2

=============================================================================
