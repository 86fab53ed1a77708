------------------------------ MODULE ChainSync ------------------------------
(***************************************************************************)
(* The registry membership sync of the indexer: `run_chain_sync` and what  *)
(* it calls (src/chain/discovery.rs, src/chain/mod.rs), with the rows of   *)
(* `nodes` and `indexer_checkpoints` it keeps (src/db.rs), the node map it *)
(* serves (src/state.rs), and the one other writer of that map, the        *)
(* `/v1/state` handler (src/api.rs).                                       *)
(*                                                                         *)
(* One task runs the sync; `pc` names the await it stands at.  The chain   *)
(* is the environment: it grows, and may replace blocks that do not have   *)
(* enough confirmations yet.  Everything that can go wrong outside the     *)
(* program costs one unit of the budget MaxFaults, and only the kinds in   *)
(* FaultKinds happen:                                                      *)
(*   "rpc"       a chain or database call of the sync fails for good       *)
(*   "lag"       an endpoint up to Lag blocks behind answers               *)
(*   "truncate"  logs stop short of the requested end of the range         *)
(*   "crash"     the process stops and starts again                        *)
(*   "reorg"     blocks with fewer than Confirmations are replaced         *)
(*   "foreign"   the process runs for a while on another registry          *)
(*   "read"      a `/v1/state` request finds the node map empty            *)
(*                                                                         *)
(* Abstractions.  A profile is the set of blocks whose events made it, so  *)
(* a stale profile differs from a current one, and {} is "not a member".   *)
(* Count and fingerprint are the member set itself (no hash collisions).   *)
(* A block carries at most one event.  The status of a row is only         *)
(* registered or deregistered.                                             *)
(*                                                                         *)
(* A definition X_Y is X with the slip Y in it; nothing uses it.  Put in   *)
(* place of X it makes TLC refute a property.                              *)
(***************************************************************************)
EXTENDS Integers, FiniteSets

CONSTANTS
  Addr,            \* relayer addresses
  NoAddr,          \* the address field of a block without an event
  MaxBlock,        \* bound: the chain stops growing here
  FromBlock,       \* FROM_BLOCK, the deployment block of the registry
  Confirmations,   \* CHAIN_CONFIRMATIONS
  Lag,             \* how far behind the tip an answering endpoint may be
  VerifyAttempts,  \* VERIFY_ATTEMPTS
  Tolerance,       \* FULL_REPLAY_MISMATCH_TOLERANCE
  MismatchesBeforeResync,
  FaultKinds,      \* which faults happen
  MaxFaults        \* bound: how many of them

AllFaultKinds ==
  {"rpc", "lag", "truncate", "crash", "reorg", "foreign", "read"}

ASSUME ConstantsAssumption ==
  /\ NoAddr \notin Addr
  /\ MaxBlock \in Nat /\ FromBlock \in 1 .. MaxBlock
  /\ Confirmations \in Nat /\ Lag \in Nat
  /\ VerifyAttempts \in Nat \ {0} /\ Tolerance \in Nat
  /\ MismatchesBeforeResync \in Nat \ {0}
  /\ FaultKinds \subseteq AllFaultKinds /\ MaxFaults \in Nat

VARIABLES
  (* the chain *)
  log,             \* the block at each height up to tip
  tip,             \* its head
  (* Postgres *)
  row,             \* the registered profile in `nodes`, {} when deregistered
  ckpt,            \* last_block of `indexer_checkpoints`, NoCheckpoint if none
  (* the process *)
  pc,
  nodes,           \* AppState.nodes
  phase,           \* SyncStatus.phase
  verified,        \* SyncStatus.verified
  forceFull,       \* force_full of run_chain_sync
  fullMismatches,  \* full_mismatches of run_chain_sync
  floorUp,         \* MIN_RESYNC_INTERVAL has passed since the last resync
  plan, next, members,     \* ReplayProgress, plan = "none" when there is none
  force,           \* force_full of initial_chain_sync
  target,          \* the safe head this attempt, or this poll, works towards
  checkAttempt,    \* check_attempt
  todo, fresh, verdict,    \* reconcile_membership: work left, profiles, flag
  lastBlock,       \* last_block of the live loop
  chunkEnd, pending,       \* the fetched chunk: its end, events not applied
  changed, mismatches,     \* locals of chain_event_loop
  snapshot,        \* rows a /v1/state request has read and not inserted yet
  (* bookkeeping of the model *)
  faults,          \* faults so far
  suspect,         \* addresses a fault may have left wrong
  undone           \* addresses a reorg touched since profiles were read

chainVars  == <<log, tip>>
dbVars     == <<row, ckpt>>
superVars  == <<forceFull, fullMismatches, floorUp>>
replayVars == <<plan, next, members, force>>
syncVars   == <<target, checkAttempt, todo, fresh, verdict>>
liveVars   == <<lastBlock, chunkEnd, pending, changed, mismatches>>
ghostVars  == <<suspect, undone>>
vars == <<chainVars, dbVars, pc, nodes, phase, verified, superVars, replayVars,
          syncVars, liveVars, snapshot, faults, ghostVars>>

------------------------------------------------------------------------------
(* The registry, as the code uses it: events in blocks, and at any block   *)
(* the member set and each member's profile.                               *)

Block == 1 .. MaxBlock
Empty == [kind |-> "none", addr |-> NoAddr]
Event == [kind : {"reg", "rem", "prof"}, addr : Addr]

\* The events that change membership (Removed and Unstaked are both "rem");
\* every other one decode_log knows is "prof".
Reg(a) == [kind |-> "reg", addr |-> a]
Rem(a) == [kind |-> "rem", addr |-> a]

\* relayers(a) at block b, of the chain l, shows a registration.
Member(l, a, b) ==
  \E c \in 1 .. b : l[c] = Reg(a) /\ \A d \in c + 1 .. b : l[d] # Rem(a)

MembersAt(l, b) == {a \in Addr : Member(l, a, b)}

Absent == {}
Foreign == {0}     \* a row that is registered, under another registry

Profile(l, a, b) ==
  IF Member(l, a, b) THEN {c \in 1 .. b : l[c].addr = a} ELSE Absent

\* The contract emits no other events, and nothing before its deployment.
\* The last Confirmations blocks of the run are empty, so that every event
\* can become safe.
WellFormed(l, b) ==
  \/ l[b] = Empty
  \/ /\ b >= FromBlock /\ b + Confirmations <= MaxBlock
     /\ l[b] \in Event
     /\ (l[b].kind = "reg") <=> ~ Member(l, l[b].addr, b - 1)

\* The same with the removals of a chunk taken first.
Replayed_Unordered(S, from, to) ==
  {a \in Addr :
     \/ \E c \in from .. to : log[c] = Reg(a)
     \/ a \in S /\ \A d \in from .. to : log[d] # Rem(a)}

\* apply_membership_event over the logs of the blocks from..to, in order.
Replayed(S, from, to) ==
  {a \in Addr :
     \/ \E c \in from .. to :
          log[c] = Reg(a) /\ \A d \in c + 1 .. to : log[d] # Rem(a)
     \/ a \in S /\ \A d \in from .. to : log[d] # Rem(a)}

------------------------------------------------------------------------------
NoCheckpoint == -1

Fault(kind) ==
  /\ kind \in FaultKinds /\ faults < MaxFaults
  /\ faults' = faults + 1

\* A call for the latest block, or for state at it, answered at height h.
Sees(h) ==
  \/ h = tip /\ UNCHANGED faults
  \/ h \in 0 .. tip - 1 /\ h + Lag >= tip /\ Fault("lag")

SafeHead_Unconfirmed(h) == h

\* safe_head, of an endpoint whose head is h
SafeHead(h) == IF h > Confirmations THEN h - Confirmations ELSE 0

Here(a) == row[a] \notin {Absent, Foreign}
Served == {a \in Addr : nodes[a] # Absent}
NoProfiles == [a \in Addr |-> Absent]

Resumes_IgnoresForce(full) == ckpt # NoCheckpoint /\ ckpt + 1 >= FromBlock

\* plan_sync
Resumes(full) ==
  /\ ckpt # NoCheckpoint
  /\ ~ full
  /\ ckpt + 1 >= FromBlock

NoSyncWork ==
  /\ target' = 0 /\ checkAttempt' = 0
  /\ todo' = {} /\ fresh' = NoProfiles /\ verdict' = "unknown"

NoReplay == plan' = "none" /\ next' = 0 /\ members' = {}

Init ==
  /\ log = [b \in Block |-> Empty] /\ tip = 0
  /\ row = NoProfiles /\ ckpt = NoCheckpoint
  /\ pc = "down" /\ nodes = NoProfiles
  /\ phase = "Starting" /\ verified = "unknown"
  /\ forceFull = FALSE /\ fullMismatches = 0 /\ floorUp = TRUE
  /\ plan = "none" /\ next = 0 /\ members = {} /\ force = FALSE
  /\ target = 0 /\ checkAttempt = 0
  /\ todo = {} /\ fresh = NoProfiles /\ verdict = "unknown"
  /\ lastBlock = 0 /\ chunkEnd = 0 /\ pending = {}
  /\ changed = FALSE /\ mismatches = 0
  /\ snapshot = NoProfiles
  /\ faults = 0 /\ suspect = {} /\ undone = {}

------------------------------------------------------------------------------
(* The chain.                                                              *)

Mine ==
  /\ tip < MaxBlock
  /\ \E e \in Event \cup {Empty} :
       LET l == [log EXCEPT ![tip + 1] = e] IN
         /\ WellFormed(l, tip + 1)
         /\ log' = l
  /\ tip' = tip + 1
  /\ UNCHANGED <<dbVars, pc, nodes, phase, verified, superVars, replayVars,
                 syncVars, liveVars, snapshot, faults, ghostVars>>

\* The blocks without Confirmations are replaced by other ones.
Reorg ==
  LET tail == {b \in Block : b <= tip /\ b > tip - Confirmations} IN
  /\ Fault("reorg")
  /\ \E s \in [tail -> Event \cup {Empty}] :
       LET l == [b \in Block |-> IF b \in tail THEN s[b] ELSE log[b]]
           gone == {a \in Addr : \E b \in tail : log[b].addr = a /\ l[b] # log[b]}
       IN /\ \A b \in tail : WellFormed(l, b)
          /\ log' = l
          /\ suspect' = suspect \cup gone
          /\ undone' = undone \cup gone
  /\ UNCHANGED <<tip, dbVars, pc, nodes, phase, verified, superVars,
                 replayVars, syncVars, liveVars, snapshot>>

------------------------------------------------------------------------------
(* Start and stop of the process.                                          *)

\* init_state serves the rows of the configured registry until the first
\* sync, or nothing when they cannot be read.
Boot ==
  /\ pc = "down"
  /\ \/ /\ nodes' = [a \in Addr |-> IF Here(a) THEN row[a] ELSE Absent]
        /\ UNCHANGED faults
     \/ nodes' = NoProfiles /\ Fault("rpc")
  /\ pc' = "plan"
  /\ UNCHANGED <<chainVars, dbVars, phase, verified, superVars, replayVars,
                 syncVars, liveVars, snapshot, ghostVars>>

\* Nothing but the database survives; a graceful stop is no different here.
Crash ==
  /\ pc # "down"
  /\ Fault("crash")
  /\ pc' = "down" /\ nodes' = NoProfiles
  /\ phase' = "Starting" /\ verified' = "unknown"
  /\ forceFull' = FALSE /\ fullMismatches' = 0 /\ floorUp' = TRUE
  /\ NoReplay /\ force' = FALSE /\ NoSyncWork
  /\ lastBlock' = 0 /\ chunkEnd' = 0 /\ pending' = {}
  /\ changed' = FALSE /\ mismatches' = 0
  /\ snapshot' = NoProfiles
  /\ UNCHANGED <<chainVars, dbVars, ghostVars>>

\* A configuration with another REGISTRY_ADDRESS ran: its reconcile took
\* over the rows of its members and deregistered the others, and left this
\* registry's checkpoint alone.
ForeignRun ==
  /\ pc = "down"
  /\ Fault("foreign")
  /\ \E S \in SUBSET Addr :
       row' = [a \in Addr |-> IF a \in S THEN Foreign ELSE Absent]
  /\ suspect' = Addr
  /\ UNCHANGED <<chainVars, ckpt, pc, nodes, phase, verified, superVars,
                 replayVars, syncVars, liveVars, snapshot, undone>>

------------------------------------------------------------------------------
(* One attempt: initial_chain_sync.                                        *)

\* The chain id is known, and a replay is under way or a new one starts.
StartAttempt ==
  /\ pc = "plan"
  /\ phase' = IF phase = "Retrying" THEN "Retrying" ELSE "Syncing"
  /\ checkAttempt' = 0
  /\ pc' = "head"
  /\ \/ plan # "none" /\ UNCHANGED <<plan, next, members>>
     \/ /\ plan = "none" /\ Resumes(force)
        /\ plan' = "resume" /\ next' = ckpt + 1
        /\ members' = {a \in Addr : Here(a)}
     \/ /\ plan = "none" /\ ~ Resumes(force)
        /\ plan' = "full" /\ next' = FromBlock /\ members' = {}
  /\ UNCHANGED <<chainVars, dbVars, nodes, verified, superVars, force, target,
                 todo, fresh, verdict, liveVars, snapshot, faults, ghostVars>>

Target_NoFloor(h) == SafeHead(h)

\* max(safe_head, next_block - 1), of an endpoint whose head is h
Target(h) == IF SafeHead(h) >= next - 1 THEN SafeHead(h) ELSE next - 1

TargetHead ==
  /\ pc = "head"
  /\ \E h \in 0 .. tip : Sees(h) /\ target' = Target(h)
  /\ pc' = IF next <= target' THEN "scan" ELSE "check"
  /\ UNCHANGED <<chainVars, dbVars, nodes, phase, verified, superVars,
                 replayVars, checkAttempt, todo, fresh, verdict, liveVars,
                 snapshot, ghostVars>>

\* A chunk of a fetch ends at e, and has the logs of the blocks up to cut.
Chunk(from, e, cut) ==
  /\ e \in from .. target
  /\ \/ cut = e /\ UNCHANGED faults
     \/ cut \in from - 1 .. e - 1 /\ Fault("truncate")

ScanChunk ==
  /\ pc = "scan"
  /\ \E e \in Block, cut \in 0 .. MaxBlock :
       /\ Chunk(next, e, cut)
       /\ members' = Replayed(members, next, cut)
       /\ next' = e + 1
       /\ pc' = IF e < target THEN "scan" ELSE "check"
  /\ UNCHANGED <<chainVars, dbVars, nodes, phase, verified, superVars, plan,
                 force, syncVars, liveVars, snapshot, ghostVars>>

\* The verdict is in and the set is going to be served: reconcile_membership
\* starts with the profiles.
Accept(v) ==
  /\ verdict' = v
  /\ todo' = members /\ fresh' = NoProfiles
  /\ undone' = {}
  /\ pc' = "profiles"
  /\ UNCHANGED <<chainVars, dbVars, nodes, phase, verified, superVars,
                 replayVars, target, checkAttempt, liveVars, snapshot, faults,
                 suspect>>

MembershipVerified_Unchecked == pc = "check" /\ Accept("yes")

MembershipVerified ==
  pc = "check" /\ members = MembersAt(log, target) /\ Accept("yes")

\* The replay keeps disagreeing with the registry: served, flagged.
MembershipTolerated ==
  /\ pc = "check" /\ members # MembersAt(log, target)
  /\ plan = "full" /\ fullMismatches >= Tolerance
  /\ Accept("no")

\* The stored set is wrong: start over from the deployment block, now.
ResumeDisagrees ==
  /\ pc = "check" /\ members # MembersAt(log, target)
  /\ plan = "resume"
  /\ NoReplay /\ force' = TRUE
  /\ NoSyncWork
  /\ pc' = "plan"
  /\ UNCHANGED <<chainVars, dbVars, nodes, phase, verified, superVars,
                 liveVars, snapshot, faults, ghostVars>>

FullReplayDisagrees ==
  /\ pc = "check" /\ members # MembersAt(log, target)
  /\ plan = "full" /\ fullMismatches < Tolerance
  /\ fullMismatches' = fullMismatches + 1
  /\ forceFull' = TRUE
  /\ NoReplay
  /\ NoSyncWork
  /\ phase' = "Retrying" /\ pc' = "backoff"
  /\ UNCHANGED <<chainVars, dbVars, nodes, verified, floorUp, force, liveVars,
                 snapshot, faults, ghostVars>>

LastCheck_OneMore == checkAttempt >= VerifyAttempts

LastCheck == checkAttempt + 1 >= VerifyAttempts

\* The check could not be made at this block: take a new head.
CheckFails ==
  /\ pc = "check" /\ ~ LastCheck
  /\ Fault("rpc")
  /\ checkAttempt' = checkAttempt + 1
  /\ pc' = "head"
  /\ UNCHANGED <<chainVars, dbVars, nodes, phase, verified, superVars,
                 replayVars, target, todo, fresh, verdict, liveVars, snapshot,
                 ghostVars>>

------------------------------------------------------------------------------
(* reconcile_membership: all profiles, then the rows, then the checkpoint, *)
(* then the map.                                                           *)

\* Up to four reads are in flight; they answer in any order.
ReadProfile(a) ==
  /\ pc = "profiles" /\ a \in todo
  /\ \E h \in 0 .. tip :
       /\ Sees(h)
       /\ fresh' = [fresh EXCEPT ![a] = Profile(log, a, h)]
  /\ todo' = todo \ {a}
  /\ UNCHANGED <<chainVars, dbVars, pc, nodes, phase, verified, superVars,
                 replayVars, target, checkAttempt, verdict, liveVars,
                 snapshot, ghostVars>>

\* Members that left the registry since have no profile and no row to write.
ProfilesRead ==
  /\ pc = "profiles" /\ todo = {}
  /\ todo' = {a \in Addr : fresh[a] # Absent}
  /\ pc' = "upsert"
  /\ UNCHANGED <<chainVars, dbVars, nodes, phase, verified, superVars,
                 replayVars, target, checkAttempt, fresh, verdict, liveVars,
                 snapshot, faults, ghostVars>>

\* Bookkeeping: a full replay whose head answer was old may end below the
\* stored checkpoint, and the rows it changes are then older than that
\* checkpoint until SetCheckpoint moves it back.
NoteRewrittenRows ==
  suspect' = IF ckpt <= target THEN suspect
             ELSE suspect \cup {a \in Addr : row'[a] # row[a]}

UpsertRow(a) ==
  /\ pc = "upsert" /\ a \in todo
  /\ row' = [row EXCEPT ![a] = fresh[a]]
  /\ todo' = todo \ {a}
  /\ NoteRewrittenRows
  /\ UNCHANGED <<chainVars, ckpt, pc, nodes, phase, verified, superVars,
                 replayVars, target, checkAttempt, fresh, verdict, liveVars,
                 snapshot, faults, undone>>

Pruned_OwnRows ==
  [a \in Addr |-> IF fresh[a] = Absent /\ row[a] # Foreign THEN Absent ELSE row[a]]

\* deregister_nodes_except, one statement over the rows of every registry
Pruned == [a \in Addr |-> IF fresh[a] = Absent THEN Absent ELSE row[a]]

PruneRows ==
  /\ pc = "upsert" /\ todo = {}
  /\ row' = Pruned
  /\ pc' = "checkpoint"
  /\ NoteRewrittenRows
  /\ UNCHANGED <<chainVars, ckpt, nodes, phase, verified, superVars,
                 replayVars, syncVars, liveVars, snapshot, faults, undone>>

SetCheckpoint ==
  /\ pc = "checkpoint"
  /\ ckpt' = target
  /\ pc' = "publish"
  /\ UNCHANGED <<chainVars, row, nodes, phase, verified, superVars,
                 replayVars, syncVars, liveVars, snapshot, faults, ghostVars>>

\* The map is replaced, mark_synced, and the live loop begins.
Publish ==
  /\ pc = "publish"
  /\ nodes' = fresh
  /\ phase' = "Live" /\ verified' = verdict
  /\ NoReplay /\ NoSyncWork
  /\ fullMismatches' = 0
  /\ lastBlock' = target /\ changed' = FALSE /\ mismatches' = 0
  /\ pc' = "poll"
  /\ suspect' = undone /\ undone' = {}
  /\ UNCHANGED <<chainVars, dbVars, forceFull, floorUp, force, chunkEnd,
                 pending, snapshot, faults>>

\* Any call of the attempt gave up.  What was replayed is kept.  A write that
\* fails after it took effect is the write followed by this step, which is
\* why "publish" is one of the places.
AttemptFails ==
  /\ \/ pc \in {"plan", "head", "scan", "profiles", "upsert", "checkpoint", "publish"}
     \/ pc = "check" /\ LastCheck
  /\ Fault("rpc")
  /\ NoSyncWork
  /\ phase' = "Retrying" /\ pc' = "backoff"
  /\ UNCHANGED <<chainVars, dbVars, nodes, verified, superVars, replayVars,
                 liveVars, snapshot, ghostVars>>

\* The backoff is over and run_chain_sync tries again.
Retry ==
  /\ pc = "backoff"
  /\ force' = forceFull
  /\ pc' = "plan"
  /\ UNCHANGED <<chainVars, dbVars, nodes, phase, verified, superVars, plan,
                 next, members, syncVars, liveVars, snapshot, faults,
                 ghostVars>>

------------------------------------------------------------------------------
(* chain_event_loop.                                                       *)

\* A tick.  When safe_head fails the loop waits for the next one.
Poll ==
  /\ pc = "poll"
  /\ \E h \in 0 .. tip : Sees(h) /\ target' = SafeHead(h)
  /\ changed' = FALSE
  /\ pc' = IF lastBlock < target' THEN "fetch" ELSE "tail"
  /\ UNCHANGED <<chainVars, dbVars, nodes, phase, verified, superVars,
                 replayVars, checkAttempt, todo, fresh, verdict, lastBlock,
                 chunkEnd, pending, mismatches, snapshot, ghostVars>>

FetchChunk ==
  /\ pc = "fetch"
  /\ \E e \in Block, cut \in 0 .. MaxBlock :
       /\ Chunk(lastBlock + 1, e, cut)
       /\ pending' = {b \in lastBlock + 1 .. cut : log[b].kind # "none"}
       /\ chunkEnd' = e
  /\ pc' = "apply"
  /\ UNCHANGED <<chainVars, dbVars, nodes, phase, verified, superVars,
                 replayVars, syncVars, lastBlock, changed, mismatches,
                 snapshot, ghostVars>>

\* The loop breaks off, and still checks what it has.
FetchFails ==
  /\ pc = "fetch"
  /\ Fault("rpc")
  /\ pc' = "tail"
  /\ UNCHANGED <<chainVars, dbVars, nodes, phase, verified, superVars,
                 replayVars, syncVars, liveVars, snapshot, ghostVars>>

\* refresh_chain_node: the profile is read at the latest block; a relayer
\* that is no longer registered there is left as it is.
RefreshNode(a) ==
  /\ \E h \in 0 .. tip :
       LET p == Profile(log, a, h) IN
         /\ Sees(h)
         /\ row' = IF p = Absent THEN row ELSE [row EXCEPT ![a] = p]
         /\ nodes' = IF p = Absent THEN nodes ELSE [nodes EXCEPT ![a] = p]
  /\ UNCHANGED suspect

RemoveNode_RowOnly(a) ==
  /\ row' = [row EXCEPT ![a] = Absent]
  /\ UNCHANGED <<nodes, faults, suspect>>

\* remove_chain_node
RemoveNode(a) ==
  /\ row' = [row EXCEPT ![a] = Absent]
  /\ nodes' = [nodes EXCEPT ![a] = Absent]
  /\ UNCHANGED <<faults, suspect>>

\* The profile read or the write failed.  The write may have been made.
EventLost(b, a) ==
  /\ log[b] \in Event
  /\ Fault("rpc")
  /\ \/ UNCHANGED row
     \/ log[b].kind = "rem" /\ row' = [row EXCEPT ![a] = Absent]
     \/ /\ log[b].kind # "rem"
        /\ Member(log, a, tip)
        /\ row' = [row EXCEPT ![a] = Profile(log, a, tip)]
  /\ suspect' = suspect \cup {a}
  /\ UNCHANGED nodes

\* process_chain_event for the next event of the chunk
ApplyEvent(b) ==
  LET a == log[b].addr IN
  /\ pc = "apply"
  /\ b \in pending /\ \A c \in pending : b <= c
  /\ \/ log[b].kind \in {"reg", "prof"} /\ RefreshNode(a)
     \/ log[b].kind = "rem" /\ RemoveNode(a)
     \/ EventLost(b, a)
  /\ pending' = pending \ {b}
  /\ changed' = TRUE
  /\ UNCHANGED <<chainVars, ckpt, pc, phase, verified, superVars, replayVars,
                 syncVars, lastBlock, chunkEnd, mismatches, snapshot, undone>>

ChunkDone_EventsLeft == pc = "apply"

ChunkDone == pc = "apply" /\ pending = {}

\* The chunk is done; a checkpoint that cannot be saved is only logged.
SaveCheckpoint ==
  /\ ChunkDone
  /\ \/ ckpt' = chunkEnd /\ UNCHANGED faults
     \/ UNCHANGED ckpt /\ Fault("rpc")
  /\ lastBlock' = chunkEnd /\ chunkEnd' = 0
  /\ pc' = IF chunkEnd < target THEN "fetch" ELSE "tail"
  /\ UNCHANGED <<chainVars, row, nodes, phase, verified, superVars,
                 replayVars, syncVars, pending, changed, mismatches, snapshot,
                 ghostVars>>

ForcesResync_Once(m) == m >= MismatchesBeforeResync /\ floorUp /\ ~ forceFull

\* should_force_resync
ForcesResync(m) == m >= MismatchesBeforeResync /\ floorUp

\* The end of a round: verify_membership after a change, or once a minute.
CheckServed ==
  /\ pc = "tail"
  /\ \/ /\ Served = MembersAt(log, lastBlock)
        /\ mismatches' = 0 /\ verified' = "yes"
        /\ pc' = "poll"
        /\ UNCHANGED <<phase, forceFull, floorUp, plan, next, members, force>>
     \/ /\ Served # MembersAt(log, lastBlock)
        /\ mismatches' = IF mismatches < MismatchesBeforeResync
                         THEN mismatches + 1 ELSE mismatches
        /\ verified' = "no"
        /\ \/ /\ ~ ForcesResync(mismatches')
              /\ pc' = "poll"
              /\ UNCHANGED <<phase, forceFull, floorUp, plan, next, members, force>>
           \/ /\ ForcesResync(mismatches')
              /\ forceFull' = TRUE /\ force' = TRUE /\ floorUp' = FALSE
              /\ NoReplay
              /\ phase' = "Syncing" /\ pc' = "plan"
  /\ target' = 0
  /\ changed' = FALSE
  /\ UNCHANGED <<chainVars, dbVars, nodes, fullMismatches, checkAttempt, todo,
                 fresh, verdict, lastBlock, chunkEnd, pending, snapshot,
                 faults, ghostVars>>

\* Nothing changed and the last check is recent, or the check failed.
NoCheck ==
  /\ pc = "tail"
  /\ \/ ~ changed /\ UNCHANGED faults
     \/ Fault("rpc")
  /\ target' = 0
  /\ changed' = FALSE
  /\ pc' = "poll"
  /\ UNCHANGED <<chainVars, dbVars, nodes, phase, verified, superVars,
                 replayVars, checkAttempt, todo, fresh, verdict, lastBlock,
                 chunkEnd, pending, mismatches, snapshot, ghostVars>>

FloorPasses ==
  /\ ~ floorUp
  /\ floorUp' = TRUE
  /\ UNCHANGED <<chainVars, dbVars, pc, nodes, phase, verified, forceFull,
                 fullMismatches, replayVars, syncVars, liveVars, snapshot,
                 faults, ghostVars>>

------------------------------------------------------------------------------
(* handle_get_state fills an empty map from the database: one step reads   *)
(* the rows, a later one adds those that the map does not have.            *)

StateRequestReads ==
  /\ pc # "down" /\ Served = {} /\ snapshot = NoProfiles
  /\ Fault("read")
  /\ snapshot' = [a \in Addr |-> IF Here(a) THEN row[a] ELSE Absent]
  /\ UNCHANGED <<chainVars, dbVars, pc, nodes, phase, verified, superVars,
                 replayVars, syncVars, liveVars, ghostVars>>

StateRequestInserts ==
  /\ snapshot # NoProfiles
  /\ nodes' = [a \in Addr |-> IF nodes[a] = Absent THEN snapshot[a] ELSE nodes[a]]
  /\ suspect' = suspect \cup {a \in Addr : nodes[a] # nodes'[a]}
  /\ snapshot' = NoProfiles
  /\ UNCHANGED <<chainVars, dbVars, pc, phase, verified, superVars, replayVars,
                 syncVars, liveVars, faults, undone>>

------------------------------------------------------------------------------
Attempt ==
  \/ StartAttempt \/ TargetHead \/ ScanChunk
  \/ MembershipVerified \/ MembershipTolerated
  \/ ResumeDisagrees \/ FullReplayDisagrees \/ CheckFails
  \/ \E a \in Addr : ReadProfile(a)
  \/ ProfilesRead
  \/ \E a \in Addr : UpsertRow(a)
  \/ PruneRows \/ SetCheckpoint \/ Publish
  \/ AttemptFails \/ Retry

Follow ==
  \/ Poll \/ FetchChunk \/ FetchFails
  \/ \E b \in Block : ApplyEvent(b)
  \/ SaveCheckpoint \/ CheckServed \/ NoCheck

Environment ==
  \/ Mine \/ Reorg \/ Crash \/ ForeignRun \/ FloorPasses
  \/ StateRequestReads \/ StateRequestInserts

Next == Boot \/ Attempt \/ Follow \/ Environment

Spec == Init /\ [][Next]_vars

(* Time passes: the task is scheduled whenever it can go on, the process is *)
(* started again, the chain grows to its bound, the resync interval ends,  *)
(* and the minute between two checks does too, so a round that may check   *)
(* does so again and again.                                                *)
Fairness ==
  /\ WF_vars(Boot) /\ WF_vars(Attempt \/ Follow)
  /\ WF_vars(Mine) /\ WF_vars(FloorPasses) /\ WF_vars(StateRequestInserts)
  /\ SF_vars(CheckServed)

FairSpec == Spec /\ Fairness

------------------------------------------------------------------------------
(* Properties.                                                             *)

Profiles == SUBSET (0 .. MaxBlock)

\* The shape of the state: every variable keeps to its values, and the work
\* of an attempt only exists in the attempt.
TypeOK ==
  /\ log \in [Block -> Event \cup {Empty}] /\ tip \in 0 .. MaxBlock
  /\ row \in [Addr -> Profiles] /\ ckpt \in Nat \cup {NoCheckpoint}
  /\ pc \in {"down", "plan", "head", "scan", "check", "profiles", "upsert",
             "checkpoint", "publish", "backoff", "poll", "fetch", "apply", "tail"}
  /\ nodes \in [Addr -> Profiles]
  /\ phase \in {"Starting", "Syncing", "Retrying", "Live"}
  /\ verified \in {"unknown", "yes", "no"}
  /\ forceFull \in BOOLEAN /\ floorUp \in BOOLEAN /\ force \in BOOLEAN
  /\ fullMismatches \in 0 .. Tolerance
  /\ plan \in {"none", "full", "resume"} /\ next \in Nat
  /\ members \subseteq Addr
  /\ target \in Nat /\ checkAttempt \in 0 .. VerifyAttempts - 1
  /\ todo \subseteq Addr /\ fresh \in [Addr -> Profiles]
  /\ verdict \in {"unknown", "yes", "no"}
  /\ lastBlock \in Nat /\ chunkEnd \in 0 .. MaxBlock /\ pending \subseteq Block
  /\ changed \in BOOLEAN /\ mismatches \in 0 .. MismatchesBeforeResync
  /\ snapshot \in [Addr -> Profiles]
  /\ faults \in 0 .. MaxFaults
  /\ suspect \subseteq Addr /\ undone \subseteq Addr

\* Endpoints are no further behind than the confirmations cover, and return
\* every log of a range they answer for.
HonestEndpoints ==
  /\ Lag <= Confirmations
  /\ "truncate" \notin FaultKinds

NoEventAfter(a, b) == \A c \in b + 1 .. tip : log[c].addr # a

NoMembershipEventAfter(a, b) ==
  \A c \in b + 1 .. tip : log[c] \notin {Reg(a), Rem(a)}

\* The profile p held for a is the one a reader of block b may expect: a
\* member if a is one, unless its membership changed after b, and the
\* current profile unless it changed after b.
CurrentSince(p, a, b) ==
  /\ NoMembershipEventAfter(a, b) =>
       (p \notin {Absent, Foreign} <=> Member(log, a, tip))
  /\ NoEventAfter(a, b) => p = Profile(log, a, tip)

\* A restart that resumes after the checkpoint finds, for every address, the
\* rows as of the checkpoint or an event after it that repairs them, whatever
\* step the process stopped at; only an address a fault touched may differ.
CheckpointCoversRows ==
  HonestEndpoints /\ ckpt # NoCheckpoint =>
    \A a \in Addr \ suspect : CurrentSince(row[a], a, ckpt)

\* Once this process has synced, the served map holds, for every address no
\* fault touched, what the chain says up to last_block: nothing missed,
\* nothing applied twice or out of order, and no profile left stale.  That
\* goes for the time between two chunks of the live loop, and for a forced
\* resync with all its retries, until its result replaces the map.
ServedCoversEvents ==
  HonestEndpoints /\ verified # "unknown" /\ pc # "apply" =>
    \A a \in Addr \ suspect : CurrentSince(nodes[a], a, lastBlock)

\* S has the members at block b, but for addresses that a fault touched and
\* those whose membership has changed since.
MembersUpTo(S, b) ==
  \A a \in Addr \ suspect :
    NoMembershipEventAfter(a, b) => (a \in S <=> Member(log, a, b))

\* No false alarm.  What a resumed replay brings to the check is right although
\* it started from rows that may be ahead of the checkpoint and were written
\* one by one, what a full replay brings is right without exception, and so is
\* what the live loop checks at the end of a round: when one of the checks
\* disagrees, a fault or a change after the checked block is the reason.
AlarmsAreExplained ==
  HonestEndpoints =>
    /\ pc = "check" => MembersUpTo(members, target)
    /\ pc = "check" /\ plan = "full" => members = MembersAt(log, target)
    /\ pc = "tail" => MembersUpTo(Served, lastBlock)

\* A relayer whose membership has not changed since the blocks that the map is
\* about before and after a step, and that no fault touched, is neither dropped
\* from the map nor added to it by that step, be it an event of another relayer,
\* a profile read at a later head, or a resync that replaces the whole map as
\* of an earlier block.
MembersDoNotFlap ==
  [][ HonestEndpoints /\ verified # "unknown" /\ pc' # "down" =>
        \A a \in Addr \ (suspect \cup suspect') :
          NoMembershipEventAfter(a, lastBlock)
          /\ NoMembershipEventAfter(a, lastBlock') =>
            (nodes'[a] # Absent <=> nodes[a] # Absent) ]_vars

\* Only a replay from the deployment block moves the checkpoint back.  A
\* resumed sync and the live loop do not, although safe heads come from
\* endpoints that may be behind, a checkpoint write may fail and be made up
\* for later, and an attempt may end after its checkpoint and start again.
OnlyFullReplayRewinds == [][ckpt' < ckpt => plan = "full"]_vars

\* A sync that ends flagged verified puts in service exactly the members at
\* its block, but for members whose registration changed since and readings
\* a reorg took back, although the profiles were read later than the check,
\* and although logs were missing or the stored rows were another registry's.
VerifiedPublishIsExact ==
  [][ (Lag <= Confirmations /\ pc = "publish" /\ pc' = "poll" /\ verified' = "yes") =>
        \A a \in Addr \ suspect' :
          NoMembershipEventAfter(a, lastBlock') =>
            (nodes'[a] # Absent <=> Member(log, a, tip)) ]_vars

\* When faults cease, the indexer ends up live and verified, serving exactly
\* the registry's members, however often it was wrong, stopped or misled.
Converges ==
  <>[] /\ pc # "down" /\ phase = "Live" /\ verified = "yes"
       /\ Served = MembersAt(log, tip)

\* "Last block fully applied" (src/db.rs, get_checkpoint): every event up to
\* the checkpoint is in the rows, a failed database or chain call or not.
CheckpointFullyApplied ==
  pc = "poll" => \A a \in Addr : NoEventAfter(a, ckpt) => row[a] = Profile(log, a, tip)

=============================================================================
