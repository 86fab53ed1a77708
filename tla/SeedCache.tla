----------------------------- MODULE SeedCache -----------------------------
(***************************************************************************)
(* The chain-verified copy of the membership behind GET /seed/topology.    *)
(*                                                                         *)
(* One slot (state.seed_cache) holds the last copy that passed a check     *)
(* against the registry at one block. Three kinds of task renew it, one at *)
(* a time because they take turns on state.seed_refresh: a request that    *)
(* may not use the copy, a background refresh a request starts when the    *)
(* copy is ageing, and the warm loop. Meanwhile the chain task replaces    *)
(* the served members, moves last_block and bumps topology_version, three  *)
(* separate steps; a refresh reads them back as three separate reads, so   *)
(* every mixture of old and new is possible.                               *)
(*                                                                         *)
(* A node's profile is abstracted to the edition of the registry it comes  *)
(* from: a block either changes who is a member or edits somebody's        *)
(* profile, which starts a new edition.                                    *)
(***************************************************************************)
EXTENDS Integers, Sequences

CONSTANTS
    Nodes,        \* addresses that may be registered
    Requests,     \* requests to /seed/topology that may be in flight at once
    Ttl,          \* SEED_CACHE_TTL, in ticks
    StaleMax,     \* SEED_STALE_MAX, in ticks
    Warm,         \* SEED_WARM_SECS, in ticks
    MaxCheck,     \* bound: ticks an on-chain check of the members may take
    MaxBlock,     \* bound: blocks of the registry's history
    MaxFaults,    \* bound: failed reads of the chain
    NoCopy        \* the empty slot (None)

(* main.rs refuses a warm interval of zero or of the staleness bound or    *)
(* more; the two bounds of the cache are constants of the code.            *)
ASSUME BoundsAssumption ==
    /\ {Ttl, StaleMax, Warm, MaxCheck, MaxBlock, MaxFaults} \subseteq Nat
    /\ 0 < Ttl /\ Ttl < StaleMax
    /\ 0 < Warm /\ Warm < StaleMax
    /\ 0 < MaxBlock

(* "warm" is the warm loop, "background" the one refresh a request starts. *)
ASSUME NamesAssumption ==
    /\ {"warm", "background"} \cap Requests = {}
    /\ NoCopy \notin [block : Nat, version : Nat, members : SUBSET Nodes]

Tasks == Requests \union {"warm", "background"}
Blocks == 1 .. MaxBlock

VARIABLES
    registry,     \* what the contract holds at each block: members, edition
    members,      \* state.nodes, the keys that are not deregistered
    lastBlock,    \* sync.last_block; 0 stands for None
    version,      \* state.topology_version
    live,         \* the chain task: where it is, whether it owes a bump
    cache,        \* state.seed_cache
    age,          \* ticks since the cached copy was built, up to StaleMax
    turn,         \* the queue on state.seed_refresh; its head holds it
    check,        \* what the holder of the turn has read so far
    request,      \* each request: where it is, what it has read
    warmIn,       \* ticks to the warm loop's next tick
    faults,       \* failed reads so far
    spread,       \* history: member sets the map held since the last bump
    missed        \* history: a refresh has failed since the copy was built

chainVars == <<registry, members, lastBlock, version, live, spread>>
cacheVars == <<cache, age, turn, check, missed>>
vars == <<registry, members, lastBlock, version, live, cache, age, turn,
          check, request, warmIn, faults, spread, missed>>

Copies == [block : Blocks, version : Nat, members : SUBSET Nodes]
Head1 == Len(registry)
Holder == Head(turn)
Queued(task) == \E i \in 1 .. Len(turn) : turn[i] = task

NotChecking == [at |-> "none", block |-> 0, version |-> 0, members |-> {},
                elapsed |-> 0]
Unasked == [at |-> "idle", version |-> 0, copy |-> NoCopy, age |-> 0]

ChainTypes ==
    /\ registry \in Seq([members : SUBSET Nodes, edition : Nat])
    /\ Head1 \in Blocks
    /\ members \in SUBSET Nodes
    /\ lastBlock \in 0 .. Head1
    /\ version \in Nat
    /\ live \in [at : {"sync", "replaced", "marked", "poll", "applied"},
                 block : 0 .. Head1, changed : BOOLEAN]
    /\ spread \in SUBSET SUBSET Nodes

CacheTypes ==
    /\ cache \in Copies \union {NoCopy}
    /\ age \in 0 .. StaleMax
    /\ turn \in Seq(Tasks)
    /\ check \in [at : {"none", "turn", "block", "version", "members", "chain"},
                  block : 0 .. MaxBlock, version : Nat, members : SUBSET Nodes,
                  elapsed : 0 .. MaxCheck]
    /\ missed \in BOOLEAN

RequestTypes ==
    request \in [Requests ->
        [at : {"idle", "asked", "queued", "fresh", "stale", "verified",
               "fallback", "refused"},
         version : Nat, copy : Copies \union {NoCopy}, age : 0 .. StaleMax]]

TypeOK == /\ ChainTypes
          /\ CacheTypes
          /\ RequestTypes
          /\ warmIn \in 0 .. Warm
          /\ faults \in 0 .. MaxFaults

-----------------------------------------------------------------------------
(* The chain and the task that follows it.                                 *)

(* A block registers or removes one node, or edits a profile.              *)
Mine ==
    /\ Head1 < MaxBlock
    /\ \E next \in
           {[members |-> m, edition |-> registry[Head1].edition] :
                m \in {registry[Head1].members \union {n} : n \in Nodes}
                      \union {registry[Head1].members \ {n} : n \in Nodes}}
           \union {[members |-> registry[Head1].members,
                    edition |-> registry[Head1].edition + 1]} :
           /\ next # registry[Head1]
           /\ registry' = Append(registry, next)
    /\ UNCHANGED <<members, lastBlock, version, live, spread,
                   cacheVars, request, warmIn, faults>>

(* reconcile_membership at a replay's target: members that have left since *)
(* are dropped, because profiles are read at the newest block.             *)
Reconcile ==
    /\ live.at = "sync"
    /\ \E target \in 1 .. Head1 :
           /\ members' = registry[target].members \intersect registry[Head1].members
           /\ live' = [at |-> "replaced", block |-> target, changed |-> TRUE]
    /\ spread' = spread \union {members'}
    /\ UNCHANGED <<registry, lastBlock, version, cacheVars, request,
                   warmIn, faults>>

(* mark_synced, after the map is replaced.                                 *)
MarkSynced ==
    /\ live.at = "replaced"
    /\ lastBlock' = live.block
    /\ live' = [live EXCEPT !.at = "marked", !.block = 0]
    /\ UNCHANGED <<registry, members, version, spread, cacheVars,
                   request, warmIn, faults>>

(* One block's events, applied to the map. A node is inserted only if its  *)
(* profile can be read now, so one that has left again is not, and one     *)
(* whose read or write fails is not either.                                *)
Gained(b) == registry[b].members \ registry[b - 1].members
Lost(b) == registry[b - 1].members \ registry[b].members

Apply ==
    /\ live.at = "poll"
    /\ lastBlock < Head1
    /\ \/ /\ members' = (members \union (Gained(lastBlock + 1)
                                            \intersect registry[Head1].members))
                        \ Lost(lastBlock + 1)
          /\ faults' = faults
       \/ /\ faults < MaxFaults
          /\ faults' = faults + 1
          /\ members' = members
    /\ live' = [at |-> "applied", block |-> lastBlock + 1, changed |-> TRUE]
    /\ spread' = spread \union {members'}
    /\ UNCHANGED <<registry, lastBlock, version, cacheVars, request,
                   warmIn>>

(* What would go wrong: the block after the last one read.                 *)
Advance_PastEnd ==
    /\ live.at = "applied"
    /\ lastBlock' = live.block + 1
    /\ live' = [live EXCEPT !.at = "poll", !.block = 0]
    /\ UNCHANGED <<registry, members, version, spread, cacheVars,
                   request, warmIn, faults>>

Advance ==
    /\ live.at = "applied"
    /\ lastBlock' = live.block
    /\ live' = [live EXCEPT !.at = "poll", !.block = 0]
    /\ UNCHANGED <<registry, members, version, spread, cacheVars,
                   request, warmIn, faults>>

(* At the end of the pass, or of the reconcile.                            *)
Bump ==
    /\ live.at \in {"poll", "marked"}
    /\ live.changed
    /\ version' = version + 1
    /\ live' = [live EXCEPT !.at = "poll", !.changed = FALSE]
    /\ spread' = {members}
    /\ UNCHANGED <<registry, members, lastBlock, cacheVars, request, warmIn,
                   faults>>

(* Two periodic checks in a row find the map in disagreement with the      *)
(* registry at last_block, so not one that blocks already mined settle:    *)
(* the loop ends and the supervisor replays everything.                    *)
Drifted ==
    /\ live.at = "poll"
    /\ ~live.changed
    /\ lastBlock = Head1
    /\ members # registry[lastBlock].members
    /\ live' = [live EXCEPT !.at = "sync"]
    /\ UNCHANGED <<registry, members, lastBlock, version, spread,
                   cacheVars, request, warmIn, faults>>

-----------------------------------------------------------------------------
(* The cached copy.                                                        *)

Current(copy, v) == copy # NoCopy /\ copy.version = v

(* What would go wrong: an ageing copy counts as fresh, or any copy does.  *)
UseOf_FreshTillStale(copy, copyAge, v) ==
    IF Current(copy, v) /\ copyAge < StaleMax THEN "fresh" ELSE "rebuild"

UseOf_NeverAges(copy, copyAge, v) ==
    IF Current(copy, v) THEN "fresh" ELSE "rebuild"

(* What would go wrong: a copy of another membership is used like any.     *)
UseOf_AnyMembership(copy, copyAge, v) ==
    IF copy = NoCopy \/ copyAge >= StaleMax THEN "rebuild"
    ELSE IF copyAge < Ttl THEN "fresh" ELSE "stale"

(* seed_cache_use: a copy of another membership, or one as old as the      *)
(* bound, has to be rebuilt.                                               *)
UseOf(copy, copyAge, v) ==
    IF ~Current(copy, v) THEN "rebuild"
    ELSE IF copyAge < Ttl THEN "fresh"
    ELSE IF copyAge < StaleMax THEN "stale"
    ELSE "rebuild"

(* A task joins the queue on seed_refresh; tokio's mutex is first come,    *)
(* first served. Whoever finds it free starts at once.                     *)
Joined(task) == Append(turn, task)
Begun(queue) ==
    IF queue = <<>> THEN NotChecking ELSE [NotChecking EXCEPT !.at = "turn"]
Without(queue, task) ==
    [i \in 1 .. Len(queue) - 1 |->
        IF \A j \in 1 .. i : queue[j] # task THEN queue[i] ELSE queue[i + 1]]

(* The clone of the slot a request took, and what it answers with.         *)
Reply(r, at, copy, copyAge) ==
    [request EXCEPT ![r] = [at |-> at, version |-> request[r].version,
                            copy |-> copy, age |-> copyAge]]

(* pinned_seed_members: the version is read before the slot.               *)
Ask(r) ==
    /\ request[r].at \notin {"asked", "queued"}
    /\ request' = [request EXCEPT ![r] =
                      [at |-> "asked", version |-> version, copy |-> NoCopy,
                       age |-> 0]]
    /\ UNCHANGED <<chainVars, cacheVars, warmIn, faults>>

AnswerFresh(r) ==
    /\ request[r].at = "asked"
    /\ UseOf(cache, age, request[r].version) = "fresh"
    /\ request' = Reply(r, "fresh", cache, age)
    /\ UNCHANGED <<chainVars, cacheVars, warmIn, faults>>

(* The ageing copy is served, and one background refresh started unless a  *)
(* refresh is running (try_lock).                                          *)
AnswerStale(r) ==
    /\ request[r].at = "asked"
    /\ UseOf(cache, age, request[r].version) = "stale"
    /\ request' = Reply(r, "stale", cache, age)
    /\ IF turn = <<>>
       THEN /\ turn' = <<"background">>
            /\ check' = [NotChecking EXCEPT !.at = "block"]
       ELSE UNCHANGED <<turn, check>>
    /\ UNCHANGED <<chainVars, cache, age, missed, warmIn, faults>>

(* The request keeps the copy it may not use, to fall back on.             *)
AwaitRebuild(r) ==
    /\ request[r].at = "asked"
    /\ UseOf(cache, age, request[r].version) = "rebuild"
    /\ request' = Reply(r, "queued", cache, IF cache = NoCopy THEN 0 ELSE age)
    /\ turn' = Joined(r)
    /\ check' = IF turn = <<>> THEN Begun(turn') ELSE check
    /\ UNCHANGED <<chainVars, cache, age, missed, warmIn, faults>>

(* seed_warm_loop: a tick is skipped until the first sync has completed.   *)
WarmTick ==
    /\ warmIn = 0
    /\ ~Queued("warm")
    /\ warmIn' = Warm
    /\ IF lastBlock = 0
       THEN UNCHANGED <<turn, check>>
       ELSE /\ turn' = Joined("warm")
            /\ check' = IF turn = <<>> THEN Begun(turn') ELSE check
    /\ UNCHANGED <<chainVars, cache, age, missed, request, faults>>

-----------------------------------------------------------------------------
(* A refresh. Its steps are the holder's; when it ends, the next task in   *)
(* the queue has the turn.                                                 *)

(* What would go wrong: the next task in the queue is not woken.           *)
Passed_NobodyNext == turn' = Tail(turn) /\ check' = NotChecking

Passed == /\ turn' = Tail(turn)
          /\ check' = Begun(Tail(turn))

(* What becomes of the holder when its refresh returns a copy.             *)
Delivered(copy, copyAge) ==
    request' = IF Holder \in Requests
               THEN Reply(Holder, "verified", copy, copyAge)
               ELSE request

(* ... and when it returns an error: the copy read before the wait is      *)
(* served if it is still young enough, even for another membership.        *)
Failed ==
    /\ request' =
           IF Holder \notin Requests THEN request
           ELSE LET held == request[Holder]
                IN  IF held.copy # NoCopy /\ held.age < StaleMax
                    THEN Reply(Holder, "fallback", held.copy, held.age)
                    ELSE Reply(Holder, "refused", NoCopy, 0)
    /\ missed' = TRUE
    /\ Passed

(* refresh_seed_cache, once the turn is had: another task may have stored  *)
(* a copy for the present version meanwhile.                               *)
FoundFresh ==
    /\ check.at = "turn"
    /\ UseOf(cache, age, version) = "fresh"
    /\ Delivered(cache, age)
    /\ Passed
    /\ UNCHANGED <<chainVars, cache, age, missed, warmIn, faults>>

NotFresh ==
    /\ check.at = "turn"
    /\ UseOf(cache, age, version) # "fresh"
    /\ check' = [check EXCEPT !.at = "block"]
    /\ UNCHANGED <<chainVars, cache, age, turn, missed, request, warmIn, faults>>

(* verify_seed_members reads last_block, then topology_version, then the   *)
(* members: each may be of a later moment than the one before.             *)
ReadBlock ==
    /\ check.at = "block"
    /\ IF lastBlock = 0
       THEN Failed
       ELSE /\ check' = [check EXCEPT !.at = "version", !.block = lastBlock]
            /\ UNCHANGED <<turn, missed, request>>
    /\ UNCHANGED <<chainVars, cache, age, warmIn, faults>>

ReadVersion ==
    /\ check.at = "version"
    /\ check' = [check EXCEPT !.at = "members", !.version = version]
    /\ UNCHANGED <<chainVars, cache, age, turn, missed, request, warmIn, faults>>

ReadMembers ==
    /\ check.at = "members"
    /\ IF members = {}
       THEN Failed
       ELSE /\ check' = [check EXCEPT !.at = "chain", !.members = members]
            /\ UNCHANGED <<turn, missed, request>>
    /\ UNCHANGED <<chainVars, cache, age, warmIn, faults>>

(* pinned_topology_members: count and fingerprint of the members against   *)
(* the registry at the block, then each profile at that block.             *)
PinnedAt(block, set) == set = registry[block].members

(* What would go wrong: the check is skipped; the copy is stamped with the *)
(* version of the moment it is stored.                                     *)
Verified_Unchecked ==
    /\ check.at = "chain"
    /\ cache' = [block |-> check.block, version |-> check.version,
                 members |-> check.members]
    /\ age' = 0
    /\ missed' = FALSE
    /\ Delivered(cache', 0)
    /\ Passed
    /\ UNCHANGED <<chainVars, warmIn, faults>>

Verified_VersionNow ==
    /\ check.at = "chain"
    /\ PinnedAt(check.block, check.members)
    /\ cache' = [block |-> check.block, version |-> version,
                 members |-> check.members]
    /\ age' = 0
    /\ missed' = FALSE
    /\ Delivered(cache', 0)
    /\ Passed
    /\ UNCHANGED <<chainVars, warmIn, faults>>

Verified ==
    /\ check.at = "chain"
    /\ PinnedAt(check.block, check.members)
    /\ cache' = [block |-> check.block, version |-> check.version,
                 members |-> check.members]
    /\ age' = 0
    /\ missed' = FALSE
    /\ Delivered(cache', 0)
    /\ Passed
    /\ UNCHANGED <<chainVars, warmIn, faults>>

Rejected ==
    /\ check.at = "chain"
    /\ ~PinnedAt(check.block, check.members)
    /\ Failed
    /\ UNCHANGED <<chainVars, cache, age, warmIn, faults>>

ChainFails ==
    /\ check.at = "chain"
    /\ faults < MaxFaults
    /\ faults' = faults + 1
    /\ Failed
    /\ UNCHANGED <<chainVars, cache, age, warmIn>>

(* The client goes away: its handler is dropped at whatever it awaits, and *)
(* a turn it holds or waits for is given up.                               *)
Abandon(r) ==
    /\ request[r].at \in {"asked", "queued"}
    /\ request' = [request EXCEPT ![r] = Unasked]
    /\ \/ ~Queued(r) /\ UNCHANGED <<turn, check, missed>>
       \/ Queued(r) /\ Holder = r /\ Passed /\ missed' = TRUE
       \/ /\ Queued(r) /\ Holder # r
          /\ turn' = Without(turn, r)
          /\ UNCHANGED <<check, missed>>
    /\ UNCHANGED <<chainVars, cache, age, warmIn, faults>>

-----------------------------------------------------------------------------
(* One tick of the clock. A task that is not waiting for the chain runs    *)
(* within the tick, a check takes at most MaxCheck of them, and the warm   *)
(* loop's timer is not late.                                               *)
Older(a) == IF a < StaleMax THEN a + 1 ELSE a

Tick ==
    /\ \/ turn = <<>>
       \/ check.at = "chain" /\ check.elapsed < MaxCheck
    /\ warmIn > 0 \/ Queued("warm")
    /\ age' = IF cache = NoCopy THEN age ELSE Older(age)
    /\ check' = IF turn = <<>> THEN check
                ELSE [check EXCEPT !.elapsed = check.elapsed + 1]
    /\ warmIn' = IF warmIn = 0 THEN 0 ELSE warmIn - 1
    /\ request' = [r \in Requests |->
                      IF request[r].at = "queued" /\ request[r].copy # NoCopy
                      THEN [request[r] EXCEPT !.age = Older(request[r].age)]
                      ELSE request[r]]
    /\ UNCHANGED <<chainVars, cache, turn, missed, faults>>

-----------------------------------------------------------------------------
Init ==
    /\ registry \in {<<[members |-> m, edition |-> 0]>> : m \in SUBSET Nodes}
    /\ members \in SUBSET Nodes
    /\ lastBlock = 0 /\ version = 0
    /\ live = [at |-> "sync", block |-> 0, changed |-> FALSE]
    /\ cache = NoCopy /\ age = 0
    /\ turn = <<>> /\ check = NotChecking
    /\ request = [r \in Requests |-> Unasked]
    /\ warmIn = 0 /\ faults = 0
    /\ spread = {members} /\ missed = FALSE

ChainTask == Reconcile \/ MarkSynced \/ Apply \/ Advance \/ Bump \/ Drifted
Answer(r) == AnswerFresh(r) \/ AnswerStale(r) \/ AwaitRebuild(r)
Refresh == \/ FoundFresh \/ NotFresh
           \/ ReadBlock \/ ReadVersion \/ ReadMembers
           \/ Verified \/ Rejected \/ ChainFails

Next ==
    \/ Mine
    \/ Reconcile \/ MarkSynced \/ Apply \/ Advance \/ Bump \/ Drifted
    \/ \E r \in Requests : \/ Ask(r) \/ Abandon(r)
                           \/ AnswerFresh(r) \/ AnswerStale(r) \/ AwaitRebuild(r)
    \/ WarmTick
    \/ FoundFresh \/ NotFresh
    \/ ReadBlock \/ ReadVersion \/ ReadMembers
    \/ Verified \/ Rejected \/ ChainFails
    \/ Tick

Spec == Init /\ [][Next]_vars

(* The runtime keeps running every task that can run, and time passes.     *)
(* Nothing is assumed of the contract or of the clients.                   *)
FairSpec ==
    /\ Spec
    /\ WF_vars(ChainTask)
    /\ WF_vars(Refresh)
    /\ WF_vars(WarmTick)
    /\ SF_vars(Tick)
    /\ \A r \in Requests : WF_vars(Answer(r))

-----------------------------------------------------------------------------
(* Whatever is served passed the check at its own block, and is younger    *)
(* than the staleness bound when it is chosen, also when the request       *)
(* waited for a refresh that then failed.                                  *)
ServedSound ==
    \A r \in Requests :
        request[r].at \in {"fresh", "stale", "verified", "fallback"} =>
            /\ PinnedAt(request[r].copy.block, request[r].copy.members)
            /\ request[r].age < StaleMax

(* A copy that counts as current lists the members the map held at the     *)
(* last announcement or since: a node whose removal was announced is not   *)
(* served from it. The refresh reads the version before the members, and   *)
(* the chain task changes the members before the version.                  *)
CurrentCopyIsRecent == Current(cache, version) => cache.members \in spread

(* A request is never answered with a copy of an older membership than the *)
(* one announced when it asked, however long it waited for its turn and    *)
(* whoever renewed the copy meanwhile, unless its refresh failed and the   *)
(* copy it held is what it falls back on.                                  *)
AnswersAreRecent ==
    \A r \in Requests :
        request[r].at \in {"fresh", "stale", "verified"} =>
            request[r].copy.version >= request[r].version

(* As long as no refresh fails, the warm loop alone keeps the copy below   *)
(* the staleness bound (doc of seed_warm_loop).                            *)
WarmKeepsYoung == cache # NoCopy /\ ~missed => age < StaleMax

(* Every request that is not given up is answered: nobody waits for ever   *)
(* on seed_refresh.                                                        *)
Answered ==
    \A r \in Requests :
        request[r].at \in {"asked", "queued"} ~>
            request[r].at \notin {"asked", "queued"}

(* When the registry comes to rest with somebody in it, the cache ends up  *)
(* holding its last state, profiles included, whether or not anybody asks. *)
LatestCached ==
    <>[](\/ registry[Head1].members = {}
         \/ cache # NoCopy /\ registry[cache.block] = registry[Head1])

=============================================================================
