--------------------------- MODULE SeedCacheProofs ---------------------------
(***************************************************************************)
(* Theorems about SeedCache, for any nodes, requests and bounds: whatever  *)
(* is served was verified and is young enough, a copy that counts as       *)
(* current lists the members of the last announcement or later, a request  *)
(* is answered with a membership no older than the one it saw, and the     *)
(* warm loop keeps the copy below the staleness bound.                     *)
(***************************************************************************)
EXTENDS SeedCache, TLAPS

(* A copy that passed the check at its block.                              *)
Sound(copy) == copy.block \in 1 .. Head1 /\ PinnedAt(copy.block, copy.members)

(* The part about the copies: the slot's, and those that requests hold.    *)
SlotSound == cache # NoCopy => Sound(cache)
HeldSound ==
    \A r \in Requests :
        /\ request[r].copy # NoCopy => Sound(request[r].copy)
        /\ request[r].at \in {"fresh", "stale", "verified", "fallback"} =>
               request[r].copy # NoCopy /\ request[r].age < StaleMax

(* The part about the holder of the turn and what it has read.             *)
HolderReads ==
    /\ turn = <<>> <=> check.at = "none"
    /\ check.at \in {"version", "members", "chain"} => check.block \in 1 .. Head1

(* The part about versions: none is ahead of the counter, and what is      *)
(* stamped with the present one was read since it was announced.           *)
VersionsTell ==
    /\ members \in spread
    /\ cache # NoCopy => cache.version <= version
    /\ check.at \in {"members", "chain"} => check.version <= version
    /\ Current(cache, version) => cache.members \in spread
    /\ check.at = "chain" /\ check.version = version => check.members \in spread

IInv == TypeOK /\ SlotSound /\ HeldSound /\ HolderReads /\ VersionsTell

-----------------------------------------------------------------------------
LEMMA InitTypes == Init => TypeOK
<1> SUFFICES ASSUME Init PROVE TypeOK OBVIOUS
<1>1. \E m \in SUBSET Nodes : registry = <<[members |-> m, edition |-> 0]>>
  BY DEF Init
<1>2. Head1 = 1 /\ registry \in Seq([members : SUBSET Nodes, edition : Nat])
  BY <1>1 DEF Head1
<1>3. ChainTypes
  BY <1>2, BoundsAssumption DEF Init, ChainTypes, Blocks
<1>4. CacheTypes
  <2>1. /\ {0, age} \subseteq 0 .. StaleMax
        /\ 0 \in 0 .. MaxBlock /\ 0 \in 0 .. MaxCheck /\ 0 \in Nat
    BY BoundsAssumption DEF Init
  <2>2. cache = NoCopy /\ turn \in Seq(Tasks)
    BY DEF Init
  <2>3. missed \in BOOLEAN BY DEF Init
  <2>4. check = NotChecking BY DEF Init
  <2>5. check \in [at : {"none", "turn", "block", "version", "members", "chain"},
                  block : 0 .. MaxBlock, version : Nat, members : SUBSET Nodes,
                  elapsed : 0 .. MaxCheck]
    BY <2>1, <2>4 DEF NotChecking
  <2> QED BY <2>1, <2>2, <2>3, <2>5 DEF CacheTypes
<1>5. RequestTypes
  BY BoundsAssumption DEF Init, RequestTypes, Unasked
<1> QED BY <1>3, <1>4, <1>5, BoundsAssumption DEF Init, TypeOK

LEMMA InitIInv == Init => IInv
<1> SUFFICES ASSUME Init PROVE IInv OBVIOUS
<1>1. SlotSound /\ HolderReads /\ VersionsTell
  BY DEF Init, SlotSound, HolderReads, VersionsTell, NotChecking, Current
<1>2. HeldSound BY DEF Init, HeldSound, Unasked
<1> QED BY <1>1, <1>2, InitTypes DEF IInv

(* Taking a task out of the queue, and passing the turn on.                *)
LEMMA WithoutType ==
    ASSUME NEW S, NEW q \in Seq(S), NEW t
    PROVE  Without(q, t) \in Seq(S)
<1>1. CASE q = <<>>
  <2>1. Len(q) - 1 = -1 BY <1>1
  <2> QED BY <2>1 DEF Without
<1>2. CASE q # <<>>
  <2>1. Len(q) \in Nat /\ Len(q) - 1 \in Nat BY <1>2
  <2>2. \A i \in 1 .. Len(q) - 1 : q[i] \in S /\ q[i + 1] \in S BY <2>1
  <2> QED BY <2>1, <2>2 DEF Without
<1> QED BY <1>1, <1>2

LEMMA WithoutOther ==
    ASSUME NEW S, NEW q \in Seq(S), NEW t, q # <<>>, Head(q) # t,
           NEW i \in 1 .. Len(q), q[i] = t
    PROVE  Without(q, t) # <<>>
<1>1. Len(q) - 1 \in Nat /\ Len(q) - 1 # 0
  OBVIOUS
<1>2. Len(Without(q, t)) = Len(q) - 1
  BY <1>1 DEF Without
<1> QED
  BY <1>1, <1>2

-----------------------------------------------------------------------------
(* A step of the chain or of the chain task: blocks are never rewritten,   *)
(* and a new version starts the record of member sets anew.                *)
LEMMA ChainKeeps ==
    ASSUME IInv, ChainTypes', UNCHANGED <<cacheVars, request, warmIn>>,
           faults' \in 0 .. MaxFaults,
           Head1 <= Head1', \A b \in 1 .. Head1 : registry'[b] = registry[b],
           members' \in spread',
           \/ version' = version /\ spread \subseteq spread'
           \/ version < version'
    PROVE  IInv'
<1> USE DEF IInv
<1>0. Head1 \in Nat /\ Head1' \in Nat /\ version \in Nat /\ version' \in Nat
  BY DEF TypeOK, ChainTypes, Blocks
<1>1. \A copy : Sound(copy) => Sound(copy)'
  <2> SUFFICES ASSUME NEW copy, Sound(copy) PROVE Sound(copy)' OBVIOUS
  <2>1. copy.block \in 1 .. Head1' /\ registry'[copy.block] = registry[copy.block]
    BY <1>0 DEF Sound
  <2> QED BY <2>1 DEF Sound, PinnedAt
<1>2. TypeOK'
  BY DEF TypeOK, CacheTypes, RequestTypes, cacheVars
<1>3. SlotSound' BY <1>1 DEF SlotSound, cacheVars, Sound
<1>4. HeldSound'
  <2> SUFFICES ASSUME NEW r \in Requests
      PROVE /\ request'[r].copy # NoCopy => Sound(request[r].copy)'
            /\ request'[r].at \in {"fresh", "stale", "verified", "fallback"} =>
                 request'[r].copy # NoCopy /\ request'[r].age < StaleMax
    BY DEF HeldSound, Sound
  <2> QED BY <1>1 DEF HeldSound
<1>5. HolderReads' BY <1>0 DEF HolderReads, cacheVars
<1>6. VersionsTell'
  <2>1. cache' = cache /\ check' = check BY DEF cacheVars
  <2>2. cache # NoCopy => cache.version \in Nat
    BY DEF TypeOK, CacheTypes, Copies
  <2>3. check.version \in Nat BY DEF TypeOK, CacheTypes
  <2> QED BY <1>0, <2>1, <2>2, <2>3 DEF VersionsTell, Current
<1> QED BY <1>2, <1>3, <1>4, <1>5, <1>6

LEMMA ElementOf ==
    ASSUME NEW S, NEW s \in Seq(S), NEW i \in 1 .. Len(s) PROVE s[i] \in S
  OBVIOUS

LEMMA LiveSet ==
    ASSUME ChainTypes, NEW at \in {"marked", "poll"}, NEW changed \in BOOLEAN,
           live' = [live EXCEPT !.at = at, !.block = 0, !.changed = changed],
           registry' = registry
    PROVE  live' \in [at : {"sync", "replaced", "marked", "poll", "applied"},
                      block : 0 .. Head1', changed : BOOLEAN]
<1>1. 0 \in 0 .. Head1' /\ Head1' = Head1
  BY BoundsAssumption DEF ChainTypes, Blocks, Head1
<1>2. live' = [at |-> at, block |-> 0, changed |-> changed]
  BY DEF ChainTypes
<1> QED BY <1>1, <1>2

(* The history only grows at its end.                                      *)
LEMMA MineKeeps == IInv /\ Mine => IInv'
<1> SUFFICES ASSUME IInv, Mine PROVE IInv' OBVIOUS
<1> DEFINE B == [members : SUBSET Nodes, edition : Nat]
<1>1. registry \in Seq(B) /\ Head1 \in Nat /\ Head1 >= 1 /\ Len(registry) = Head1
  BY DEF IInv, TypeOK, ChainTypes, Blocks, Head1
<1>2. registry[Head1] \in B
  <2> HIDE DEF B
  <2> QED BY <1>1, ElementOf
<1>3. PICK next : next \in B /\ registry' = Append(registry, next)
  BY <1>2 DEF Mine
<1>4. Head1' = Head1 + 1 /\ registry' \in Seq(B)
      /\ \A b \in 1 .. Head1 : registry'[b] = registry[b]
  BY <1>1, <1>3 DEF Head1
<1>5. ChainTypes'
  BY <1>1, <1>4, BoundsAssumption DEF IInv, TypeOK, ChainTypes, Blocks, Mine
<1> QED
  BY <1>1, <1>4, <1>5, ChainKeeps DEF Mine, IInv, TypeOK, VersionsTell

LEMMA ChainTaskKeeps == IInv /\ ChainTask => IInv'
<1> SUFFICES ASSUME IInv, ChainTask PROVE IInv' OBVIOUS
<1> USE DEF IInv, TypeOK
<1>0. /\ registry \in Seq([members : SUBSET Nodes, edition : Nat])
      /\ Head1 \in Nat /\ Head1 >= 1 /\ Len(registry) = Head1
      /\ version \in Nat /\ faults \in Nat /\ MaxFaults \in Nat
  BY BoundsAssumption DEF ChainTypes, Blocks, Head1
<1>m. \A b \in 1 .. Head1 : registry[b].members \in SUBSET Nodes
  <2> DEFINE B == [members : SUBSET Nodes, edition : Nat]
  <2>1. \A b \in 1 .. Head1 : registry[b] \in B
    <3> HIDE DEF B
    <3> QED BY <1>0, ElementOf DEF B
  <2> QED BY <2>1
<1>l. live.block \in 0 .. Head1 BY DEF ChainTypes
<1>c. live.changed \in BOOLEAN BY DEF ChainTypes
<1>1. CASE Reconcile
  <2>1. PICK target \in 1 .. Head1 :
           /\ members' = registry[target].members \intersect registry[Head1].members
           /\ live' = [at |-> "replaced", block |-> target, changed |-> TRUE]
    BY <1>1 DEF Reconcile
  <2>2. members' \in SUBSET Nodes BY <1>0, <1>m, <2>1
  <2>3. ChainTypes' BY <1>0, <1>1, <2>1, <2>2 DEF Reconcile, ChainTypes, Head1
  <2> QED BY <1>0, <1>1, <2>3, ChainKeeps DEF Reconcile, Head1
<1>2. CASE MarkSynced
  <2>1. live' = [live EXCEPT !.at = "marked", !.block = 0, !.changed = live.changed]
    BY <1>2 DEF MarkSynced, ChainTypes
  <2>2. live' \in [at : {"sync", "replaced", "marked", "poll", "applied"},
                   block : 0 .. Head1', changed : BOOLEAN]
    BY <1>2, <1>c, <2>1, LiveSet DEF MarkSynced
  <2>3. ChainTypes' BY <1>0, <1>l, <1>2, <2>2 DEF MarkSynced, ChainTypes, Head1
  <2> QED BY <1>0, <1>2, <2>3, ChainKeeps DEF MarkSynced, Head1, VersionsTell
<1>3. CASE Apply
  <2>1. members' \in SUBSET Nodes
    BY <1>0, <1>m, <1>3 DEF Apply, ChainTypes, Gained
  <2>2. lastBlock + 1 \in 0 .. Head1 BY <1>0, <1>3 DEF Apply, ChainTypes
  <2>3. ChainTypes' BY <1>0, <1>3, <2>1, <2>2 DEF Apply, ChainTypes, Head1
  <2>4. faults' \in 0 .. MaxFaults BY <1>0, <1>3 DEF Apply
  <2> QED BY <1>0, <1>3, <2>3, <2>4, ChainKeeps DEF Apply, Head1
<1>4. CASE Advance
  <2>1. live' = [live EXCEPT !.at = "poll", !.block = 0, !.changed = live.changed]
    BY <1>4 DEF Advance, ChainTypes
  <2>2. live' \in [at : {"sync", "replaced", "marked", "poll", "applied"},
                   block : 0 .. Head1', changed : BOOLEAN]
    BY <1>4, <1>c, <2>1, LiveSet DEF Advance
  <2>3. ChainTypes' BY <1>0, <1>l, <1>4, <2>2 DEF Advance, ChainTypes, Head1
  <2> QED BY <1>0, <1>4, <2>3, ChainKeeps DEF Advance, Head1, VersionsTell
<1>5. CASE Bump
  <2>1. live' = [at |-> "poll", block |-> live.block, changed |-> FALSE]
    BY <1>5 DEF Bump, ChainTypes
  <2>2. live' \in [at : {"sync", "replaced", "marked", "poll", "applied"},
                   block : 0 .. Head1', changed : BOOLEAN]
    BY <1>l, <1>5, <2>1 DEF Bump, Head1
  <2>3. ChainTypes' BY <1>0, <1>5, <2>2 DEF Bump, ChainTypes, Head1
  <2> QED BY <1>0, <1>5, <2>3, ChainKeeps DEF Bump, Head1
<1>6. CASE Drifted
  <2>1. ChainTypes' BY <1>0, <1>6 DEF Drifted, ChainTypes, Head1
  <2> QED BY <1>0, <1>6, <2>1, ChainKeeps DEF Drifted, Head1, VersionsTell
<1> QED BY <1>1, <1>2, <1>3, <1>4, <1>5, <1>6 DEF ChainTask

-----------------------------------------------------------------------------
(* Steps of the requests and of the refresh leave the chain alone.         *)
CheckSet == [at : {"none", "turn", "block", "version", "members", "chain"},
             block : 0 .. MaxBlock, version : Nat, members : SUBSET Nodes,
             elapsed : 0 .. MaxCheck]
Served == {"fresh", "stale", "verified", "fallback"}
Stations == {"idle", "asked", "queued", "refused"} \union Served

LEMMA SoundKeeps ==
    ASSUME UNCHANGED chainVars, NEW copy, Sound(copy) PROVE Sound(copy)'
  BY DEF Sound, PinnedAt, Head1, chainVars

LEMMA SlotCopy ==
    ASSUME IInv
    PROVE  /\ cache \in Copies \union {NoCopy} /\ age \in 0 .. StaleMax
           /\ cache # NoCopy => Sound(cache)
  BY DEF IInv, TypeOK, CacheTypes, SlotSound

(* One request's record is replaced.                                       *)
LEMMA RecordKeeps ==
    ASSUME IInv, UNCHANGED chainVars, NEW r \in Requests,
           NEW at \in Stations, NEW v \in Nat,
           NEW copy \in Copies \union {NoCopy}, NEW a \in 0 .. StaleMax,
           copy # NoCopy => Sound(copy),
           at \in Served => copy # NoCopy /\ a < StaleMax,
           request' = [request EXCEPT ![r] = [at |-> at, version |-> v,
                                              copy |-> copy, age |-> a]]
    PROVE  RequestTypes' /\ HeldSound'
<1>1. RequestTypes'
  BY DEF IInv, TypeOK, RequestTypes, Stations, Served
<1>2. ASSUME NEW q \in Requests
      PROVE  /\ request'[q].copy # NoCopy => Sound(request[q].copy)'
             /\ request'[q].at \in Served =>
                    request'[q].copy # NoCopy /\ request'[q].age < StaleMax
  <2>1. CASE q = r
    <3>1. request'[q] = [at |-> at, version |-> v, copy |-> copy, age |-> a]
      BY <2>1 DEF IInv, TypeOK, RequestTypes
    <3>2. copy # NoCopy => Sound(copy)' BY SoundKeeps
    <3>3. Sound(request[q].copy)' <=> Sound(copy)' BY <3>1 DEF Sound
    <3> QED BY <3>1, <3>2, <3>3
  <2>2. CASE q # r
    <3>1. request'[q] = request[q] BY <2>2 DEF IInv, TypeOK, RequestTypes
    <3>2. request[q].copy # NoCopy => Sound(request[q].copy)
      BY DEF IInv, HeldSound
    <3>3. Sound(request[q].copy)' <=> Sound(request[q].copy)
      BY <3>1 DEF Sound, PinnedAt, Head1, chainVars
    <3> QED BY <3>1, <3>2, <3>3 DEF IInv, HeldSound, Served
  <2> QED BY <2>1, <2>2
<1> QED BY <1>1, <1>2 DEF HeldSound, Sound, Served

LEMMA ReplyKeeps ==
    ASSUME IInv, UNCHANGED chainVars, NEW r \in Requests,
           NEW at \in Stations,
           NEW copy \in Copies \union {NoCopy}, NEW a \in 0 .. StaleMax,
           copy # NoCopy => Sound(copy),
           at \in Served => copy # NoCopy /\ a < StaleMax,
           request' = Reply(r, at, copy, a)
    PROVE  RequestTypes' /\ HeldSound'
<1>1. request[r].version \in Nat BY DEF IInv, TypeOK, RequestTypes
<1> QED BY <1>1, RecordKeeps DEF Reply

LEMMA RequestsKeep ==
    ASSUME IInv, UNCHANGED chainVars, request' = request
    PROVE  RequestTypes' /\ HeldSound'
  BY SoundKeeps DEF IInv, TypeOK, RequestTypes, HeldSound, Sound, PinnedAt,
     Head1, chainVars

(* The turn passes on.                                                     *)
LEMMA PassedKeeps ==
    ASSUME IInv, UNCHANGED chainVars, check.at # "none", Passed
    PROVE  /\ turn' \in Seq(Tasks) /\ check' \in CheckSet /\ HolderReads'
           /\ check'.at \in {"none", "turn"}
           /\ Holder \in Tasks
<1>1. turn \in Seq(Tasks) /\ turn # <<>>
  BY DEF IInv, TypeOK, CacheTypes, HolderReads
<1>2. Holder \in Tasks /\ turn' \in Seq(Tasks)
  BY <1>1 DEF Passed, Holder
<1>3. /\ check' = [at |-> IF turn' = <<>> THEN "none" ELSE "turn", block |-> 0,
                   version |-> 0, members |-> {}, elapsed |-> 0]
  BY DEF Passed, Begun, NotChecking
<1>4. check' \in CheckSet BY <1>3, BoundsAssumption DEF CheckSet
<1> QED BY <1>2, <1>3, <1>4 DEF HolderReads

LEMMA FailedKeeps ==
    ASSUME IInv, UNCHANGED chainVars, check.at # "none", Failed
    PROVE  RequestTypes' /\ HeldSound'
<1>1. CASE Holder \notin Requests
  BY <1>1, RequestsKeep DEF Failed
<1>2. CASE Holder \in Requests
  <2> DEFINE held == request[Holder]
  <2>1. /\ held.copy \in Copies \union {NoCopy} /\ held.age \in 0 .. StaleMax
        /\ held.copy # NoCopy => Sound(held.copy)
    BY <1>2 DEF IInv, TypeOK, RequestTypes, HeldSound
  <2>2. CASE held.copy # NoCopy /\ held.age < StaleMax
    <3>1. request' = Reply(Holder, "fallback", held.copy, held.age)
      BY <1>2, <2>2 DEF Failed
    <3> HIDE DEF held
    <3> QED BY <1>2, <2>1, <2>2, <3>1, ReplyKeeps DEF Stations, Served
  <2>3. CASE ~(held.copy # NoCopy /\ held.age < StaleMax)
    <3>1. request' = Reply(Holder, "refused", NoCopy, 0)
      BY <1>2, <2>3 DEF Failed
    <3>2. 0 \in 0 .. StaleMax BY BoundsAssumption
    <3> QED BY <1>2, <3>1, <3>2, ReplyKeeps DEF Stations, Served
  <2> QED BY <2>2, <2>3
<1> QED BY <1>1, <1>2

LEMMA DeliveredKeeps ==
    ASSUME IInv, UNCHANGED chainVars, NEW copy \in Copies, NEW a \in 0 .. StaleMax,
           copy # NoCopy, Sound(copy), a < StaleMax, Delivered(copy, a)
    PROVE  RequestTypes' /\ HeldSound'
<1>1. CASE Holder \notin Requests
  BY <1>1, RequestsKeep DEF Delivered
<1>2. CASE Holder \in Requests
  BY <1>2, ReplyKeeps DEF Delivered, Stations, Served
<1> QED BY <1>1, <1>2

-----------------------------------------------------------------------------
(* What a step that leaves the slot alone has to establish.                *)
LEMMA SlotKeeps ==
    ASSUME IInv, UNCHANGED chainVars, UNCHANGED <<cache, age>>,
           turn' \in Seq(Tasks), check' \in CheckSet, missed' \in BOOLEAN,
           RequestTypes', HeldSound', HolderReads',
           warmIn' \in 0 .. Warm, faults' \in 0 .. MaxFaults,
           check'.at \in {"members", "chain"} => check'.version <= version,
           check'.at = "chain" /\ check'.version = version =>
               check'.members \in spread
    PROVE  IInv'
<1>1. ChainTypes' BY DEF IInv, TypeOK, ChainTypes, Head1, chainVars
<1>2. CacheTypes' BY DEF IInv, TypeOK, CacheTypes, CheckSet
<1>3. SlotSound' BY SlotCopy, SoundKeeps DEF SlotSound, Sound
<1>4. VersionsTell' BY DEF IInv, VersionsTell, Current, chainVars
<1> QED BY <1>1, <1>2, <1>3, <1>4 DEF IInv, TypeOK

(* The queue and what its holder has read, as they stand.                  *)
LEMMA TurnFacts ==
    ASSUME IInv
    PROVE  /\ turn \in Seq(Tasks) /\ check \in CheckSet
           /\ warmIn \in 0 .. Warm /\ faults \in 0 .. MaxFaults
           /\ check.at \in {"members", "chain"} => check.version <= version
           /\ check.at = "chain" /\ check.version = version =>
                  check.members \in spread
  BY DEF IInv, TypeOK, CacheTypes, CheckSet, VersionsTell

LEMMA MissedType == IInv => missed \in BOOLEAN
  BY DEF IInv, TypeOK, CacheTypes

LEMMA HolderKeeps ==
    ASSUME IInv, UNCHANGED chainVars, check' = check, turn' = <<>> <=> turn = <<>>
    PROVE  HolderReads'
  BY DEF IInv, HolderReads, Head1, chainVars

(* A task that joins the queue begins at once if nobody else is in it.     *)
LEMMA JoinedKeeps ==
    ASSUME IInv, UNCHANGED chainVars, NEW task \in Tasks, turn' = Joined(task),
           check' = IF turn = <<>> THEN Begun(turn') ELSE check
    PROVE  /\ turn' \in Seq(Tasks) /\ check' \in CheckSet /\ HolderReads'
           /\ check' = check \/ check'.at = "turn"
<1>1. turn' \in Seq(Tasks) /\ turn' # <<>> BY TurnFacts DEF Joined
<1>2. CASE turn = <<>>
  <2>1. check' = [at |-> "turn", block |-> 0, version |-> 0, members |-> {},
                  elapsed |-> 0]
    BY <1>1, <1>2 DEF Begun, NotChecking
  <2>2. check' \in CheckSet BY <2>1, BoundsAssumption DEF CheckSet
  <2> QED BY <1>1, <2>1, <2>2 DEF HolderReads
<1>3. CASE turn # <<>>
  BY <1>1, <1>3, TurnFacts, HolderKeeps
<1> QED BY <1>2, <1>3

-----------------------------------------------------------------------------
(* Requests.                                                               *)
LEMMA UnaskedKeeps ==
    ASSUME IInv, UNCHANGED chainVars, NEW r \in Requests, NEW v \in Nat,
           NEW at \in {"idle", "asked"},
           request' = [request EXCEPT ![r] = [at |-> at, version |-> v,
                                              copy |-> NoCopy, age |-> 0]]
    PROVE  RequestTypes' /\ HeldSound'
<1>1. 0 \in 0 .. StaleMax /\ NoCopy \in Copies \union {NoCopy}
  BY BoundsAssumption
<1>2. at \in Stations /\ at \notin Served BY DEF Stations, Served
<1> QED BY <1>1, <1>2, RecordKeeps

LEMMA AskKeeps == ASSUME IInv, NEW r \in Requests, Ask(r) PROVE IInv'
<1>1. request' = [request EXCEPT ![r] = [at |-> "asked", version |-> version,
                                         copy |-> NoCopy, age |-> 0]]
  BY DEF Ask
<1>2. version \in Nat
  BY DEF IInv, TypeOK, ChainTypes
<1>3. RequestTypes' /\ HeldSound'
  BY <1>1, <1>2, UnaskedKeeps DEF Ask
<1>4. HolderReads' BY HolderKeeps DEF Ask, cacheVars
<1> QED BY <1>3, <1>4, SlotKeeps, TurnFacts, MissedType DEF Ask, cacheVars

LEMMA AbandonKeeps == ASSUME IInv, NEW r \in Requests, Abandon(r) PROVE IInv'
<1>1. RequestTypes' /\ HeldSound'
  <2>1. request' = [request EXCEPT ![r] = [at |-> "idle", version |-> 0,
                                           copy |-> NoCopy, age |-> 0]]
    BY DEF Abandon, Unasked
  <2> QED BY <2>1, UnaskedKeeps DEF Abandon
<1>2. CASE UNCHANGED <<turn, check, missed>>
  <2>1. HolderReads' BY <1>2, HolderKeeps DEF Abandon
  <2> QED BY <1>1, <1>2, <2>1, SlotKeeps, TurnFacts, MissedType DEF Abandon
<1>3. CASE Queued(r) /\ Holder = r /\ Passed /\ missed' = TRUE
  <2>1. check.at # "none"
    BY <1>3, TurnFacts DEF IInv, HolderReads, Queued
  <2> QED BY <1>1, <1>3, <2>1, PassedKeeps, SlotKeeps, TurnFacts DEF Abandon
<1>4. CASE /\ Queued(r) /\ Holder # r /\ turn' = Without(turn, r)
           /\ UNCHANGED <<check, missed>>
  <2>0. turn # <<>> BY <1>4, TurnFacts DEF Queued
  <2>1. turn' # <<>> BY <1>4, <2>0, TurnFacts, WithoutOther DEF Holder, Queued
  <2>2. turn' \in Seq(Tasks) BY <1>4, TurnFacts, WithoutType
  <2>3. HolderReads' BY <1>4, <2>0, <2>1, HolderKeeps DEF Abandon
  <2> QED BY <1>1, <1>4, <2>2, <2>3, SlotKeeps, TurnFacts, MissedType DEF Abandon
<1> QED BY <1>2, <1>3, <1>4 DEF Abandon

(* The slot is usable, so there is a copy in it.                           *)
LEMMA UsableSlot ==
    ASSUME IInv, NEW v \in Nat, UseOf(cache, age, v) \in {"fresh", "stale"}
    PROVE  /\ cache # NoCopy /\ cache \in Copies /\ Sound(cache)
           /\ age \in 0 .. StaleMax /\ age < StaleMax
<1>1. Current(cache, v) BY DEF UseOf
<1>2. age \in Nat /\ Ttl \in Nat /\ StaleMax \in Nat /\ Ttl < StaleMax
  BY SlotCopy, BoundsAssumption
<1>3. age < StaleMax BY <1>1, <1>2 DEF UseOf
<1> QED BY <1>1, <1>3, SlotCopy DEF Current

LEMMA AnswerFreshKeeps == ASSUME IInv, NEW r \in Requests, AnswerFresh(r) PROVE IInv'
<1>1. request[r].version \in Nat BY DEF IInv, TypeOK, RequestTypes
<1>2. RequestTypes' /\ HeldSound'
  BY <1>1, UsableSlot, ReplyKeeps DEF AnswerFresh, Stations, Served
<1>3. HolderReads' BY HolderKeeps DEF AnswerFresh, cacheVars
<1> QED BY <1>2, <1>3, SlotKeeps, TurnFacts, MissedType DEF AnswerFresh, cacheVars

LEMMA AnswerStaleKeeps == ASSUME IInv, NEW r \in Requests, AnswerStale(r) PROVE IInv'
<1>1. request[r].version \in Nat BY DEF IInv, TypeOK, RequestTypes
<1>2. RequestTypes' /\ HeldSound'
  BY <1>1, UsableSlot, ReplyKeeps DEF AnswerStale, Stations, Served
<1>3. CASE turn = <<>>
  <2>1. check' = [at |-> "block", block |-> 0, version |-> 0, members |-> {},
                  elapsed |-> 0]
    BY <1>3 DEF AnswerStale, NotChecking
  <2>2. check' \in CheckSet BY <2>1, BoundsAssumption DEF CheckSet
  <2>3. turn' = <<"background">> /\ turn' \in Seq(Tasks)
    <3>1. "background" \in Tasks BY DEF Tasks
    <3>2. turn' = <<"background">> BY <1>3 DEF AnswerStale
    <3> QED BY <3>1, <3>2
  <2>4. HolderReads' BY <2>1, <2>3 DEF HolderReads
  <2> QED BY <1>2, <2>1, <2>2, <2>3, <2>4, SlotKeeps, TurnFacts, MissedType
        DEF AnswerStale
<1>4. CASE turn # <<>>
  <2>1. HolderReads' BY <1>4, HolderKeeps DEF AnswerStale
  <2> QED BY <1>2, <1>4, <2>1, SlotKeeps, TurnFacts, MissedType DEF AnswerStale
<1> QED BY <1>3, <1>4

LEMMA AwaitRebuildKeeps ==
    ASSUME IInv, NEW r \in Requests, AwaitRebuild(r) PROVE IInv'
<1>1. RequestTypes' /\ HeldSound'
  <2>1. PICK a \in 0 .. StaleMax : request' = Reply(r, "queued", cache, a)
    BY SlotCopy, BoundsAssumption DEF AwaitRebuild
  <2> QED BY <2>1, SlotCopy, ReplyKeeps DEF AwaitRebuild, Stations, Served
<1>2. r \in Tasks BY DEF Tasks
<1>3. /\ turn' \in Seq(Tasks) /\ check' \in CheckSet /\ HolderReads'
      /\ check' = check \/ check'.at = "turn"
  BY <1>2, JoinedKeeps DEF AwaitRebuild
<1> QED BY <1>1, <1>3, SlotKeeps, TurnFacts, MissedType DEF AwaitRebuild

LEMMA WarmTickKeeps == IInv /\ WarmTick => IInv'
<1> SUFFICES ASSUME IInv, WarmTick PROVE IInv' OBVIOUS
<1>1. RequestTypes' /\ HeldSound' BY RequestsKeep DEF WarmTick
<1>2. warmIn' \in 0 .. Warm BY BoundsAssumption DEF WarmTick
<1>3. CASE lastBlock = 0
  <2>1. HolderReads' BY <1>3, HolderKeeps DEF WarmTick
  <2> QED BY <1>1, <1>2, <1>3, <2>1, SlotKeeps, TurnFacts, MissedType DEF WarmTick
<1>4. CASE lastBlock # 0
  <2>1. "warm" \in Tasks BY DEF Tasks
  <2>2. /\ turn' \in Seq(Tasks) /\ check' \in CheckSet /\ HolderReads'
        /\ check' = check \/ check'.at = "turn"
    BY <1>4, <2>1, JoinedKeeps DEF WarmTick
  <2> QED BY <1>1, <1>2, <2>2, SlotKeeps, TurnFacts, MissedType DEF WarmTick
<1> QED BY <1>3, <1>4

-----------------------------------------------------------------------------
(* The refresh.                                                            *)
LEMMA PassingKeeps ==
    ASSUME IInv, UNCHANGED chainVars, UNCHANGED <<cache, age>>,
           check.at # "none", Passed, RequestTypes', HeldSound',
           missed' \in BOOLEAN, warmIn' = warmIn, faults' \in 0 .. MaxFaults
    PROVE  IInv'
  BY PassedKeeps, SlotKeeps, TurnFacts

LEMMA FailingKeeps ==
    ASSUME IInv, UNCHANGED chainVars, UNCHANGED <<cache, age>>,
           check.at # "none", Failed, warmIn' = warmIn, faults' \in 0 .. MaxFaults
    PROVE  IInv'
<1>1. Passed /\ missed' \in BOOLEAN BY DEF Failed
<1> QED BY <1>1, FailedKeeps, PassingKeeps

(* The holder reads on.                                                    *)
LEMMA ReadingKeeps ==
    ASSUME IInv, UNCHANGED chainVars,
           UNCHANGED <<cache, age, turn, missed, request, warmIn, faults>>,
           check.at # "none", check' \in CheckSet, check'.at # "none",
           check'.at \in {"version", "members", "chain"} =>
               check'.block \in 1 .. Head1,
           check'.at \in {"members", "chain"} => check'.version <= version,
           check'.at = "chain" /\ check'.version = version =>
               check'.members \in spread
    PROVE  IInv'
<1>1. HolderReads' BY DEF IInv, HolderReads, Head1, chainVars
<1> QED BY <1>1, RequestsKeep, SlotKeeps, TurnFacts, MissedType

LEMMA CheckFields ==
    ASSUME IInv
    PROVE  /\ check = [at |-> check.at, block |-> check.block,
                       version |-> check.version, members |-> check.members,
                       elapsed |-> check.elapsed]
           /\ check.block \in 0 .. MaxBlock /\ check.version \in Nat
           /\ check.members \in SUBSET Nodes /\ check.elapsed \in 0 .. MaxCheck
           /\ check.at \in {"version", "members", "chain"} =>
                  check.block \in 1 .. Head1
           /\ version \in Nat /\ lastBlock \in 0 .. Head1
           /\ Head1 \in Nat /\ MaxBlock \in Nat /\ Head1 <= MaxBlock
           /\ members \in SUBSET Nodes /\ members \in spread
  BY BoundsAssumption
     DEF IInv, TypeOK, ChainTypes, CacheTypes, HolderReads, VersionsTell, Blocks

LEMMA FoundFreshKeeps == IInv /\ FoundFresh => IInv'
<1> SUFFICES ASSUME IInv, FoundFresh PROVE IInv' OBVIOUS
<1>1. version \in Nat BY CheckFields
<1>2. RequestTypes' /\ HeldSound'
  BY <1>1, UsableSlot, DeliveredKeeps DEF FoundFresh
<1> QED BY <1>2, PassingKeeps, TurnFacts, MissedType DEF FoundFresh

LEMMA ReadsKeep == IInv /\ (NotFresh \/ ReadBlock \/ ReadVersion \/ ReadMembers) => IInv'
<1> SUFFICES ASSUME IInv, NotFresh \/ ReadBlock \/ ReadVersion \/ ReadMembers
    PROVE  IInv'
  OBVIOUS
<1>1. CASE NotFresh
  <2>1. check' = [at |-> "block", block |-> check.block, version |-> check.version,
                  members |-> check.members, elapsed |-> check.elapsed]
    BY <1>1, CheckFields DEF NotFresh
  <2>2. check' \in CheckSet BY <2>1, CheckFields DEF CheckSet
  <2> QED BY <1>1, <2>1, <2>2, ReadingKeeps DEF NotFresh
<1>2. CASE ReadBlock
  <2>1. CASE lastBlock = 0
    BY <1>2, <2>1, FailingKeeps, TurnFacts DEF ReadBlock
  <2>2. CASE lastBlock # 0
    <3>1. check' = [at |-> "version", block |-> lastBlock,
                    version |-> check.version, members |-> check.members,
                    elapsed |-> check.elapsed]
      BY <1>2, <2>2, CheckFields DEF ReadBlock
    <3>2. lastBlock \in 1 .. Head1 /\ lastBlock \in 0 .. MaxBlock
      BY <2>2, CheckFields
    <3>3. check' \in CheckSet BY <3>1, <3>2, CheckFields DEF CheckSet
    <3> QED BY <1>2, <2>2, <3>1, <3>2, <3>3, ReadingKeeps DEF ReadBlock
  <2> QED BY <2>1, <2>2
<1>3. CASE ReadVersion
  <2>1. check' = [at |-> "members", block |-> check.block, version |-> version,
                  members |-> check.members, elapsed |-> check.elapsed]
    BY <1>3, CheckFields DEF ReadVersion
  <2>2. check' \in CheckSet BY <2>1, CheckFields DEF CheckSet
  <2>3. check'.version <= version BY <2>1, CheckFields
  <2> QED BY <1>3, <2>1, <2>2, <2>3, CheckFields, ReadingKeeps DEF ReadVersion
<1>4. CASE ReadMembers
  <2>1. CASE members = {}
    BY <1>4, <2>1, FailingKeeps, TurnFacts DEF ReadMembers
  <2>2. CASE members # {}
    <3>1. check' = [at |-> "chain", block |-> check.block,
                    version |-> check.version, members |-> members,
                    elapsed |-> check.elapsed]
      BY <1>4, <2>2, CheckFields DEF ReadMembers
    <3>2. check' \in CheckSet BY <3>1, CheckFields DEF CheckSet
    <3>3. check.version <= version BY <1>4, TurnFacts DEF ReadMembers
    <3> QED BY <1>4, <2>2, <3>1, <3>2, <3>3, CheckFields, ReadingKeeps
          DEF ReadMembers
  <2> QED BY <2>1, <2>2
<1> QED BY <1>1, <1>2, <1>3, <1>4

(* A copy is stored only if it equals the registry at its block.           *)
LEMMA VerifiedKeeps == IInv /\ Verified => IInv'
<1> SUFFICES ASSUME IInv, Verified PROVE IInv' OBVIOUS
<1> DEFINE copy == [block |-> check.block, version |-> check.version,
                    members |-> check.members]
<1>1. cache' = copy /\ age' = 0 /\ missed' = FALSE BY DEF Verified
<1>2. /\ copy \in Copies /\ copy # NoCopy /\ Sound(copy)
      /\ 0 \in 0 .. StaleMax /\ 0 < StaleMax
  <2>1. check.block \in 1 .. Head1 BY CheckFields DEF Verified
  <2>2. check.block \in Blocks /\ check.block \in Nat
    BY <2>1, CheckFields DEF Blocks
  <2>3. copy \in [block : Nat, version : Nat, members : SUBSET Nodes]
    BY <2>2, CheckFields
  <2>4. copy # NoCopy BY <2>3, NamesAssumption
  <2>5. copy \in Copies BY <2>2, CheckFields DEF Copies
  <2>6. Sound(copy) BY <2>1 DEF Sound, Verified
  <2> QED BY <2>4, <2>5, <2>6, BoundsAssumption
<1>3. RequestTypes' /\ HeldSound'
  <2>1. Delivered(copy, 0) BY <1>1 DEF Verified
  <2> HIDE DEF copy
  <2> QED BY <1>2, <2>1, DeliveredKeeps DEF Verified
<1>4. /\ turn' \in Seq(Tasks) /\ check' \in CheckSet /\ HolderReads'
      /\ check'.at \in {"none", "turn"}
  BY PassedKeeps DEF Verified
<1>5. ChainTypes' BY DEF Verified, IInv, TypeOK, ChainTypes, Head1, chainVars
<1>6. CacheTypes'
  <2>1. missed' \in BOOLEAN BY <1>1
  <2> QED BY <1>1, <1>2, <1>4, <2>1 DEF CacheTypes, CheckSet, Copies
<1>7. SlotSound'
  BY <1>1, <1>2 DEF SlotSound, Sound, PinnedAt, Head1, chainVars, Verified
<1>8. VersionsTell'
  <2>1. check.version <= version /\ (check.version = version =>
                                        check.members \in spread)
    BY TurnFacts DEF Verified
  <2> QED BY <1>1, <1>4, <2>1, CheckFields
        DEF VersionsTell, Current, chainVars, Verified
<1> QED BY <1>3, <1>4, <1>5, <1>6, <1>7, <1>8, TurnFacts
      DEF IInv, TypeOK, Verified

LEMMA FailuresKeep == IInv /\ (Rejected \/ ChainFails) => IInv'
<1> SUFFICES ASSUME IInv, Rejected \/ ChainFails PROVE IInv' OBVIOUS
<1>1. CASE Rejected BY <1>1, FailingKeeps, TurnFacts DEF Rejected
<1>2. CASE ChainFails
  <2>1. faults' \in 0 .. MaxFaults BY <1>2, TurnFacts, BoundsAssumption DEF ChainFails
  <2> QED BY <1>2, <2>1, FailingKeeps DEF ChainFails
<1> QED BY <1>1, <1>2

-----------------------------------------------------------------------------
(* Time passes: copies that are still waited with grow older.              *)
LEMMA TickKeeps == IInv /\ Tick => IInv'
<1> SUFFICES ASSUME IInv, Tick PROVE IInv' OBVIOUS
<1>0. UNCHANGED <<cache, turn, missed, faults>> /\ UNCHANGED chainVars
  BY DEF Tick
<1>1. \A a \in 0 .. StaleMax : Older(a) \in 0 .. StaleMax
  BY BoundsAssumption DEF Older
<1>2. RequestTypes'
  <2>1. ASSUME NEW r \in Requests
        PROVE  request'[r] \in [at : Stations, version : Nat,
                                copy : Copies \union {NoCopy}, age : 0 .. StaleMax]
    <3>1. request[r] \in [at : Stations, version : Nat,
                          copy : Copies \union {NoCopy}, age : 0 .. StaleMax]
      BY DEF IInv, TypeOK, RequestTypes, Stations, Served
    <3>2. request'[r] = request[r] \/
          request'[r] = [request[r] EXCEPT !.age = Older(request[r].age)]
      BY DEF Tick
    <3> QED BY <1>1, <3>1, <3>2
  <2>2. request' = [r \in Requests |-> request'[r]] BY DEF Tick
  <2> QED BY <2>1, <2>2 DEF RequestTypes, Stations, Served
<1>3. HeldSound'
  <2>1. ASSUME NEW r \in Requests
        PROVE  /\ request'[r].copy # NoCopy => Sound(request[r].copy)'
               /\ request'[r].at \in Served =>
                     request'[r].copy # NoCopy /\ request'[r].age < StaleMax
    <3>1. request'[r].copy = request[r].copy /\ request'[r].at = request[r].at
      BY DEF Tick, IInv, TypeOK, RequestTypes
    <3>2. request[r].at \in Served => request'[r] = request[r]
      BY DEF Tick, Served
    <3>3. Sound(request[r].copy)' <=> Sound(request[r].copy)
      BY <1>0, <3>1 DEF Sound, PinnedAt, Head1, chainVars
    <3> QED BY <3>1, <3>2, <3>3 DEF IInv, HeldSound, Served
  <2> QED BY <2>1 DEF HeldSound, Sound, Served
<1>4. check' \in CheckSet /\ check'.at = check.at /\ check'.block = check.block
      /\ check'.version = check.version /\ check'.members = check.members
  <2>1. CASE turn = <<>> BY <2>1, TurnFacts DEF Tick
  <2>2. CASE turn # <<>>
    <3>1. check' = [at |-> check.at, block |-> check.block,
                    version |-> check.version, members |-> check.members,
                    elapsed |-> check.elapsed + 1]
      BY <2>2, CheckFields DEF Tick
    <3>2. check.elapsed + 1 \in 0 .. MaxCheck
      BY <2>2, CheckFields, BoundsAssumption DEF Tick
    <3> QED BY <3>1, <3>2, TurnFacts, CheckFields DEF CheckSet
  <2> QED BY <2>1, <2>2
<1>5. HolderReads' BY <1>0, <1>4 DEF IInv, HolderReads, Head1, chainVars
<1>6. ChainTypes' BY <1>0 DEF IInv, TypeOK, ChainTypes, Head1, chainVars
<1>7. CacheTypes'
  <2>1. age' \in 0 .. StaleMax BY <1>1, SlotCopy DEF Tick
  <2>2. missed' \in BOOLEAN BY <1>0, MissedType
  <2> QED BY <1>0, <1>4, <2>1, <2>2, SlotCopy, TurnFacts DEF CacheTypes, CheckSet
<1>8. SlotSound' BY <1>0, SlotCopy, SoundKeeps DEF SlotSound, Sound
<1>9. VersionsTell' BY <1>0, <1>4 DEF IInv, VersionsTell, Current, chainVars
<1>10. warmIn' \in 0 .. Warm BY TurnFacts, BoundsAssumption DEF Tick
<1> QED BY <1>0, <1>2, <1>3, <1>5, <1>6, <1>7, <1>8, <1>9, <1>10, TurnFacts
      DEF IInv, TypeOK

-----------------------------------------------------------------------------
LEMMA NextIInv == IInv /\ [Next]_vars => IInv'
<1> SUFFICES ASSUME IInv, [Next]_vars PROVE IInv' OBVIOUS
<1>1. CASE Mine BY <1>1, MineKeeps
<1>2. CASE ChainTask BY <1>2, ChainTaskKeeps
<1>3. ASSUME NEW r \in Requests, \/ Ask(r) \/ Abandon(r) \/ AnswerFresh(r)
                                \/ AnswerStale(r) \/ AwaitRebuild(r)
      PROVE IInv'
  BY <1>3, AskKeeps, AbandonKeeps, AnswerFreshKeeps, AnswerStaleKeeps,
     AwaitRebuildKeeps
<1>4. CASE WarmTick BY <1>4, WarmTickKeeps
<1>5. CASE FoundFresh BY <1>5, FoundFreshKeeps
<1>6. CASE NotFresh \/ ReadBlock \/ ReadVersion \/ ReadMembers
  BY <1>6, ReadsKeep
<1>7. CASE Verified BY <1>7, VerifiedKeeps
<1>8. CASE Rejected \/ ChainFails BY <1>8, FailuresKeep
<1>9. CASE Tick BY <1>9, TickKeeps
<1>10. CASE UNCHANGED vars
  <2>1. UNCHANGED chainVars /\ UNCHANGED <<cache, age, turn, check, missed,
                                         request, warmIn, faults>>
    BY <1>10 DEF vars, chainVars
  <2>2. HolderReads' BY <2>1, HolderKeeps
  <2> QED BY <2>1, <2>2, RequestsKeep, SlotKeeps, TurnFacts, MissedType
<1> QED BY <1>1, <1>2, <1>3, <1>4, <1>5, <1>6, <1>7, <1>8, <1>9, <1>10
      DEF Next, ChainTask

LEMMA SpecIInv == Spec => []IInv
<1> QED BY InitIInv, NextIInv, PTL DEF Spec

(* Every variable keeps its type: in particular last_block never passes    *)
(* the newest block, and nobody holds the turn while the queue is empty.   *)
THEOREM SeedTypeCorrect == Spec => []TypeOK
<1>1. IInv => TypeOK BY DEF IInv
<1> QED BY <1>1, SpecIInv, PTL

(* Whatever /seed/topology serves passed the on-chain check at its block   *)
(* and is younger than the staleness bound when it is chosen.              *)
THEOREM SeedServedSound == Spec => []ServedSound
<1>1. IInv => ServedSound
  BY DEF IInv, HeldSound, ServedSound, Sound
<1> QED BY <1>1, SpecIInv, PTL

(* A copy that counts as current lists members of the last announcement or *)
(* later: a removal that was announced is not undone by the cache.         *)
THEOREM SeedCurrentIsRecent == Spec => []CurrentCopyIsRecent
<1>1. IInv => CurrentCopyIsRecent
  BY DEF IInv, VersionsTell, CurrentCopyIsRecent
<1> QED BY <1>1, SpecIInv, PTL

-----------------------------------------------------------------------------
(* The warm loop. Between two of its ticks the copy ages by the interval;  *)
(* while the loop waits for its turn, by what the present check has taken: *)
(* the check that ends renews the copy for whoever is behind it. What it   *)
(* finds at its turn it leaves alone only when younger than the TTL.       *)

(* Once there is a copy the first sync is over, and its block is kept.     *)
Started ==
    /\ live.at \in {"replaced", "applied"} => live.block > 0
    /\ check.at \in {"version", "members", "chain"} => lastBlock > 0
    /\ cache # NoCopy => lastBlock > 0

Young ==
    cache # NoCopy /\ ~missed =>
        /\ Queued("warm") => age <= Ttl - 1 + Warm + check.elapsed
        /\ ~Queued("warm") => age + warmIn <= Ttl - 1 + Warm

WInv == Started /\ Young

LEMMA InitWInv == Init => WInv
  BY DEF Init, WInv, Started, Young, NotChecking

LEMMA Figures ==
    ASSUME TypeOK
    PROVE  {age, warmIn, check.elapsed, Ttl, StaleMax, Warm, MaxCheck} \subseteq Nat
  BY BoundsAssumption DEF TypeOK, ChainTypes, CacheTypes, Blocks

(* Who else joins the queue, or leaves it, does not move the warm loop     *)
(* out of it or into it.                                                   *)
LEMMA JoinedOther ==
    ASSUME NEW S, NEW q \in Seq(S), NEW t \in S, NEW u, t # u
    PROVE  (\E i \in 1 .. Len(Append(q, t)) : Append(q, t)[i] = u)
               <=> \E i \in 1 .. Len(q) : q[i] = u
  OBVIOUS

LEMMA WithoutKeeps ==
    ASSUME NEW S, NEW q \in Seq(S), NEW t, NEW u, t # u,
           NEW k \in 1 .. Len(q), q[k] = t
    PROVE  (\E i \in 1 .. Len(Without(q, t)) : Without(q, t)[i] = u)
               <=> \E i \in 1 .. Len(q) : q[i] = u
<1>1. Len(q) \in Nat /\ Len(q) - 1 \in Nat /\ k \in Nat OBVIOUS
<1>2. Len(Without(q, t)) = Len(q) - 1 BY <1>1 DEF Without
<1>3. \A i \in 1 .. Len(q) - 1 :
          Without(q, t)[i] = IF \A j \in 1 .. i : q[j] # t THEN q[i] ELSE q[i + 1]
  BY <1>1 DEF Without
<1>4. ASSUME NEW i \in 1 .. Len(q) - 1, Without(q, t)[i] = u
      PROVE  \E j \in 1 .. Len(q) : q[j] = u
  <2>1. i \in 1 .. Len(q) /\ i + 1 \in 1 .. Len(q) BY <1>1
  <2> QED BY <1>3, <1>4, <2>1
<1>5. ASSUME NEW i \in 1 .. Len(q), q[i] = u
      PROVE  \E j \in 1 .. Len(q) - 1 : Without(q, t)[j] = u
  <2>1. CASE \A j \in 1 .. i : q[j] # t
    <3>1. k > i BY <1>1, <2>1
    <3>2. i \in 1 .. Len(q) - 1 BY <1>1, <3>1
    <3> QED BY <1>3, <1>5, <2>1, <3>2
  <2>2. CASE ~(\A j \in 1 .. i : q[j] # t)
    <3>1. PICK j \in 1 .. i : q[j] = t BY <2>2
    <3>2. j # i BY <1>5, <3>1
    <3>3. i - 1 \in 1 .. Len(q) - 1 /\ j \in 1 .. i - 1 BY <1>1, <3>1, <3>2
    <3>4. Without(q, t)[i - 1] = q[i - 1 + 1] BY <1>3, <3>1, <3>3
    <3>5. i - 1 + 1 = i OBVIOUS
    <3> QED BY <1>5, <3>3, <3>4, <3>5
  <2> QED BY <2>1, <2>2
<1> QED BY <1>2, <1>4, <1>5

(* A refresh that ends without a failure leaves a copy younger than the    *)
(* TTL to whoever has the turn next.                                       *)
LEMMA RenewedIsYoung ==
    ASSUME TypeOK', age' < Ttl PROVE Young'
<1>1. /\ {age', warmIn', check'.elapsed, Ttl, Warm} \subseteq Nat /\ warmIn' <= Warm
  BY BoundsAssumption DEF TypeOK, CacheTypes
<1> QED BY <1>1 DEF Young

LEMMA ChainKeepsWarm ==
    ASSUME TypeOK, WInv, Mine \/ ChainTask PROVE WInv'
<1> USE DEF WInv
<1>1. Young'
  BY DEF Mine, ChainTask, Reconcile, MarkSynced, Apply, Advance, Bump, Drifted,
         cacheVars, Young, Queued
<1>2. /\ check' = check /\ cache' = cache
  BY DEF Mine, ChainTask, Reconcile, MarkSynced, Apply, Advance, Bump, Drifted,
         cacheVars
<1>3. /\ live \in [at : {"sync", "replaced", "marked", "poll", "applied"},
                   block : 0 .. Head1, changed : BOOLEAN]
      /\ lastBlock \in Nat /\ Head1 \in Nat
  BY DEF TypeOK, ChainTypes, Blocks
<1>4. CASE lastBlock' = lastBlock /\ live' = live
  BY <1>1, <1>2, <1>4 DEF Started
<1>5. CASE Reconcile
  BY <1>1, <1>2, <1>3, <1>5 DEF Started, Reconcile
<1>6. CASE MarkSynced
  BY <1>1, <1>2, <1>3, <1>6 DEF Started, MarkSynced
<1>7. CASE Apply
  BY <1>1, <1>2, <1>3, <1>7 DEF Started, Apply
<1>8. CASE Advance
  BY <1>1, <1>2, <1>3, <1>8 DEF Started, Advance
<1>9. CASE Bump \/ Drifted
  BY <1>1, <1>2, <1>3, <1>9 DEF Started, Bump, Drifted
<1> QED BY <1>1, <1>4, <1>5, <1>6, <1>7, <1>8, <1>9 DEF Mine, ChainTask

(* Only Abandon with the turn, and a failing refresh, count as missed; the *)
(* other steps of requests leave copy and timer alone.                     *)
LEMMA RequestsKeepWarm ==
    ASSUME IInv, TypeOK', WInv, NEW r \in Requests,
           \/ Ask(r) \/ Abandon(r) \/ AnswerFresh(r) \/ AnswerStale(r)
           \/ AwaitRebuild(r)
    PROVE  WInv'
<1> USE DEF WInv
<1>1. /\ UNCHANGED <<lastBlock, live, cache, age, warmIn>>
      /\ \/ UNCHANGED <<turn, check, missed>>
         \/ /\ turn = <<>> /\ turn' = <<"background">> /\ missed' = missed
            /\ check' = [NotChecking EXCEPT !.at = "block"]
         \/ /\ turn' = Joined(r) /\ missed' = missed
            /\ check' = IF turn = <<>> THEN Begun(turn') ELSE check
         \/ Passed /\ missed' = TRUE
         \/ /\ Queued(r) /\ turn' = Without(turn, r)
            /\ UNCHANGED <<check, missed>>
  BY DEF Ask, Abandon, AnswerFresh, AnswerStale, AwaitRebuild, chainVars, cacheVars
<1>2. turn \in Seq(Tasks) /\ r \in Tasks /\ r # "warm"
  BY TurnFacts, NamesAssumption DEF Tasks
<1>3. check' = check \/ check'.at \in {"none", "turn", "block"}
  BY <1>1 DEF Passed, Begun, NotChecking
<1>4. Started'
  BY <1>1, <1>3 DEF Started
<1>5. CASE UNCHANGED <<turn, check, missed>>
  BY <1>1, <1>4, <1>5 DEF Young, Queued
<1>6. CASE turn = <<>> /\ turn' = <<"background">> /\ missed' = missed
  <2>1. ~Queued("warm") /\ ~Queued("warm")'
    BY <1>6 DEF Queued
  <2> QED BY <1>1, <1>4, <1>6, <2>1 DEF Young
<1>7. CASE /\ turn' = Joined(r) /\ missed' = missed
           /\ check' = IF turn = <<>> THEN Begun(turn') ELSE check
  <2>1. Queued("warm")' <=> Queued("warm")
    BY <1>2, <1>7, JoinedOther DEF Queued, Joined
  <2>2. Queued("warm") => check' = check
    BY <1>7 DEF Queued
  <2> QED BY <1>1, <1>4, <1>7, <2>1, <2>2 DEF Young
<1>8. CASE Passed /\ missed' = TRUE
  BY <1>4, <1>8 DEF Young
<1>9. CASE /\ Queued(r) /\ turn' = Without(turn, r)
           /\ UNCHANGED <<check, missed>>
  <2>1. Queued("warm")' <=> Queued("warm")
    <3>1. PICK k \in 1 .. Len(turn) : turn[k] = r BY <1>9 DEF Queued
    <3> QED BY <1>2, <1>9, <3>1, WithoutKeeps DEF Queued
  <2> QED BY <1>1, <1>4, <1>9, <2>1 DEF Young
<1> QED BY <1>1, <1>4, <1>5, <1>6, <1>7, <1>8, <1>9

LEMMA WarmTickKeepsWarm ==
    ASSUME IInv, TypeOK', WInv, WarmTick PROVE WInv'
<1> USE DEF WInv
<1>1. UNCHANGED <<lastBlock, live, cache, age, missed>>
  BY DEF WarmTick, chainVars
<1>2. CASE lastBlock = 0
  BY <1>1, <1>2 DEF WarmTick, Started, Young
<1>3. CASE lastBlock # 0
  <2>1. /\ turn' = Append(turn, "warm") /\ turn \in Seq(Tasks)
        /\ check' = IF turn = <<>> THEN Begun(turn') ELSE check
    BY <1>3, TurnFacts DEF WarmTick, Joined
  <2>2. Queued("warm")'
    <3>1. Len(turn) \in Nat /\ "warm" \in Tasks BY <2>1 DEF Tasks
    <3>2. Len(turn') = Len(turn) + 1 /\ turn'[Len(turn) + 1] = "warm"
      BY <2>1, <3>1
    <3>3. Len(turn) + 1 \in 1 .. Len(turn') BY <3>1, <3>2
    <3> QED BY <3>2, <3>3 DEF Queued
  <2>3. check' = check \/ check'.at = "turn" \/ check'.at = "none"
    BY <2>1 DEF Begun, NotChecking
  <2>4. Started' BY <1>1, <2>3 DEF Started
  <2>5. check'.elapsed \in Nat /\ age \in Nat /\ Ttl \in Nat /\ Warm \in Nat
    BY BoundsAssumption DEF TypeOK, CacheTypes, IInv
  <2>6. warmIn = 0 /\ ~Queued("warm") BY DEF WarmTick
  <2>7. Young' BY <1>1, <2>2, <2>5, <2>6 DEF Young
  <2> QED BY <2>4, <2>7
<1> QED BY <1>2, <1>3

LEMMA RefreshKeepsWarm ==
    ASSUME IInv, TypeOK', WInv, Refresh PROVE WInv'
<1> USE DEF WInv
<1>1. UNCHANGED <<lastBlock, live, warmIn>>
  BY DEF Refresh, FoundFresh, NotFresh, ReadBlock, ReadVersion, ReadMembers, Verified,
         Rejected, ChainFails, chainVars
<1>2. ASSUME Passed PROVE check'.at \in {"none", "turn"}
  BY <1>2 DEF Passed, Begun, NotChecking
<1>3. lastBlock \in Nat /\ check = [at |-> check.at, block |-> check.block,
                       version |-> check.version, members |-> check.members,
                       elapsed |-> check.elapsed]
  BY CheckFields
<1>4. CASE FoundFresh
  <2>1. cache' = cache /\ age' = age /\ Passed BY <1>4 DEF FoundFresh
  <2>2. age < Ttl BY <1>4 DEF FoundFresh, UseOf
  <2> QED BY <1>1, <1>2, <2>1, <2>2, RenewedIsYoung DEF Started
<1>5. CASE Verified
  <2>1. age' < Ttl BY <1>5, BoundsAssumption DEF Verified
  <2>2. Passed /\ lastBlock > 0 BY <1>5 DEF Verified, Started
  <2> QED BY <1>1, <1>2, <2>1, <2>2, RenewedIsYoung DEF Started
<1>6. CASE Failed /\ cache' = cache
  <2>1. missed' = TRUE /\ Passed BY <1>6 DEF Failed
  <2> QED BY <1>1, <1>2, <1>6, <2>1 DEF Started, Young
<1>7. CASE /\ check'.elapsed = check.elapsed
           /\ UNCHANGED <<cache, age, turn, missed>>
           /\ check'.at \in {"version", "members", "chain"} => lastBlock > 0
  BY <1>1, <1>7 DEF Started, Young, Queued
<1>8. CASE NotFresh
  <2>1. check'.elapsed = check.elapsed /\ check'.at = "block"
    BY <1>3, <1>8 DEF NotFresh
  <2> QED BY <1>7, <1>8, <2>1 DEF NotFresh
<1>9. CASE ReadBlock
  <2>1. CASE lastBlock = 0 BY <1>6, <1>9, <2>1 DEF ReadBlock
  <2>2. CASE lastBlock # 0
    <3>1. check'.elapsed = check.elapsed BY <1>3, <1>9, <2>2 DEF ReadBlock
    <3> QED BY <1>3, <1>7, <1>9, <2>2, <3>1 DEF ReadBlock
  <2> QED BY <2>1, <2>2
<1>10. CASE ReadVersion
  <2>1. check'.elapsed = check.elapsed BY <1>3, <1>10 DEF ReadVersion
  <2>2. lastBlock > 0 BY <1>10 DEF ReadVersion, Started
  <2> QED BY <1>7, <1>10, <2>1, <2>2 DEF ReadVersion
<1>11. CASE ReadMembers
  <2>1. CASE members = {} BY <1>6, <1>11, <2>1 DEF ReadMembers
  <2>2. CASE members # {}
    <3>1. check'.elapsed = check.elapsed BY <1>3, <1>11, <2>2 DEF ReadMembers
    <3>2. lastBlock > 0 BY <1>11 DEF ReadMembers, Started
    <3> QED BY <1>7, <1>11, <2>2, <3>1, <3>2 DEF ReadMembers
  <2> QED BY <2>1, <2>2
<1>12. CASE Rejected \/ ChainFails
  BY <1>6, <1>12 DEF Rejected, ChainFails
<1> QED BY <1>4, <1>5, <1>8, <1>9, <1>10, <1>11, <1>12 DEF Refresh

LEMMA TickKeepsWarm ==
    ASSUME IInv, TypeOK', WInv, Tick PROVE WInv'
<1> USE DEF WInv
<1>1. UNCHANGED <<lastBlock, live, cache, turn, missed>>
  BY DEF Tick, chainVars
<1>2. check'.at = check.at /\ (turn # <<>> => check'.elapsed = check.elapsed + 1)
  BY CheckFields DEF Tick
<1>3. Started' BY <1>1, <1>2 DEF Started
<1>4. Young'
  <2> SUFFICES ASSUME cache # NoCopy, ~missed
               PROVE  /\ Queued("warm") => age' <= Ttl - 1 + Warm + check'.elapsed
                      /\ ~Queued("warm") => age' + warmIn' <= Ttl - 1 + Warm
    BY <1>1 DEF Young, Queued
  <2>0. {age, warmIn, check.elapsed, Ttl, Warm} \subseteq Nat
    BY Figures DEF IInv
  <2>1. age' \in Nat /\ age' <= age + 1
    BY <2>0 DEF Tick, Older
  <2>2. CASE Queued("warm")
    <3>1. turn # <<>> BY <2>2 DEF Queued
    <3> QED BY <1>2, <2>0, <2>1, <2>2, <3>1 DEF Young
  <2>3. CASE ~Queued("warm")
    <3>1. warmIn > 0 /\ warmIn' = warmIn - 1 BY <2>0, <2>3 DEF Tick
    <3> QED BY <2>0, <2>1, <2>3, <3>1 DEF Young
  <2> QED BY <2>2, <2>3
<1> QED BY <1>3, <1>4

LEMMA NextWInv == IInv /\ IInv' /\ WInv /\ [Next]_vars => WInv'
<1> SUFFICES ASSUME IInv, IInv', WInv, [Next]_vars PROVE WInv' OBVIOUS
<1>0. TypeOK /\ TypeOK' BY DEF IInv
<1>1. CASE Mine \/ ChainTask BY <1>0, <1>1, ChainKeepsWarm
<1>2. ASSUME NEW r \in Requests, \/ Ask(r) \/ Abandon(r) \/ AnswerFresh(r)
                                \/ AnswerStale(r) \/ AwaitRebuild(r)
      PROVE WInv'
  BY <1>0, <1>2, RequestsKeepWarm
<1>3. CASE WarmTick BY <1>0, <1>3, WarmTickKeepsWarm
<1>4. CASE Refresh BY <1>0, <1>4, RefreshKeepsWarm
<1>5. CASE Tick BY <1>0, <1>5, TickKeepsWarm
<1>6. CASE UNCHANGED vars
  BY <1>6 DEF vars, WInv, Started, Young, Queued
<1> QED BY <1>1, <1>2, <1>3, <1>4, <1>5, <1>6 DEF Next, ChainTask, Refresh

(* With room for the TTL and one check before the staleness bound, the     *)
(* warm loop alone keeps the copy below the bound as long as no refresh    *)
(* fails, whoever else is in the queue and however long checks take.       *)
THEOREM SeedWarmKeepsYoung ==
    ASSUME Ttl + Warm + MaxCheck <= StaleMax
    PROVE  Spec => []WarmKeepsYoung
<1>1. IInv /\ WInv => WarmKeepsYoung
  <2> SUFFICES ASSUME IInv, WInv, cache # NoCopy, ~missed PROVE age < StaleMax
    BY DEF WarmKeepsYoung
  <2>1. {age, warmIn, check.elapsed, Ttl, StaleMax, Warm, MaxCheck} \subseteq Nat
    BY Figures DEF IInv
  <2>2. check.elapsed <= MaxCheck BY CheckFields, <2>1
  <2> QED BY <2>1, <2>2 DEF WInv, Young
<1>2. Spec => []WInv
  BY InitWInv, NextWInv, SpecIInv, PTL DEF Spec
<1> QED BY <1>1, <1>2, SpecIInv, PTL

-----------------------------------------------------------------------------
(* What requests are answered with. A request waits in the queue exactly   *)
(* once, so nobody else is answered in its turn and its own record stands  *)
(* until the turn ends; what the turn read is of the version the request   *)
(* saw or of a later one.                                                  *)
QueueOk ==
    /\ \A i, j \in 1 .. Len(turn) : turn[i] = turn[j] => i = j
    /\ \A i \in 1 .. Len(turn) :
           turn[i] \in Requests => request[turn[i]].at = "queued"

VersionsOk ==
    /\ \A r \in Requests : request[r].version <= version
    /\ check.at \in {"members", "chain"} /\ Holder \in Requests =>
           request[Holder].version <= check.version

AInv == QueueOk /\ VersionsOk /\ AnswersAreRecent

LEMMA InitAInv == Init => AInv
  BY DEF Init, AInv, QueueOk, VersionsOk, AnswersAreRecent, NotChecking, Unasked

(* Queues with nobody in them twice.                                       *)
Distinct(q) == \A i, j \in 1 .. Len(q) : q[i] = q[j] => i = j

LEMMA JoinedDistinct ==
    ASSUME NEW S, NEW q \in Seq(S), NEW t \in S, Distinct(q),
           \A i \in 1 .. Len(q) : q[i] # t
    PROVE  Distinct(Append(q, t))
  BY DEF Distinct

LEMMA TailDistinct ==
    ASSUME NEW S, NEW q \in Seq(S), q # <<>>, Distinct(q)
    PROVE  /\ Distinct(Tail(q))
           /\ \A i \in 1 .. Len(Tail(q)) :
                  Tail(q)[i] # Head(q) /\ \E j \in 1 .. Len(q) : Tail(q)[i] = q[j]
<1>1. /\ Len(q) \in Nat \ {0} /\ Len(Tail(q)) = Len(q) - 1 /\ Head(q) = q[1]
      /\ \A i \in 1 .. Len(Tail(q)) : Tail(q)[i] = q[i + 1]
  OBVIOUS
<1>2. ASSUME NEW i \in 1 .. Len(Tail(q))
      PROVE  i + 1 \in 1 .. Len(q) /\ i + 1 # 1 /\ 1 \in 1 .. Len(q)
  BY <1>1
<1>3. ASSUME NEW i \in 1 .. Len(Tail(q)), NEW j \in 1 .. Len(Tail(q)), Tail(q)[i] = Tail(q)[j]
      PROVE  i = j
  <2>1. i + 1 = j + 1 BY <1>1, <1>2, <1>3 DEF Distinct
  <2> QED BY <2>1
<1>4. ASSUME NEW i \in 1 .. Len(Tail(q))
      PROVE  Tail(q)[i] # Head(q) /\ \E j \in 1 .. Len(q) : Tail(q)[i] = q[j]
  BY <1>1, <1>2 DEF Distinct
<1> QED BY <1>3, <1>4 DEF Distinct

(* The task that is taken out is gone, and the others keep their order.    *)
LEMMA WithoutDistinct ==
    ASSUME NEW S, NEW q \in Seq(S), NEW t, Distinct(q),
           NEW k \in 1 .. Len(q), q[k] = t
    PROVE  /\ Len(Without(q, t)) = Len(q) - 1
           /\ \A i \in 1 .. Len(q) - 1 :
                  Without(q, t)[i] = IF i < k THEN q[i] ELSE q[i + 1]
           /\ Distinct(Without(q, t))
           /\ \A i \in 1 .. Len(q) - 1 : Without(q, t)[i] # t
<1>1. Len(q) \in Nat /\ Len(q) - 1 \in Nat /\ k \in Nat OBVIOUS
<1>2. Len(Without(q, t)) = Len(q) - 1 BY <1>1 DEF Without
<1>3. ASSUME NEW i \in 1 .. Len(q) - 1
      PROVE  Without(q, t)[i] = IF i < k THEN q[i] ELSE q[i + 1]
  <2>1. Without(q, t)[i] = IF \A j \in 1 .. i : q[j] # t THEN q[i] ELSE q[i + 1]
    BY <1>1 DEF Without
  <2>2. (\A j \in 1 .. i : q[j] # t) <=> i < k
    <3>1. ASSUME i < k, NEW j \in 1 .. i PROVE q[j] # t
      <4>1. j \in 1 .. Len(q) /\ j # k BY <1>1, <3>1
      <4> QED BY <4>1 DEF Distinct
    <3>2. ASSUME ~(i < k) PROVE k \in 1 .. i
      BY <1>1, <3>2
    <3> QED BY <3>1, <3>2
  <2> QED BY <2>1, <2>2
<1> DEFINE At(i) == IF i < k THEN i ELSE i + 1
<1>4. \A i \in 1 .. Len(q) - 1 :
          At(i) \in 1 .. Len(q) /\ At(i) # k /\ Without(q, t)[i] = q[At(i)]
  BY <1>1, <1>3
<1>5. \A i, j \in 1 .. Len(q) - 1 : At(i) = At(j) => i = j
  BY <1>1
<1> HIDE DEF At
<1>6. Distinct(Without(q, t)) BY <1>2, <1>4, <1>5 DEF Distinct
<1>7. \A i \in 1 .. Len(q) - 1 : Without(q, t)[i] # t BY <1>4 DEF Distinct
<1> QED BY <1>2, <1>3, <1>6, <1>7

(* A step that leaves requests, queue and versions as they are.            *)
LEMMA ChainKeepsAnswers ==
    ASSUME IInv, AInv, Mine \/ ChainTask PROVE AInv'
<1>1. /\ UNCHANGED <<turn, request, check>>
      /\ version' = version \/ version' = version + 1
  BY DEF Mine, ChainTask, Reconcile, MarkSynced, Apply, Advance, Bump, Drifted, cacheVars
<1>2. version \in Nat /\ \A r \in Requests : request[r].version \in Nat
  BY DEF IInv, TypeOK, ChainTypes, RequestTypes
<1> QED BY <1>1, <1>2 DEF AInv, QueueOk, VersionsOk, AnswersAreRecent, Holder

(* A request that is not in the queue is asked, answered or given up.      *)
LEMMA OutsideKeepsAnswers ==
    ASSUME IInv, AInv, NEW r \in Requests, request[r].at # "queued",
           NEW new, request' = [request EXCEPT ![r] = new],
           new.version <= version,
           new.at \in {"fresh", "stale", "verified"} => new.copy.version >= new.version,
           version' = version,
           \/ UNCHANGED <<turn, check>>
           \/ turn = <<>> /\ turn' = <<"background">> /\ check'.at = "block"
    PROVE  AInv'
<1>1. request'[r] = new /\ \A q \in Requests \ {r} : request'[q] = request[q]
  BY DEF IInv, TypeOK, RequestTypes
<1>2. \A i \in 1 .. Len(turn) : turn[i] # r BY DEF AInv, QueueOk
<1>3. check.at \in {"members", "chain"} => Holder # r
  <2> SUFFICES ASSUME check.at \in {"members", "chain"} PROVE Holder # r OBVIOUS
  <2>1. turn \in Seq(Tasks) /\ turn # <<>> BY TurnFacts DEF IInv, HolderReads
  <2>2. Head(turn) = turn[1] /\ 1 \in 1 .. Len(turn) BY <2>1
  <2> QED BY <1>2, <2>2 DEF Holder
<1>4. QueueOk'
  <2>1. CASE UNCHANGED turn BY <1>1, <1>2, <2>1 DEF AInv, QueueOk
  <2>2. CASE turn' = <<"background">> BY <2>2, NamesAssumption DEF QueueOk
  <2> QED BY <2>1, <2>2
<1>5. VersionsOk' BY <1>1, <1>3 DEF AInv, VersionsOk, Holder
<1>6. AnswersAreRecent' BY <1>1 DEF AInv, AnswersAreRecent
<1> QED BY <1>4, <1>5, <1>6 DEF AInv

(* The turn passes on, and the holder is answered if it is a request.      *)
LEMMA PassedKeepsAnswers ==
    ASSUME IInv, AInv, check.at # "none", Passed, version' = version,
           \/ request' = request
           \/ /\ Holder \in Requests
              /\ \E new : /\ request' = [request EXCEPT ![Holder] = new]
                          /\ new.version <= version
                          /\ new.at \in {"fresh", "stale", "verified"} =>
                                 new.copy.version >= new.version
    PROVE  AInv'
<1>1. turn \in Seq(Tasks) /\ turn # <<>> /\ turn' = Tail(turn)
  BY TurnFacts DEF IInv, HolderReads, Passed
<1>2. check'.at \in {"none", "turn"} BY DEF Passed, Begun, NotChecking
<1>3. /\ Distinct(turn')
      /\ \A i \in 1 .. Len(turn') :
             turn'[i] # Holder /\ \E j \in 1 .. Len(turn) : turn'[i] = turn[j]
  BY <1>1, TailDistinct DEF AInv, QueueOk, Distinct, Holder
<1>4. \A q \in Requests : q # Holder => request'[q] = request[q]
  BY DEF IInv, TypeOK, RequestTypes
<1>5. QueueOk' BY <1>3, <1>4 DEF AInv, QueueOk, Distinct
<1>6. CASE request' = request
  BY <1>2, <1>5, <1>6 DEF AInv, VersionsOk, AnswersAreRecent
<1>7. ASSUME Holder \in Requests, NEW new,
             request' = [request EXCEPT ![Holder] = new], new.version <= version,
             new.at \in {"fresh", "stale", "verified"} => new.copy.version >= new.version
      PROVE  AInv'
  <2>1. request'[Holder] = new BY <1>7 DEF IInv, TypeOK, RequestTypes
  <2> QED BY <1>2, <1>4, <1>5, <1>7, <2>1 DEF AInv, VersionsOk, AnswersAreRecent
<1> QED BY <1>6, <1>7

(* A request or the warm loop joins the queue, where it is not yet.        *)
LEMMA JoinedKeepsAnswers ==
    ASSUME IInv, AInv, NEW t \in Tasks, turn' = Joined(t), version' = version,
           check' = IF turn = <<>> THEN Begun(turn') ELSE check,
           \A i \in 1 .. Len(turn) : turn[i] # t,
           \A q \in Requests : /\ request'[q].version = request[q].version
                               /\ q # t => request'[q] = request[q],
           t \in Requests => request'[t].at = "queued"
    PROVE  AInv'
<1>1. turn \in Seq(Tasks) BY TurnFacts
<1>2. /\ Len(turn') = Len(turn) + 1 /\ turn'[Len(turn) + 1] = t /\ Len(turn) \in Nat
      /\ \A i \in 1 .. Len(turn) : turn'[i] = turn[i]
  BY <1>1 DEF Joined
<1>3. Distinct(turn') BY <1>1, JoinedDistinct DEF AInv, QueueOk, Distinct, Joined
<1>4. \A i \in 1 .. Len(turn') : turn'[i] \in Requests => request'[turn'[i]].at = "queued"
  <2> SUFFICES ASSUME NEW i \in 1 .. Len(turn'), turn'[i] \in Requests
               PROVE  request'[turn'[i]].at = "queued"
    OBVIOUS
  <2>1. CASE i \in 1 .. Len(turn) BY <1>2, <2>1 DEF AInv, QueueOk
  <2>2. CASE i = Len(turn) + 1 BY <1>2, <2>2
  <2> QED BY <1>2, <2>1, <2>2
<1>5. VersionsOk'
  <2>1. CASE turn = <<>>
    <3>1. check'.at \in {"none", "turn"} BY <2>1 DEF Begun, NotChecking
    <3> QED BY <3>1 DEF AInv, VersionsOk
  <2>2. CASE turn # <<>>
    <3>1. Head(turn') = Head(turn) BY <1>1, <2>2 DEF Joined
    <3> QED BY <2>2, <3>1 DEF AInv, VersionsOk, Holder
  <2> QED BY <2>1, <2>2
<1>6. AnswersAreRecent' BY DEF AInv, AnswersAreRecent
<1> QED BY <1>3, <1>4, <1>5, <1>6 DEF AInv, QueueOk, Distinct

LEMMA RequestVersion ==
    ASSUME IInv, NEW r \in Requests
    PROVE  request[r].version \in Nat /\ version \in Nat
  BY DEF IInv, TypeOK, RequestTypes, ChainTypes

LEMMA RequestsKeepAnswers ==
    ASSUME IInv, AInv, NEW r \in Requests,
           \/ Ask(r) \/ Abandon(r) \/ AnswerFresh(r) \/ AnswerStale(r)
           \/ AwaitRebuild(r)
    PROVE  AInv'
<1>0. request[r].version <= version /\ version \in Nat
  BY RequestVersion DEF AInv, VersionsOk
<1>1. CASE Ask(r)
  <2> DEFINE new == [at |-> "asked", version |-> version, copy |-> NoCopy, age |-> 0]
  <2>1. /\ request' = [request EXCEPT ![r] = new] /\ request[r].at # "queued"
        /\ version' = version /\ UNCHANGED <<turn, check>>
    BY <1>1 DEF Ask, chainVars, cacheVars
  <2>2. new.version <= version /\ new.at \notin {"fresh", "stale", "verified"}
    BY <1>0
  <2> HIDE DEF new
  <2> QED BY <2>1, <2>2, OutsideKeepsAnswers
<1>2. CASE AnswerFresh(r) \/ AnswerStale(r)
  <2>1. PICK at \in {"fresh", "stale"} : request' = Reply(r, at, cache, age)
    BY <1>2 DEF AnswerFresh, AnswerStale
  <2> DEFINE new == [at |-> at, version |-> request[r].version, copy |-> cache, age |-> age]
  <2>2. request' = [request EXCEPT ![r] = new] BY <2>1 DEF Reply
  <2>3. cache.version = request[r].version
    BY <1>2 DEF AnswerFresh, AnswerStale, UseOf, Current
  <2>4. /\ request[r].at # "queued" /\ version' = version
        /\ \/ UNCHANGED <<turn, check>>
           \/ turn = <<>> /\ turn' = <<"background">> /\ check'.at = "block"
    BY <1>2 DEF AnswerFresh, AnswerStale, chainVars, cacheVars, NotChecking
  <2>5. new.version <= version /\ new.copy.version >= new.version
    BY <1>0, <2>3, RequestVersion
  <2> HIDE DEF new
  <2> QED BY <2>2, <2>4, <2>5, OutsideKeepsAnswers
<1>3. CASE AwaitRebuild(r)
  <2>1. /\ turn' = Joined(r) /\ version' = version /\ request[r].at = "asked"
        /\ check' = IF turn = <<>> THEN Begun(turn') ELSE check
        /\ \E a : request' = Reply(r, "queued", cache, a)
    BY <1>3 DEF AwaitRebuild, chainVars
  <2>2. PICK a : request' = Reply(r, "queued", cache, a) BY <2>1
  <2>3. request' = [request EXCEPT ![r] = [at |-> "queued", version |-> request[r].version,
                                           copy |-> cache, age |-> a]]
    BY <2>2 DEF Reply
  <2>4. /\ request'[r].version = request[r].version /\ request'[r].at = "queued"
        /\ \A q \in Requests \ {r} : request'[q] = request[q]
    BY <2>3 DEF IInv, TypeOK, RequestTypes
  <2>5. \A i \in 1 .. Len(turn) : turn[i] # r BY <2>1 DEF AInv, QueueOk
  <2> QED BY <2>1, <2>4, <2>5, JoinedKeepsAnswers DEF Tasks
<1>4. CASE Abandon(r)
  <2>1. /\ request' = [request EXCEPT ![r] = Unasked] /\ version' = version
        /\ Unasked.version <= version
        /\ Unasked.at \notin {"fresh", "stale", "verified"}
    BY <1>0, <1>4 DEF Abandon, Unasked, chainVars
  <2>2. CASE ~Queued(r) /\ UNCHANGED <<turn, check>>
    <3>1. request'[r] = Unasked /\ \A q \in Requests \ {r} : request'[q] = request[q]
      BY <2>1 DEF IInv, TypeOK, RequestTypes
    <3>2. QueueOk' BY <2>2, <3>1 DEF AInv, QueueOk, Queued
    <3>3. AnswersAreRecent' BY <2>1, <3>1 DEF AInv, AnswersAreRecent
    <3>4. VersionsOk'
      <4>1. check.at \in {"members", "chain"} => Holder # r
        <5>1. turn \in Seq(Tasks) /\ (check.at \in {"members", "chain"} => turn # <<>>)
          BY TurnFacts DEF IInv, HolderReads
        <5>2. turn # <<>> => Head(turn) = turn[1] /\ 1 \in 1 .. Len(turn) BY <5>1
        <5> QED BY <2>2, <5>1, <5>2 DEF Holder, Queued
      <4> QED BY <2>1, <2>2, <3>1, <4>1 DEF AInv, VersionsOk, Holder
    <3> QED BY <3>2, <3>3, <3>4 DEF AInv
  <2>3. CASE Queued(r) /\ Holder = r /\ Passed
    <3>1. turn # <<>> BY <2>3 DEF Queued
    <3>2. check.at # "none" BY <3>1 DEF IInv, HolderReads
    <3> QED BY <2>1, <2>3, <3>2, PassedKeepsAnswers
  <2>4. CASE /\ Queued(r) /\ Holder # r
             /\ turn' = Without(turn, r) /\ UNCHANGED check
    <3>1. PICK k \in 1 .. Len(turn) : turn[k] = r BY <2>4 DEF Queued
    <3>2. turn \in Seq(Tasks) /\ Distinct(turn) BY TurnFacts DEF AInv, QueueOk, Distinct
    <3>3. /\ Len(turn') = Len(turn) - 1 /\ Distinct(turn') /\ Len(turn) \in Nat \ {0}
          /\ \A i \in 1 .. Len(turn) - 1 :
                 turn'[i] = (IF i < k THEN turn[i] ELSE turn[i + 1]) /\ turn'[i] # r
      BY <2>4, <3>1, <3>2, WithoutDistinct
    <3>4. request'[r] = Unasked /\ \A q \in Requests \ {r} : request'[q] = request[q]
      BY <2>1 DEF IInv, TypeOK, RequestTypes
    <3>5. QueueOk'
      <4>1. ASSUME NEW i \in 1 .. Len(turn'), turn'[i] \in Requests
            PROVE  request'[turn'[i]].at = "queued"
        <5>1. i \in 1 .. Len(turn) - 1 /\ i \in 1 .. Len(turn) /\ i + 1 \in 1 .. Len(turn)
          BY <3>3
        <5> QED BY <3>3, <3>4, <4>1, <5>1 DEF AInv, QueueOk
      <4> QED BY <3>3, <4>1 DEF QueueOk, Distinct
    <3>6. turn' # <<>> /\ Head(turn') = Head(turn)
      <4>1. Head(turn) = turn[1] BY <3>2, <3>3
      <4>2. k # 1 /\ k > 1 BY <2>4, <3>1, <4>1 DEF Holder
      <4>3. 1 \in 1 .. Len(turn) - 1 BY <3>1, <3>3, <4>2
      <4>4. turn' \in Seq(Tasks) BY <2>4, <3>2, WithoutType
      <4> QED BY <3>3, <4>1, <4>2, <4>3, <4>4
    <3>7. VersionsOk' BY <2>1, <2>4, <3>4, <3>6 DEF AInv, VersionsOk, Holder
    <3>8. AnswersAreRecent' BY <2>1, <3>4 DEF AInv, AnswersAreRecent
    <3> QED BY <3>5, <3>7, <3>8 DEF AInv
  <2> QED BY <1>4, <2>2, <2>3, <2>4 DEF Abandon
<1> QED BY <1>1, <1>2, <1>3, <1>4

(* A refresh delivers a copy of the version it has read, or of the present *)
(* one, which no request's is ahead of.                                    *)
LEMMA DeliveredKeepsAnswers ==
    ASSUME IInv, AInv, check.at # "none", Passed, version' = version,
           NEW copy, NEW a, Delivered(copy, a),
           Holder \in Requests => copy.version >= request[Holder].version
    PROVE  AInv'
<1>1. CASE Holder \notin Requests
  BY <1>1, PassedKeepsAnswers DEF Delivered
<1>2. CASE Holder \in Requests
  <2> DEFINE new == [at |-> "verified", version |-> request[Holder].version,
                     copy |-> copy, age |-> a]
  <2>1. request' = [request EXCEPT ![Holder] = new]
    BY <1>2 DEF Delivered, Reply
  <2>2. new.version <= version /\ new.copy.version >= new.version
    BY <1>2 DEF AInv, VersionsOk
  <2> HIDE DEF new
  <2> QED BY <1>2, <2>1, <2>2, PassedKeepsAnswers
<1> QED BY <1>1, <1>2

LEMMA FailedKeepsAnswers ==
    ASSUME IInv, AInv, check.at # "none", Failed, version' = version
    PROVE  AInv'
<1>1. Passed BY DEF Failed
<1>2. CASE Holder \notin Requests
  BY <1>1, <1>2, PassedKeepsAnswers DEF Failed
<1>3. CASE Holder \in Requests
  <2> DEFINE new(at, copy, a) == [at |-> at, version |-> request[Holder].version,
                                  copy |-> copy, age |-> a]
  <2> DEFINE held == request[Holder]
  <2>1. \/ request' = [request EXCEPT ![Holder] = new("fallback", held.copy, held.age)]
        \/ request' = [request EXCEPT ![Holder] = new("refused", NoCopy, 0)]
    BY <1>3 DEF Failed, Reply
  <2>2. ASSUME NEW entry, request' = [request EXCEPT ![Holder] = entry],
               entry.version = held.version, entry.at \in {"fallback", "refused"}
        PROVE  AInv'
    <3>1. entry.version <= version /\ entry.at \notin {"fresh", "stale", "verified"}
      BY <1>3, <2>2 DEF AInv, VersionsOk
    <3> QED BY <1>1, <1>3, <2>2, <3>1, PassedKeepsAnswers
  <2> QED BY <2>1, <2>2
<1> QED BY <1>2, <1>3

LEMMA RefreshKeepsAnswers ==
    ASSUME IInv, AInv, Refresh PROVE AInv'
<1>1. version' = version
  BY DEF Refresh, FoundFresh, NotFresh, ReadBlock, ReadVersion, ReadMembers, Verified,
         Rejected, ChainFails, chainVars
<1>2. CASE FoundFresh
  <2>1. check.at # "none" /\ Passed /\ Delivered(cache, age) /\ cache.version = version
    BY <1>2 DEF FoundFresh, UseOf, Current
  <2>2. Holder \in Requests => cache.version >= request[Holder].version
    BY <2>1, RequestVersion DEF AInv, VersionsOk
  <2> QED BY <1>1, <2>1, <2>2, DeliveredKeepsAnswers
<1>3. CASE Verified
  <2> DEFINE copy == [block |-> check.block, version |-> check.version,
                      members |-> check.members]
  <2>1. /\ check.at = "chain" /\ Passed /\ Delivered(copy, 0)
    BY <1>3 DEF Verified
  <2>2. Holder \in Requests => copy.version >= request[Holder].version
    BY <2>1, CheckFields, RequestVersion DEF AInv, VersionsOk
  <2> HIDE DEF copy
  <2> QED BY <1>1, <2>1, <2>2, DeliveredKeepsAnswers
<1>4. CASE Failed /\ check.at # "none"
  BY <1>1, <1>4, FailedKeepsAnswers
<1>5. CASE /\ UNCHANGED <<turn, request>>
           /\ check'.at \in {"members", "chain"} =>
                  \/ check'.version = version
                  \/ check.at = "members" /\ check'.version = check.version
  BY <1>1, <1>5 DEF AInv, QueueOk, VersionsOk, AnswersAreRecent, Holder
<1>6. CASE NotFresh
  BY <1>5, <1>6, CheckFields DEF NotFresh
<1>7. CASE ReadBlock
  BY <1>4, <1>5, <1>7, CheckFields DEF ReadBlock
<1>8. CASE ReadVersion
  BY <1>5, <1>8, CheckFields DEF ReadVersion
<1>9. CASE ReadMembers
  BY <1>4, <1>5, <1>9, CheckFields DEF ReadMembers
<1>10. CASE Rejected \/ ChainFails
  BY <1>4, <1>10 DEF Rejected, ChainFails
<1> QED BY <1>2, <1>3, <1>6, <1>7, <1>8, <1>9, <1>10 DEF Refresh

LEMMA OthersKeepAnswers ==
    ASSUME IInv, AInv, WarmTick \/ Tick \/ UNCHANGED vars PROVE AInv'
<1>1. CASE UNCHANGED <<turn, check, request, version>>
  BY <1>1 DEF AInv, QueueOk, VersionsOk, AnswersAreRecent, Holder
<1>2. CASE WarmTick
  <2>1. CASE lastBlock = 0 BY <1>1, <1>2, <2>1 DEF WarmTick, chainVars
  <2>2. CASE lastBlock # 0
    <3>1. /\ turn' = Joined("warm") /\ version' = version /\ request' = request
          /\ check' = IF turn = <<>> THEN Begun(turn') ELSE check
          /\ \A i \in 1 .. Len(turn) : turn[i] # "warm"
      BY <1>2, <2>2 DEF WarmTick, chainVars, Queued
    <3>2. "warm" \in Tasks /\ "warm" \notin Requests BY NamesAssumption DEF Tasks
    <3> QED BY <3>1, <3>2, JoinedKeepsAnswers
  <2> QED BY <2>1, <2>2
<1>3. CASE Tick
  <2>1. /\ turn' = turn /\ version' = version
        /\ check'.at = check.at /\ check'.version = check.version
    BY <1>3, CheckFields DEF Tick, chainVars
  <2>2. \A r \in Requests : /\ request'[r].at = request[r].at
                            /\ request'[r].version = request[r].version
                            /\ request'[r].copy = request[r].copy
    BY <1>3 DEF Tick, IInv, TypeOK, RequestTypes
  <2> QED BY <2>1, <2>2 DEF AInv, QueueOk, VersionsOk, AnswersAreRecent, Holder
<1>4. CASE UNCHANGED vars BY <1>1, <1>4 DEF vars
<1> QED BY <1>2, <1>3, <1>4

(* However long a request waits, and whoever renews the copy meanwhile: it *)
(* is answered with a membership at least as new as the one announced when *)
(* it asked, or falls back after a failed refresh.                         *)
THEOREM SeedAnswersAreRecent == Spec => []AnswersAreRecent
<1>1. IInv /\ AInv /\ [Next]_vars => AInv'
  BY ChainKeepsAnswers, RequestsKeepAnswers, RefreshKeepsAnswers, OthersKeepAnswers
     DEF Next, ChainTask, Refresh
<1>2. AInv => AnswersAreRecent BY DEF AInv
<1> QED BY <1>1, <1>2, InitAInv, SpecIInv, PTL DEF Spec

=============================================================================
