--------------------------- MODULE NodeWatchProofs ---------------------------
(***************************************************************************)
(* Theorems about NodeWatch, for any nodes, URLs and bounds: types, that a *)
(* served member has a registered row, that nobody but the chain task      *)
(* brings a node into the map, that the map agrees with the registry once  *)
(* every event is applied, and that metrics belong to a subscription.      *)
(***************************************************************************)
EXTENDS NodeWatch, TLAPS

(* What the chain task is about to do is backed by rows already written.   *)
TaskBacked ==
    /\ task.at \in {"persist", "insert", "forget"} => task.node \in Nodes
    /\ task.at \in {"persist", "insert"} => task.fresh[task.node] # None
    /\ task.at = "insert" => Registered(row[task.node])
    /\ task.at = "forget" =>
           \A n \in Members(served) \ ({task.node} \union unsure) : Registered(row[n])
    /\ task.at = "upsert" =>
           /\ task.todo \subseteq Members(task.fresh)
           /\ \A n \in Members(task.fresh) \ task.todo : Registered(row[n])
    /\ task.at = "replace" => \A n \in Members(task.fresh) : Registered(row[n])

(* A write of the uptime loop is about a node.                             *)
RoundBacked == round.at \in {"writing", "written"} => round.node \in Nodes

IInv == TypeOK /\ TaskBacked /\ RoundBacked /\ ServedIsStored

TaskSet == [at : {"idle", "persist", "insert", "forget", "resync",
                  "profiles", "upsert", "replace"},
            node : Nodes \union {None}, todo : SUBSET Nodes,
            before : [Nodes -> Known \union {None}],
            fresh : [Nodes -> Known \union {None}]]
RoundSet == [at : {"idle", "probing", "applying", "writing", "written"},
             todo : SUBSET Nodes, probed : SUBSET Nodes,
             up : SUBSET Nodes, node : Nodes \union {None}]
Nobody == [n \in Nodes |-> None]

-----------------------------------------------------------------------------
LEMMA NoRecord == None \notin Known /\ None \notin Rows /\ Known \subseteq Rows
  BY NodeWatchAssumption DEF Known, Rows, Statuses

(* A row with a status of its own is registered.                           *)
LEMMA KnownRegistered == \A r \in Known : Registered(r)
  BY NoRecord DEF Known, Registered, Statuses

LEMMA RegisteredKnown == \A r \in Rows \union {None} : Registered(r) => r \in Known
  BY DEF Rows, Known, Registered

LEMMA TaskRecord ==
    ASSUME NEW at \in {"idle", "persist", "insert", "forget", "resync",
                       "profiles", "upsert", "replace"},
           NEW node \in Nodes \union {None}, NEW todo \in SUBSET Nodes,
           NEW before \in [Nodes -> Known \union {None}],
           NEW fresh \in [Nodes -> Known \union {None}]
    PROVE  [at |-> at, node |-> node, todo |-> todo, before |-> before,
            fresh |-> fresh] \in TaskSet
  BY DEF TaskSet

LEMMA IdleType ==
    /\ Nobody \in [Nodes -> Known \union {None}]
    /\ Idle \in TaskSet /\ Resync \in TaskSet /\ Resting \in RoundSet
    /\ Idle = [at |-> "idle", node |-> None, todo |-> {}, before |-> Nobody,
               fresh |-> Nobody]
    /\ Resync = [at |-> "resync", node |-> None, todo |-> {}, before |-> Nobody,
                 fresh |-> Nobody]
<1>1. Nobody \in [Nodes -> Known \union {None}] BY DEF Nobody
<1>2. Idle = [at |-> "idle", node |-> None, todo |-> {}, before |-> Nobody,
              fresh |-> Nobody]
  BY DEF Idle, Nobody
<1>3. Resync = [at |-> "resync", node |-> None, todo |-> {}, before |-> Nobody,
                fresh |-> Nobody]
  BY <1>2 DEF Resync
<1>4. Resting \in RoundSet BY DEF Resting, RoundSet
<1>5. Idle \in TaskSet BY <1>1, <1>2, TaskRecord
<1>6. Resync \in TaskSet BY <1>1, <1>3, TaskRecord
<1> QED BY <1>1, <1>2, <1>3, <1>4, <1>5, <1>6

LEMMA LoadedType ==
    ASSUME row \in [Nodes -> Rows \union {None}]
    PROVE  /\ Loaded \in [Nodes -> Known \union {None}]
           /\ \A n \in Members(Loaded) : Registered(row[n])
  BY RegisteredKnown DEF Loaded, Members

LEMMA InitIInv == Init => IInv
<1> SUFFICES ASSUME Init PROVE IInv OBVIOUS
<1>1. row \in [Nodes -> Rows \union {None}]
  BY DEF Init, Rows, Statuses
<1>2. served \in [Nodes -> Known \union {None}] BY <1>1, LoadedType DEF Init
<1>3. /\ events \in Seq([kind : {"refresh", "remove"}, node : Nodes])
      /\ mined \in 0 .. MaxEvents /\ flips \in 0 .. MaxFlips
      /\ faults \in 0 .. MaxFaults
  BY NodeWatchAssumption DEF Init
<1>4. scraper \in [Nodes -> {"idle", "checked", "saving"}]
      /\ sub \in [Nodes -> Urls \union {None}]
  BY DEF Init
<1>5. TypeOK
  BY <1>1, <1>2, <1>3, <1>4, IdleType DEF Init, TypeOK, TaskSet, RoundSet
<1>6. task.at = "resync" BY IdleType DEF Init
<1>7. round.at = "idle" BY DEF Init, Resting
<1> QED BY <1>5, <1>6, <1>7 DEF IInv, TaskBacked, RoundBacked, ServedIsStored

-----------------------------------------------------------------------------
(* The type invariant in parts, and the variables each part is about.      *)
WorldOK == /\ registry \in [Nodes -> Urls \union {None}]
           /\ events \in Seq([kind : {"refresh", "remove"}, node : Nodes])
           /\ mined \in 0 .. MaxEvents
           /\ alive \in SUBSET Nodes /\ flips \in 0 .. MaxFlips
           /\ unsure \in SUBSET Nodes /\ missed \in SUBSET Nodes
RowOK == row \in [Nodes -> Rows \union {None}]
ServedOK == served \in [Nodes -> Known \union {None}]
WatchOK == /\ sub \in [Nodes -> Urls \union {None}]
           /\ scraper \in [Nodes -> {"idle", "checked", "saving"}]
           /\ late \in SUBSET Nodes
KeptOK == metrics \in SUBSET Nodes /\ strayed \in SUBSET Nodes
FaultsOK == faults \in 0 .. MaxFaults

LEMMA TypeParts ==
    TypeOK <=> /\ WorldOK /\ RowOK /\ ServedOK /\ WatchOK /\ KeptOK /\ FaultsOK
               /\ task \in TaskSet /\ round \in RoundSet
  BY DEF TypeOK, WorldOK, RowOK, ServedOK, WatchOK, KeptOK, FaultsOK,
         TaskSet, RoundSet

LEMMA TypePartsNext ==
    TypeOK' <=> /\ WorldOK' /\ RowOK' /\ ServedOK' /\ WatchOK' /\ KeptOK'
                /\ FaultsOK' /\ task' \in TaskSet /\ round' \in RoundSet
  BY DEF TypeOK, WorldOK, RowOK, ServedOK, WatchOK, KeptOK, FaultsOK,
         TaskSet, RoundSet

LEMMA KeepWorld == ASSUME WorldOK, UNCHANGED world PROVE WorldOK'
  BY DEF WorldOK, world
LEMMA KeepWatch == ASSUME WatchOK, UNCHANGED watch PROVE WatchOK'
  BY DEF WatchOK, watch
LEMMA KeepKept == ASSUME KeptOK, UNCHANGED kept PROVE KeptOK'
  BY DEF KeptOK, kept
LEMMA FaultType == ASSUME FaultsOK, Fault \/ faults' = faults PROVE FaultsOK'
  BY NodeWatchAssumption DEF FaultsOK, Fault

(* A step that leaves rows, map and chain task alone keeps the invariant.  *)
LEMMA Frame ==
    ASSUME IInv, TypeOK', UNCHANGED <<row, served, task, unsure>>, RoundBacked'
    PROVE  IInv'
  BY DEF IInv, TaskBacked, ServedIsStored, Members

LEMMA MineKeeps == ASSUME IInv, Mine PROVE IInv'
<1>1. mined' \in 0 .. MaxEvents
  BY NodeWatchAssumption DEF Mine, IInv, TypeOK
<1>2. PICK n \in Nodes, url \in Urls \union {None} :
          /\ registry' = [registry EXCEPT ![n] = url]
          /\ events' = Append(events,
                 [kind |-> IF url = None THEN "remove" ELSE "refresh", node |-> n])
  BY DEF Mine
<1>3. registry' \in [Nodes -> Urls \union {None}]
  BY <1>2 DEF IInv, TypeOK
<1>4. [kind |-> IF url = None THEN "remove" ELSE "refresh", node |-> n]
          \in [kind : {"refresh", "remove"}, node : Nodes]
  OBVIOUS
<1>5. events' \in Seq([kind : {"refresh", "remove"}, node : Nodes])
  BY <1>2, <1>4 DEF IInv, TypeOK
<1>6. TypeOK' BY <1>1, <1>3, <1>5 DEF Mine, IInv, TypeOK, watch, kept
<1> QED BY <1>6, Frame DEF Mine, IInv, RoundBacked

LEMMA FlipKeeps == ASSUME IInv, Flip PROVE IInv'
<1>1. flips' \in 0 .. MaxFlips
  BY NodeWatchAssumption DEF Flip, IInv, TypeOK
<1>2. alive' \in SUBSET Nodes BY DEF Flip, IInv, TypeOK
<1>3. TypeOK' BY <1>1, <1>2 DEF Flip, IInv, TypeOK, watch, kept
<1> QED BY <1>3, Frame DEF Flip, IInv, RoundBacked

LEMMA ScrapersKeep == ASSUME IInv, Scrapers PROVE IInv'
<1>1. /\ UNCHANGED <<world, row, served, task, round, sub, faults>>
      /\ scraper' \in [Nodes -> {"idle", "checked", "saving"}]
      /\ late' \in SUBSET Nodes
      /\ metrics' \in SUBSET Nodes /\ strayed' \in SUBSET Nodes
  <2>1. CASE Scrape BY <2>1 DEF Scrape, IInv, TypeOK, kept
  <2>2. CASE Saved BY <2>2 DEF Saved, IInv, TypeOK, kept
  <2>3. CASE Store BY <2>3 DEF Store, IInv, TypeOK
  <2>4. CASE LateStore BY <2>4 DEF LateStore, IInv, TypeOK
  <2> QED BY <2>1, <2>2, <2>3, <2>4 DEF Scrapers
<1>2. TypeOK' BY <1>1 DEF IInv, TypeOK, world
<1> QED BY <1>1, <1>2, Frame DEF IInv, RoundBacked, world

LEMMA ManageKeeps == ASSUME IInv, Manage PROVE IInv'
<1>1. Wanted \in [Nodes -> Urls \union {None}]
  BY DEF Wanted, IInv, TypeOK, Known
<1>2. Stopped \subseteq Nodes BY DEF Stopped, Changed
<1>3. WatchOK' BY <1>1, <1>2, TypeParts DEF Manage, IInv, WatchOK
<1>4. KeptOK' BY <1>2, TypeParts DEF Manage, IInv, KeptOK
<1>5. TypeOK'
  BY <1>3, <1>4, TypeParts, TypePartsNext, KeepWorld, FaultType
     DEF Manage, IInv, RowOK, ServedOK
<1> QED BY <1>5, Frame DEF Manage, IInv, RoundBacked, world

-----------------------------------------------------------------------------
(* The uptime loop changes a row or a served entry only in its status, so  *)
(* a registered row stays registered.                                      *)
LEMMA RoundRecord ==
    ASSUME NEW at \in {"idle", "probing", "applying", "writing", "written"},
           NEW todo \in SUBSET Nodes, NEW probed \in SUBSET Nodes,
           NEW up \in SUBSET Nodes, NEW node \in Nodes \union {None}
    PROVE  [at |-> at, todo |-> todo, probed |-> probed, up |-> up,
            node |-> node] \in RoundSet
  BY DEF RoundSet

LEMMA WithoutType ==
    ASSUME round \in RoundSet, NEW n
    PROVE  Without(n) \in RoundSet /\ Without(n).at = "applying"
  BY DEF RoundSet, Without

(* Probing and looking at the results touch nothing but the round.         *)
LEMMA ProbingKeeps ==
    ASSUME IInv,
           LoadTargets \/ Probe \/ ProbesIn \/ Unchanged \/ Decide \/ EndRound
    PROVE  IInv'
<1>1. /\ UNCHANGED <<world, row, served, task, watch, kept, faults>>
      /\ round' \in RoundSet
      /\ RoundBacked'
  <2>0. round \in RoundSet BY TypeParts DEF IInv
  <2>1. CASE LoadTargets
    BY <2>1 DEF LoadTargets, RoundSet, RoundBacked, Targets, Resting
  <2>2. CASE Probe
    <3>1. PICK n \in round.todo :
              round' = [round EXCEPT !.todo = round.todo \ {n},
                                     !.probed = round.probed \union {n},
                                     !.up = round.up \union ({n} \intersect alive)]
      BY <2>2 DEF Probe
    <3>2. round' = [at |-> round.at, todo |-> round.todo \ {n},
                    probed |-> round.probed \union {n},
                    up |-> round.up \union ({n} \intersect alive),
                    node |-> round.node]
      BY <2>0, <3>1 DEF RoundSet
    <3>3. /\ round.at \in {"idle", "probing", "applying", "writing", "written"}
          /\ round.todo \ {n} \in SUBSET Nodes
          /\ round.probed \union {n} \in SUBSET Nodes
          /\ round.up \union ({n} \intersect alive) \in SUBSET Nodes
          /\ round.node \in Nodes \union {None}
      BY <2>0 DEF RoundSet
    <3>4. round' \in RoundSet BY <3>2, <3>3, RoundRecord
    <3> QED BY <2>2, <3>2, <3>4 DEF Probe, RoundBacked
  <2>3. CASE ProbesIn
    BY <2>0, <2>3 DEF ProbesIn, RoundSet, RoundBacked
  <2>4. CASE Unchanged
    BY <2>0, <2>4, WithoutType DEF Unchanged, RoundBacked
  <2>5. CASE Decide
    BY <2>0, <2>5 DEF Decide, RoundSet, RoundBacked
  <2>6. CASE EndRound
    BY <2>6, IdleType DEF EndRound, RoundBacked, Resting
  <2> QED BY <2>1, <2>2, <2>3, <2>4, <2>5, <2>6
<1>2. TypeOK'
  BY <1>1, TypeParts, TypePartsNext, KeepWorld, KeepWatch, KeepKept, FaultType
     DEF IInv, RowOK, ServedOK
<1> QED BY <1>1, <1>2, Frame DEF world

(* Whoever changes rows without taking a registration away, and leaves the *)
(* map and the chain task alone, keeps what depends on them.               *)
LEMMA RowsGain ==
    ASSUME IInv, UNCHANGED <<served, task, unsure>>, TypeOK',
           \A n \in Nodes : Registered(row[n]) => Registered(row'[n])
    PROVE  TaskBacked' /\ ServedIsStored'
<1>1. TaskBacked'
  <2>1. task.fresh \in [Nodes -> Known \union {None}] BY DEF IInv, TypeOK
  <2> QED BY <2>1 DEF IInv, TaskBacked, Members, Registered
<1>2. ServedIsStored' BY DEF IInv, ServedIsStored, Members, Registered
<1> QED BY <1>1, <1>2

LEMMA ResultStatus == \A n : Result(n) \in Statuses
  BY DEF Result, Statuses

LEMMA WriteRowKeeps == ASSUME IInv, WriteRow PROVE IInv'
<1>1. round \in RoundSet /\ RowOK /\ round.at = "writing" /\ round.node \in Nodes
  BY TypeParts DEF IInv, WriteRow, RoundBacked
<1>2. /\ row' \in [Nodes -> Rows \union {None}]
      /\ \A n \in Nodes : Registered(row[n]) => Registered(row'[n])
  <2> DEFINE r == [status |-> Result(round.node), url |-> row[round.node].url]
  <2>0. \/ row' = row
        \/ row[round.node] # None /\ row' = [row EXCEPT ![round.node] = r]
    BY DEF WriteRow
  <2>1. CASE row' = row BY <1>1, <2>1 DEF RowOK
  <2>2. CASE row[round.node] # None /\ row' = [row EXCEPT ![round.node] = r]
    <3>1. r \in Known
      BY <1>1, <2>2, ResultStatus DEF RowOK, Rows, Known
    <3>2. r \in Rows /\ Registered(r) BY <3>1, NoRecord, KnownRegistered
    <3> QED BY <1>1, <2>2, <3>2 DEF RowOK
  <2> QED BY <2>0, <2>1, <2>2
<1>3. round' \in RoundSet /\ RoundBacked'
  <2>1. CASE round' = [round EXCEPT !.at = "written"]
    BY <1>1, <2>1 DEF RoundSet, RoundBacked
  <2>2. CASE round' = Without(round.node)
    BY <1>1, <2>2, WithoutType DEF RoundBacked
  <2> QED BY <2>1, <2>2 DEF WriteRow
<1>4. TypeOK'
  BY <1>2, <1>3, TypeParts, TypePartsNext, KeepWorld, KeepWatch, KeepKept, FaultType
     DEF IInv, RowOK, ServedOK, WriteRow
<1> QED BY <1>2, <1>3, <1>4, RowsGain DEF IInv, WriteRow, world

LEMMA ApplyStatusKeeps == ASSUME IInv, ApplyStatus PROVE IInv'
<1>1. round \in RoundSet /\ ServedOK /\ round.node \in Nodes
  BY TypeParts DEF IInv, ApplyStatus, RoundBacked
<1>2. ServedOK' /\ Members(served') = Members(served)
  <2> DEFINE r == [status |-> Result(round.node), url |-> served[round.node].url]
  <2>1. CASE served' = served BY <1>1, <2>1 DEF ServedOK
  <2>2. CASE served[round.node] # None /\ served' = [served EXCEPT ![round.node] = r]
    <3>1. r \in Known /\ r # None
      BY <1>1, <2>2, ResultStatus, NoRecord DEF ServedOK, Known
    <3> QED BY <1>1, <2>2, <3>1 DEF ServedOK, Members
  <2> QED BY <2>1, <2>2 DEF ApplyStatus, NeedsUpdate
<1>3. round' \in RoundSet /\ RoundBacked'
  BY <1>1, WithoutType DEF RoundBacked, ApplyStatus
<1>4. TypeOK'
  BY <1>2, <1>3, TypeParts, TypePartsNext, KeepWorld, KeepWatch, KeepKept, FaultType
     DEF IInv, RowOK, ApplyStatus
<1>5. row' = row /\ task' = task /\ unsure' = unsure BY DEF ApplyStatus, world
<1>6. TaskBacked' BY <1>2, <1>5 DEF IInv, TaskBacked
<1>7. ServedIsStored' BY <1>2, <1>5 DEF IInv, ServedIsStored
<1> QED BY <1>3, <1>4, <1>6, <1>7 DEF IInv

-----------------------------------------------------------------------------
(* The chain task.                                                         *)
LEMMA CarriedKnown ==
    ASSUME NEW old \in Known \union {None}, NEW url \in Urls
    PROVE  Carried(old, url) \in Known /\ Carried(old, url) # None
<1>1. Carried(old, url) \in Known BY DEF Carried, Known, Statuses
<1> QED BY <1>1, NoRecord

LEMMA EventsLeft ==
    ASSUME WorldOK, events # <<>>
    PROVE  /\ Head(events).node \in Nodes
           /\ Tail(events) \in Seq([kind : {"refresh", "remove"}, node : Nodes])
<1> DEFINE E == [kind : {"refresh", "remove"}, node : Nodes]
<1>1. events \in Seq(E) BY DEF WorldOK
<1> HIDE DEF E
<1>2. Head(events) \in E /\ Tail(events) \in Seq(E) BY <1>1
<1> QED BY <1>2 DEF E

(* What is typed before any step of the chain task.                        *)
LEMMA TaskTypes ==
    ASSUME IInv
    PROVE  /\ WorldOK /\ RowOK /\ ServedOK /\ WatchOK /\ KeptOK /\ FaultsOK
           /\ task \in TaskSet /\ round \in RoundSet
  BY TypeParts DEF IInv

(* A step of the chain task that changes no row and not the map.           *)
LEMMA RefreshReadKeeps == ASSUME IInv, RefreshRead PROVE IInv'
<1> DEFINE n == Head(events).node
           r == Carried(served[n], registry[n])
<1>0. n \in Nodes BY TaskTypes, EventsLeft DEF RefreshRead
<1>1. WorldOK'
  BY TaskTypes, EventsLeft DEF RefreshRead, WorldOK
<1>2. CASE registry[n] # None /\ task' = [Idle EXCEPT !.at = "persist", !.node = n,
                                                       !.fresh[n] = r]
  <2>1. r \in Known /\ r # None
    BY <1>0, <1>2, TaskTypes, CarriedKnown DEF WorldOK, ServedOK
  <2> HIDE DEF r, n
  <2>2. task' = [at |-> "persist", node |-> n, todo |-> {}, before |-> Nobody,
                 fresh |-> [Nobody EXCEPT ![n] = r]]
    BY <1>2 DEF Idle, Nobody
  <2>3. [Nobody EXCEPT ![n] = r] \in [Nodes -> Known \union {None}]
    BY <2>1 DEF Nobody
  <2>4. [Nobody EXCEPT ![n] = r][n] = r BY <1>0 DEF Nobody
  <2>5. task' \in TaskSet BY <1>0, <2>2, <2>3, IdleType, TaskRecord
  <2>6. TaskBacked' BY <1>0, <2>1, <2>2, <2>4 DEF TaskBacked
  <2>7. ServedIsStored' BY DEF RefreshRead, IInv, ServedIsStored, Members
  <2>8. TypeOK'
    BY <1>1, <2>5, TaskTypes, TypePartsNext, KeepWatch, KeepKept, FaultType
       DEF RefreshRead, RowOK, ServedOK
  <2> QED BY <2>6, <2>7, <2>8 DEF IInv, RefreshRead, RoundBacked
<1>3. CASE task' = task
  <2>1. TypeOK'
    BY <1>1, <1>3, TaskTypes, TypePartsNext, KeepWatch, KeepKept, FaultType
       DEF RefreshRead, RowOK, ServedOK
  <2> QED BY <1>3, <2>1, Frame DEF IInv, RefreshRead, RoundBacked
<1> QED BY <1>2, <1>3 DEF RefreshRead

LEMMA RefreshPersistKeeps == ASSUME IInv, RefreshPersist PROVE IInv'
<1>0. /\ task.node \in Nodes /\ task.at = "persist"
      /\ task.fresh \in [Nodes -> Known \union {None}]
      /\ task.fresh[task.node] \in Known
  BY TaskTypes DEF IInv, TaskBacked, RefreshPersist, TaskSet
<1>w. WorldOK' BY <1>0, TaskTypes DEF RefreshPersist, WorldOK
<1>1. CASE /\ row' = [row EXCEPT ![task.node] = task.fresh[task.node]]
           /\ task' = [task EXCEPT !.at = "insert"]
           /\ faults' = faults
  <2>1. /\ row' \in [Nodes -> Rows \union {None}]
        /\ \A n \in Nodes : Registered(row[n]) => Registered(row'[n])
        /\ Registered(row'[task.node])
    BY <1>0, <1>1, TaskTypes, NoRecord, KnownRegistered DEF RowOK
  <2>2. /\ task' \in TaskSet /\ task'.at = "insert"
        /\ task'.node = task.node /\ task'.fresh = task.fresh
    BY <1>1, TaskTypes DEF TaskSet
  <2>3. TypeOK'
    BY <1>1, <1>w, <2>1, <2>2, TaskTypes, TypePartsNext, KeepWatch, KeepKept, FaultType
       DEF RefreshPersist, RowOK, ServedOK
  <2>4. TaskBacked' BY <1>0, <2>1, <2>2, NoRecord DEF TaskBacked
  <2>5. ServedIsStored'
    BY <1>0, <2>1 DEF IInv, ServedIsStored, RefreshPersist, Members, world
  <2> QED BY <2>3, <2>4, <2>5 DEF IInv, RefreshPersist, RoundBacked
<1>2. CASE /\ Fault /\ task' = Idle
           /\ row' \in {row, [row EXCEPT ![task.node] = task.fresh[task.node]]}
  <2>0. /\ row' \in [Nodes -> Rows \union {None}]
        /\ \A n \in Nodes : Registered(row[n]) => Registered(row'[n])
    BY <1>0, <1>2, TaskTypes, NoRecord, KnownRegistered DEF RowOK
  <2>1. TypeOK'
    BY <1>2, <1>w, <2>0, IdleType, TaskTypes, TypePartsNext, KeepWatch, KeepKept,
       FaultType
       DEF RefreshPersist, RowOK, ServedOK
  <2>2. TaskBacked' BY <1>2, IdleType DEF TaskBacked
  <2>3. ServedIsStored'
    BY <1>0, <2>0 DEF IInv, ServedIsStored, RefreshPersist, Members, world
  <2> QED BY <2>1, <2>2, <2>3 DEF IInv, RefreshPersist, RoundBacked
<1> QED BY <1>1, <1>2 DEF RefreshPersist

LEMMA RefreshInsertKeeps == ASSUME IInv, RefreshInsert PROVE IInv'
<1>0. /\ task.node \in Nodes /\ task.at = "insert"
      /\ task.fresh[task.node] \in Known /\ Registered(row[task.node])
  BY TaskTypes DEF IInv, TaskBacked, RefreshInsert, TaskSet
<1>1. ServedOK' /\ \A n \in Members(served') \ unsure : Registered(row[n])
  <2>1. \A n \in Members(served) \ unsure : Registered(row[n])
    BY <1>0 DEF IInv, ServedIsStored
  <2> QED BY <1>0, <2>1, TaskTypes DEF RefreshInsert, ServedOK, Members
<1>2. TypeOK'
  BY <1>1, IdleType, TaskTypes, TypePartsNext, KeepWorld, KeepWatch, KeepKept,
     FaultType
     DEF RefreshInsert, RowOK
<1>3. TaskBacked' BY IdleType DEF RefreshInsert, TaskBacked
<1>4. ServedIsStored' BY <1>1 DEF RefreshInsert, ServedIsStored, Members, world
<1> QED BY <1>2, <1>3, <1>4 DEF IInv, RefreshInsert, RoundBacked

LEMMA DeregisteredRow ==
    ASSUME NEW r \in Rows
    PROVE  Deregistered(r) \in Rows
  BY DEF Deregistered, Rows

LEMMA RemoveRowKeeps == ASSUME IInv, RemoveRow PROVE IInv'
<1> DEFINE n == Head(events).node
           removed == IF row[n] = None THEN row
                      ELSE [row EXCEPT ![n] = Deregistered(row[n])]
<1>0. n \in Nodes BY TaskTypes, EventsLeft DEF RemoveRow
<1>1. WorldOK'
  BY <1>0, TaskTypes, EventsLeft DEF RemoveRow, WorldOK
<1>2. removed \in [Nodes -> Rows \union {None}]
  BY <1>0, TaskTypes, DeregisteredRow DEF RowOK
<1>3. \A m \in Nodes \ {n} : removed[m] = row[m]
  BY <1>0, TaskTypes DEF RowOK
<1>4. \A m \in Members(served) \ unsure : Registered(row[m])
  BY DEF IInv, ServedIsStored, RemoveRow
<1>5. CASE /\ row' = removed
           /\ task' = [Idle EXCEPT !.at = "forget", !.node = n]
           /\ unsure' = unsure
  <2> HIDE DEF n, removed
  <2>2. task' = [at |-> "forget", node |-> n, todo |-> {}, before |-> Nobody,
                 fresh |-> Nobody]
    BY <1>5, IdleType
  <2>3. task' \in TaskSet BY <1>0, <2>2, IdleType, TaskRecord
  <2>4. TypeOK'
    BY <1>1, <1>2, <1>5, <2>3, TaskTypes, TypePartsNext, KeepWatch, KeepKept, FaultType
       DEF RemoveRow, ServedOK, RowOK
  <2>5. TaskBacked'
    <3>1. \A m \in Members(served) \ ({n} \union unsure) : Registered(row'[m])
      BY <1>3, <1>4, <1>5 DEF Members
    <3>2. served' = served BY DEF RemoveRow
    <3> QED BY <1>0, <1>5, <2>2, <3>1, <3>2 DEF TaskBacked, Members
  <2>6. ServedIsStored' BY <2>2 DEF ServedIsStored
  <2> QED BY <2>4, <2>5, <2>6 DEF IInv, RemoveRow, RoundBacked
<1>6. CASE /\ row' \in {row, removed} /\ unsure' = unsure \union {n}
           /\ task' = task
  <2> HIDE DEF n, removed
  <2>1. TypeOK'
    BY <1>1, <1>2, <1>6, TaskTypes, TypePartsNext, KeepWatch, KeepKept, FaultType
       DEF RemoveRow, RowOK, ServedOK
  <2>2. TaskBacked' BY <1>6 DEF TaskBacked, RemoveRow
  <2>3. ServedIsStored'
    <3>1. \A m \in Members(served) \ unsure' : Registered(row'[m])
      BY <1>3, <1>4, <1>6 DEF Members
    <3> QED BY <3>1 DEF ServedIsStored, RemoveRow, Members
  <2> QED BY <1>6, <2>1, <2>2, <2>3 DEF IInv, RemoveRow, RoundBacked
<1> QED BY <1>5, <1>6 DEF RemoveRow

LEMMA RemoveForgetKeeps == ASSUME IInv, RemoveForget PROVE IInv'
<1>1. ServedOK' BY TaskTypes DEF RemoveForget, ServedOK
<1>2. KeptOK' BY TaskTypes DEF RemoveForget, KeptOK
<1>3. TypeOK'
  BY <1>1, <1>2, IdleType, TaskTypes, TypePartsNext, KeepWorld, KeepWatch, FaultType
     DEF RemoveForget, RowOK
<1>4. TaskBacked' BY IdleType DEF RemoveForget, TaskBacked
<1>5. ServedIsStored'
  BY TaskTypes DEF IInv, TaskBacked, RemoveForget, ServedIsStored, Members, ServedOK, world
<1> QED BY <1>3, <1>4, <1>5 DEF IInv, RemoveForget, RoundBacked

LEMMA ResyncKeeps ==
    ASSUME IInv, UNCHANGED <<world, row, served, round, watch, kept, faults>>,
           \/ task' = Resync
           \/ task' = [Idle EXCEPT !.at = "profiles", !.before = served]
    PROVE  IInv'
<1>1. task' \in TaskSet /\ task'.at \in {"resync", "profiles"}
  <2>1. CASE task' = Resync BY <2>1, IdleType
  <2>2. CASE task' = [Idle EXCEPT !.at = "profiles", !.before = served]
    <3>1. task' = [at |-> "profiles", node |-> None, todo |-> {}, before |-> served,
                   fresh |-> Nobody]
      BY <2>2, IdleType
    <3> QED BY <3>1, IdleType, TaskTypes, TaskRecord DEF ServedOK
  <2> QED BY <2>1, <2>2
<1>2. TypeOK'
  BY <1>1, TaskTypes, TypePartsNext, KeepWorld, KeepWatch, KeepKept, FaultType
     DEF RowOK, ServedOK
<1> QED BY <1>1, <1>2 DEF IInv, TaskBacked, ServedIsStored, RoundBacked

LEMMA ReconcileProfilesKeeps == ASSUME IInv, ReconcileProfiles PROVE IInv'
<1> DEFINE fresh == [n \in Nodes |-> IF registry[n] = None THEN None
                                     ELSE Carried(task.before[n], registry[n])]
<1>0. WorldOK'
  <2>1. <<>> \in Seq([kind : {"refresh", "remove"}, node : Nodes]) OBVIOUS
  <2>2. events' = <<>> \/ events' = events BY DEF ReconcileProfiles
  <2> QED BY <2>1, <2>2, TaskTypes DEF ReconcileProfiles, WorldOK
<1>1. CASE task' = [Idle EXCEPT !.at = "upsert", !.todo = Members(registry),
                                !.fresh = fresh]
  <2>1. \A n \in Nodes : fresh[n] \in Known \union {None}
                         /\ (registry[n] # None => fresh[n] # None)
                         /\ (registry[n] = None => fresh[n] = None)
    <3> SUFFICES ASSUME NEW n \in Nodes
        PROVE /\ fresh[n] \in Known \union {None}
              /\ registry[n] # None => fresh[n] # None
              /\ registry[n] = None => fresh[n] = None
      OBVIOUS
    <3>1. task.before[n] \in Known \union {None} BY TaskTypes DEF TaskSet
    <3>2. registry[n] \in Urls \union {None} BY TaskTypes DEF WorldOK
    <3>3. CASE registry[n] = None BY <3>3
    <3>4. CASE registry[n] # None
      <4>1. fresh[n] = Carried(task.before[n], registry[n]) BY <3>4
      <4> QED BY <3>1, <3>2, <3>4, <4>1, CarriedKnown
    <3> QED BY <3>3, <3>4
  <2>2. fresh \in [Nodes -> Known \union {None}] BY <2>1
  <2>3. Members(fresh) = Members(registry) BY <2>1 DEF Members
  <2> HIDE DEF fresh
  <2>4. task' = [at |-> "upsert", node |-> None, todo |-> Members(registry),
                 before |-> Nobody, fresh |-> fresh]
    BY <1>1, IdleType
  <2>5. Members(registry) \in SUBSET Nodes BY DEF Members
  <2>6. task' \in TaskSet BY <2>2, <2>4, <2>5, IdleType, TaskRecord
  <2>7. TypeOK'
    BY <1>0, <2>6, TaskTypes, TypePartsNext, KeepWatch, KeepKept, FaultType
       DEF ReconcileProfiles, RowOK, ServedOK
  <2>8. TaskBacked'
    <3>1. /\ task'.at = "upsert" /\ task'.todo = Members(registry)
          /\ Members(task'.fresh) = Members(registry)
      BY <2>3, <2>4
    <3> QED BY <3>1 DEF TaskBacked, Members
  <2>9. ServedIsStored' BY <2>4 DEF ServedIsStored
  <2> QED BY <2>7, <2>8, <2>9 DEF IInv, ReconcileProfiles, RoundBacked
<1>2. CASE task' = Resync
  <2>1. TypeOK'
    BY <1>0, <1>2, IdleType, TaskTypes, TypePartsNext, KeepWatch, KeepKept, FaultType
       DEF ReconcileProfiles, RowOK, ServedOK
  <2> QED BY <1>2, <2>1, IdleType
          DEF IInv, ReconcileProfiles, TaskBacked, ServedIsStored, RoundBacked
<1> QED BY <1>1, <1>2 DEF ReconcileProfiles

LEMMA ReconcileUpsertKeeps == ASSUME IInv, ReconcileUpsert PROVE IInv'
<1>0. /\ task \in TaskSet /\ task.at = "upsert" /\ task.todo \subseteq Nodes
      /\ task.todo \subseteq Members(task.fresh)
      /\ \A n \in Members(task.fresh) \ task.todo : Registered(row[n])
  BY TaskTypes DEF IInv, TaskBacked, ReconcileUpsert, TaskSet
<1>1. PICK n \in task.todo :
          \/ /\ row' = [row EXCEPT ![n] = task.fresh[n]]
             /\ task' = [task EXCEPT !.todo = task.todo \ {n}]
             /\ faults' = faults
          \/ Fault /\ task' = Resync /\ row' \in {row, [row EXCEPT ![n] = task.fresh[n]]}
  BY DEF ReconcileUpsert
<1>2. CASE /\ row' = [row EXCEPT ![n] = task.fresh[n]]
           /\ task' = [task EXCEPT !.todo = task.todo \ {n}]
           /\ faults' = faults
  <2>1. n \in Nodes /\ task.fresh[n] \in Known
    BY <1>0, <1>1 DEF TaskSet, Members
  <2>2. RowOK' /\ Registered(row'[n])
    BY <1>2, <2>1, TaskTypes, NoRecord, KnownRegistered DEF RowOK
  <2>3. /\ task' \in TaskSet /\ task'.at = "upsert"
        /\ task'.todo = task.todo \ {n} /\ task'.fresh = task.fresh
    BY <1>0, <1>2 DEF TaskSet
  <2>4. \A m \in Members(task.fresh) \ (task.todo \ {n}) : Registered(row'[m])
    BY <1>0, <1>2, <2>1, <2>2, TaskTypes DEF RowOK, Members
  <2>5. TypeOK'
    BY <1>2, <2>2, <2>3, TaskTypes, TypePartsNext, KeepWorld, KeepWatch, KeepKept,
       FaultType
       DEF ReconcileUpsert, ServedOK
  <2>6. TaskBacked' BY <1>0, <2>3, <2>4 DEF TaskBacked, Members
  <2>7. ServedIsStored' BY <2>3 DEF ServedIsStored
  <2> QED BY <2>5, <2>6, <2>7 DEF IInv, ReconcileUpsert, RoundBacked
<1>3. CASE Fault /\ task' = Resync /\ row' \in {row, [row EXCEPT ![n] = task.fresh[n]]}
  <2>0. RowOK'
    BY <1>0, <1>1, <1>3, TaskTypes, NoRecord DEF TaskSet, Members, RowOK
  <2>1. TypeOK'
    BY <1>3, <2>0, IdleType, TaskTypes, TypePartsNext, KeepWorld, KeepWatch, KeepKept,
       FaultType
       DEF ReconcileUpsert, RowOK, ServedOK
  <2> QED BY <1>3, <2>1, IdleType
          DEF IInv, ReconcileUpsert, TaskBacked, ServedIsStored, RoundBacked
<1> QED BY <1>1, <1>2, <1>3

LEMMA ReconcilePruneKeeps == ASSUME IInv, ReconcilePrune PROVE IInv'
<1>0. /\ task \in TaskSet /\ task.at = "upsert" /\ task.todo = {}
      /\ \A n \in Members(task.fresh) : Registered(row[n])
  BY TaskTypes DEF IInv, TaskBacked, ReconcilePrune
<1>1. RowOK' /\ \A n \in Members(task.fresh) : Registered(row'[n])
  BY <1>0, TaskTypes, DeregisteredRow DEF ReconcilePrune, RowOK, Members
<1>2. CASE task' = [task EXCEPT !.at = "replace"] /\ faults' = faults
  <2>1. /\ task' \in TaskSet /\ task'.at = "replace" /\ task'.fresh = task.fresh
    BY <1>0, <1>2 DEF TaskSet
  <2>2. TypeOK'
    BY <1>1, <1>2, <2>1, TaskTypes, TypePartsNext, KeepWorld, KeepWatch, KeepKept,
       FaultType
       DEF ReconcilePrune, ServedOK
  <2>3. TaskBacked' BY <1>1, <2>1 DEF TaskBacked, Members
  <2>4. ServedIsStored' BY <2>1 DEF ServedIsStored
  <2> QED BY <2>2, <2>3, <2>4 DEF IInv, ReconcilePrune, RoundBacked
<1>3. CASE Fault /\ task' = Resync
  <2>1. TypeOK'
    BY <1>1, <1>3, IdleType, TaskTypes, TypePartsNext, KeepWorld, KeepWatch,
       KeepKept, FaultType
       DEF ReconcilePrune, ServedOK
  <2> QED BY <1>3, <2>1, IdleType
          DEF IInv, ReconcilePrune, TaskBacked, ServedIsStored, RoundBacked
<1> QED BY <1>2, <1>3 DEF ReconcilePrune

LEMMA ReconcileReplaceKeeps == ASSUME IInv, ReconcileReplace PROVE IInv'
<1>1. ServedOK' /\ \A n \in Members(served') : Registered(row[n])
  BY TaskTypes DEF IInv, TaskBacked, ReconcileReplace, ServedOK, TaskSet
<1>2. KeptOK' BY TaskTypes DEF ReconcileReplace, KeptOK
<1>w. WorldOK' BY TaskTypes DEF ReconcileReplace, WorldOK
<1>3. TypeOK'
  BY <1>1, <1>2, <1>w, IdleType, TaskTypes, TypePartsNext, KeepWatch, FaultType
     DEF ReconcileReplace, RowOK
<1>4. TaskBacked' BY IdleType DEF ReconcileReplace, TaskBacked
<1>5. ServedIsStored' BY <1>1 DEF ReconcileReplace, ServedIsStored, Members
<1> QED BY <1>3, <1>4, <1>5 DEF IInv, ReconcileReplace, RoundBacked

-----------------------------------------------------------------------------
LEMMA RestartKeeps == ASSUME IInv, Restart PROVE IInv'
<1>1. ServedOK' /\ \A n \in Members(served') : Registered(row[n])
  BY TaskTypes, LoadedType DEF Restart, RowOK, ServedOK, Members
<1>2. WatchOK' /\ KeptOK' BY DEF Restart, WatchOK, KeptOK
<1>3. round'.at = "idle" BY DEF Restart, Resting
<1>4. TypeOK'
  BY <1>1, <1>2, IdleType, TaskTypes, TypePartsNext, KeepWorld, FaultType
     DEF Restart, RowOK
<1> QED BY <1>1, <1>3, <1>4, IdleType
        DEF IInv, Restart, TaskBacked, ServedIsStored, RoundBacked

LEMMA NextIInv == IInv /\ [Next]_vars => IInv'
<1> SUFFICES ASSUME IInv, [Next]_vars PROVE IInv' OBVIOUS
<1>1. CASE Mine \/ Flip BY <1>1, MineKeeps, FlipKeeps
<1>2. CASE ChainTask
  <2>1. CASE Drift BY <2>1, ResyncKeeps DEF Drift
  <2>2. CASE ReconcileStart BY <2>2, ResyncKeeps DEF ReconcileStart
  <2> QED BY <1>2, <2>1, <2>2, RefreshReadKeeps, RefreshPersistKeeps,
             RefreshInsertKeeps, RemoveRowKeeps, RemoveForgetKeeps,
             ReconcileProfilesKeeps, ReconcileUpsertKeeps, ReconcilePruneKeeps,
             ReconcileReplaceKeeps
          DEF ChainTask
<1>3. CASE UptimeLoop
  BY <1>3, ProbingKeeps, WriteRowKeeps, ApplyStatusKeeps DEF UptimeLoop
<1>4. CASE Manage BY <1>4, ManageKeeps
<1>5. CASE Scrapers BY <1>5, ScrapersKeep
<1>6. CASE Restart BY <1>6, RestartKeeps
<1>7. CASE UNCHANGED vars
  <2>1. TypeOK' BY <1>7 DEF IInv, TypeOK, vars
  <2> QED BY <1>7, <2>1, Frame DEF IInv, RoundBacked, vars
<1> QED BY <1>1, <1>2, <1>3, <1>4, <1>5, <1>6, <1>7 DEF Next

THEOREM WatchInvariant == Spec => []IInv
BY InitIInv, NextIInv, PTL DEF Spec

(* Every variable keeps its type, in particular the map never holds a node *)
(* marked deregistered.                                                    *)
THEOREM WatchTypeCorrect == Spec => []TypeOK
<1>1. IInv => TypeOK BY DEF IInv
<1> QED BY <1>1, WatchInvariant, PTL

(* A served member has a registered row: the order of writes in            *)
(* refresh_chain_node, remove_chain_node and reconcile_membership keeps it *)
(* through the writes of the uptime loop and through restarts.             *)
THEOREM WatchServedIsStored == Spec => []ServedIsStored
<1>1. IInv => ServedIsStored BY DEF IInv
<1> QED BY <1>1, WatchInvariant, PTL

(* Only the chain task and a restart bring a node into the served map: the *)
(* uptime loop's late write finds the entry gone and leaves it gone.       *)
THEOREM WatchOnlyChainAdmits == Spec => OnlyChainAdmits
<1> DEFINE Admits ==
        \A n \in Nodes : served[n] = None /\ served'[n] # None =>
            task.at \in {"insert", "replace"} \/ Restart
<1>1. IInv /\ [Next]_vars => [Admits]_vars
  <2> SUFFICES ASSUME IInv, Next, NEW n \in Nodes, served[n] = None,
                      served'[n] # None
      PROVE  task.at \in {"insert", "replace"} \/ Restart
    OBVIOUS
  <2>1. CASE UNCHANGED served BY <2>1
  <2>2. CASE RefreshInsert \/ ReconcileReplace
    BY <2>2 DEF RefreshInsert, ReconcileReplace
  <2>3. CASE RemoveForget
    BY <2>3, TaskTypes DEF RemoveForget, ServedOK
  <2>4. CASE ApplyStatus
    BY <2>4, TaskTypes DEF ApplyStatus, NeedsUpdate, ServedOK
  <2>5. CASE Restart BY <2>5
  <2>6. \/ UNCHANGED served \/ RefreshInsert \/ ReconcileReplace
        \/ RemoveForget \/ ApplyStatus \/ Restart
    BY DEF Next, Mine, Flip, ChainTask, UptimeLoop, Manage, Scrapers,
           RefreshRead, RefreshPersist, RemoveRow, Drift, ReconcileStart,
           ReconcileProfiles, ReconcileUpsert, ReconcilePrune,
           LoadTargets, Probe, ProbesIn, Unchanged, Decide, WriteRow, EndRound,
           Scrape, Saved, Store, LateStore
  <2> QED BY <2>1, <2>2, <2>3, <2>4, <2>5, <2>6
<1> QED BY <1>1, WatchInvariant, PTL DEF Spec, OnlyChainAdmits

-----------------------------------------------------------------------------
(* The map and the registry. The event that is the last one about its node *)
(* tells whether the node is registered now, since the registry only       *)
(* changes with another event; what the chain task has read of a node      *)
(* without an event left is the registry's.                                *)
Awaited(n) == \E i \in 1 .. Len(events) : events[i].node = n

LastTells ==
    \A i \in 1 .. Len(events) :
        (\A j \in 1 .. Len(events) : j > i => events[j].node # events[i].node) =>
            (events[i].kind = "remove" <=> registry[events[i].node] = None)

UrlOf(entry) == IF entry = None THEN None ELSE entry.url

(* What the map will say of n when the event under way has been applied.   *)
Outcome(n) ==
    IF task.at = "idle" \/ task.node # n THEN UrlOf(served[n])
    ELSE IF task.at = "forget" THEN None ELSE UrlOf(task.fresh[n])

Applying == {"idle", "persist", "insert", "forget"}
Replacing == {"upsert", "replace"}

MapTells ==
    /\ task.at \in Applying =>
           \A n \in Nodes \ missed : ~Awaited(n) => Outcome(n) = registry[n]
    /\ task.at \in Replacing =>
           \A n \in Nodes : ~Awaited(n) => UrlOf(task.fresh[n]) = registry[n]

FInv == LastTells /\ MapTells

Event == [kind : {"refresh", "remove"}, node : Nodes]

LEMMA InitFInv == Init => FInv
<1> SUFFICES ASSUME Init PROVE FInv OBVIOUS
<1>1. LastTells BY DEF Init, LastTells
<1>2. task.at = "resync" BY IdleType DEF Init
<1> QED BY <1>1, <1>2 DEF FInv, MapTells, Applying, Replacing

(* A step that leaves registry, queue and chain task alone, and the URLs   *)
(* of the map.                                                             *)
LEMMA FollowFrame ==
    ASSUME FInv, UNCHANGED <<registry, events, missed, task>>,
           \A n \in Nodes : UrlOf(served'[n]) = UrlOf(served[n])
    PROVE  FInv'
  BY DEF FInv, LastTells, MapTells, Awaited, Outcome, UrlOf

LEMMA MineFollows == ASSUME IInv, FInv, Mine PROVE FInv'
<1>1. PICK n \in Nodes, url \in Urls \union {None} :
          /\ registry' = [registry EXCEPT ![n] = url]
          /\ events' = Append(events,
                 [kind |-> IF url = None THEN "remove" ELSE "refresh", node |-> n])
  BY DEF Mine
<1> DEFINE e == [kind |-> IF url = None THEN "remove" ELSE "refresh", node |-> n]
<1>2. e.node = n /\ (e.kind = "remove" <=> url = None) OBVIOUS
<1> HIDE DEF e
<1>3. events \in Seq(Event) BY TaskTypes DEF WorldOK, Event
<1>4. /\ Len(events) \in Nat /\ Len(events') = Len(events) + 1
      /\ events'[Len(events) + 1] = e
      /\ \A i \in 1 .. Len(events) : events'[i] = events[i]
  BY <1>1, <1>3 DEF e
<1>5. registry'[n] = url /\ \A m \in Nodes \ {n} : registry'[m] = registry[m]
  BY <1>1, TaskTypes DEF WorldOK
<1>6. \A i \in 1 .. Len(events) : events[i].node \in Nodes
  <2>1. \A i \in 1 .. Len(events) : events[i] \in Event BY <1>3
  <2> QED BY <2>1 DEF Event
<1>7. LastTells'
  <2> SUFFICES ASSUME NEW i \in 1 .. Len(events'),
                      \A j \in 1 .. Len(events') : j > i => events'[j].node # events'[i].node
               PROVE  events'[i].kind = "remove" <=> registry'[events'[i].node] = None
    BY DEF LastTells
  <2>1. CASE i = Len(events) + 1 BY <1>2, <1>4, <1>5, <2>1
  <2>2. CASE i \in 1 .. Len(events)
    <3>1. events[i].node # n
      <4>1. Len(events) + 1 \in 1 .. Len(events') /\ Len(events) + 1 > i
        BY <1>4, <2>2
      <4> QED BY <1>2, <1>4, <2>2, <4>1
    <3>2. \A j \in 1 .. Len(events) : j > i => events[j].node # events[i].node
      BY <1>4, <2>2
    <3> QED BY <1>4, <1>5, <1>6, <2>2, <3>1, <3>2 DEF FInv, LastTells
  <2> QED BY <1>4, <2>1, <2>2
<1>8. MapTells'
  <2>1. Awaited(n)'
    <3>1. Len(events) + 1 \in 1 .. Len(events') BY <1>4
    <3> QED BY <1>2, <1>4, <3>1 DEF Awaited
  <2>2. \A m \in Nodes : ~Awaited(m)' => m # n /\ ~Awaited(m) BY <1>4, <2>1 DEF Awaited
  <2>3. UNCHANGED <<task, served, missed>> BY DEF Mine
  <2> QED BY <1>5, <2>2, <2>3 DEF FInv, MapTells, Outcome
<1> QED BY <1>7, <1>8 DEF FInv

(* The first event, about n, is taken: if no other is about n, it tells.   *)
LEMMA EventTaken ==
    ASSUME IInv, FInv, events # <<>>, events' = Tail(events), registry' = registry,
           NEW n \in Nodes, n = Head(events).node
    PROVE  /\ LastTells'
           /\ \A m \in Nodes : m # n => (Awaited(m)' <=> Awaited(m))
           /\ ~Awaited(n)' => (Head(events).kind = "remove" <=> registry[n] = None)
<1>1. events \in Seq(Event) BY TaskTypes DEF WorldOK, Event
<1>2. /\ Len(events) \in Nat \ {0} /\ Len(events') = Len(events) - 1
      /\ Head(events) = events[1] /\ Head(events) \in Event
      /\ \A i \in 1 .. Len(events') : events'[i] = events[i + 1]
  BY <1>1
<1>3. \A i \in 1 .. Len(events') : i + 1 \in 1 .. Len(events) BY <1>2
<1>4. ASSUME NEW i \in 1 .. Len(events), i # 1
      PROVE  i - 1 \in 1 .. Len(events') /\ events'[i - 1] = events[i]
  <2>1. i - 1 \in 1 .. Len(events') /\ (i - 1) + 1 = i BY <1>2, <1>4
  <2> QED BY <1>2, <2>1
<1>5. LastTells'
  <2> SUFFICES ASSUME NEW i \in 1 .. Len(events'),
                      \A j \in 1 .. Len(events') : j > i => events'[j].node # events'[i].node
               PROVE  events'[i].kind = "remove" <=> registry[events'[i].node] = None
    BY DEF LastTells
  <2>1. ASSUME NEW j \in 1 .. Len(events), j > i + 1
        PROVE  events[j].node # events[i + 1].node
    <3>1. j # 1 /\ j - 1 > i BY <1>2, <2>1
    <3> QED BY <1>2, <1>4, <3>1
  <2> QED BY <1>2, <1>3, <2>1 DEF FInv, LastTells
<1>7. ASSUME NEW m \in Nodes, m # n PROVE Awaited(m)' <=> Awaited(m)
  <2>1. Awaited(m)' => Awaited(m) BY <1>2, <1>3 DEF Awaited
  <2>2. ASSUME NEW i \in 1 .. Len(events), events[i].node = m PROVE Awaited(m)'
    <3>1. i # 1 BY <1>2, <1>7, <2>2
    <3> QED BY <1>4, <2>2, <3>1 DEF Awaited
  <2> QED BY <2>1, <2>2 DEF Awaited
<1>8. ASSUME ~Awaited(n)' PROVE Head(events).kind = "remove" <=> registry[n] = None
  <2>0. \A i \in 1 .. Len(events') : events'[i].node # n
    BY <1>8 DEF Awaited
  <2>1. ASSUME NEW j \in 1 .. Len(events), j > 1 PROVE events[j].node # events[1].node
    <3>1. j # 1 BY <2>1
    <3>2. j - 1 \in 1 .. Len(events') /\ events'[j - 1] = events[j] BY <1>4, <3>1
    <3>3. events'[j - 1].node # n BY <2>0, <3>2
    <3> QED BY <1>2, <3>2, <3>3
  <2>2. 1 \in 1 .. Len(events) BY <1>2
  <2> QED BY <1>2, <2>1, <2>2 DEF FInv, LastTells
<1> QED BY <1>5, <1>7, <1>8

LEMMA HeadIsANode == ASSUME IInv, events # <<>> PROVE Head(events).node \in Nodes
<1>1. events \in Seq(Event) BY TaskTypes DEF WorldOK, Event
<1>2. Head(events) \in Event BY <1>1
<1> QED BY <1>2 DEF Event

LEMMA CarriedUrl ==
    ASSUME NEW old \in Known \union {None}, NEW url \in Urls
    PROVE  UrlOf(Carried(old, url)) = url
<1>1. Carried(old, url).url = url BY DEF Carried
<1> QED BY <1>1, CarriedKnown DEF UrlOf

LEMMA RefreshReadFollows == ASSUME IInv, FInv, RefreshRead PROVE FInv'
<1>0. PICK n \in Nodes : n = Head(events).node
  BY HeadIsANode DEF RefreshRead
<1>1. /\ task.at = "idle" /\ events # <<>> /\ Head(events).kind = "refresh"
      /\ events' = Tail(events) /\ registry' = registry /\ served' = served
  BY DEF RefreshRead
<1>2. /\ LastTells'
      /\ \A m \in Nodes : m # n => (Awaited(m)' <=> Awaited(m))
      /\ ~Awaited(n)' => registry[n] # None
  BY <1>0, <1>1, EventTaken
<1>3. \A m \in Nodes \ missed : m # n /\ ~Awaited(m)' => UrlOf(served[m]) = registry[m]
  BY <1>1, <1>2 DEF FInv, MapTells, Applying, Outcome
<1>4. CASE /\ registry[n] # None /\ missed' = missed
           /\ task' = [Idle EXCEPT !.at = "persist", !.node = n,
                                   !.fresh[n] = Carried(served[n], registry[n])]
  <2>1. /\ task'.at = "persist" /\ task'.node = n
        /\ task'.fresh[n] = Carried(served[n], registry[n])
    BY <1>2, <1>4 DEF Idle
  <2>2. UrlOf(task'.fresh[n]) = registry[n]
    BY <1>2, <1>4, <2>1, CarriedUrl, TaskTypes DEF WorldOK, ServedOK
  <2> QED BY <1>1, <1>2, <1>3, <1>4, <2>1, <2>2
          DEF FInv, MapTells, Applying, Replacing, Outcome
<1>5. CASE registry[n] = None /\ UNCHANGED <<task, missed>>
  <2>0. Awaited(n)' BY <1>2, <1>5
  <2>1. \A m \in Nodes \ missed : ~Awaited(m)' => UrlOf(served[m]) = registry[m]
    BY <1>3, <2>0
  <2>2. task'.at = "idle" /\ missed' = missed /\ \A m : Outcome(m)' = UrlOf(served[m])
    BY <1>1, <1>5 DEF Outcome
  <2> QED BY <1>1, <1>2, <2>1, <2>2 DEF FInv, MapTells, Applying, Replacing
<1>6. CASE missed' = missed \union {n} /\ task' = task
  <2> QED BY <1>1, <1>2, <1>3, <1>6 DEF FInv, MapTells, Applying, Replacing, Outcome
<1> QED BY <1>0, <1>4, <1>5, <1>6 DEF RefreshRead

LEMMA RemoveRowFollows == ASSUME IInv, FInv, RemoveRow PROVE FInv'
<1>0. PICK n \in Nodes : n = Head(events).node
  BY HeadIsANode DEF RemoveRow
<1>1. /\ task.at = "idle" /\ events # <<>> /\ Head(events).kind = "remove"
      /\ events' = Tail(events) /\ registry' = registry /\ served' = served
  BY DEF RemoveRow
<1>2. /\ LastTells'
      /\ \A m \in Nodes : m # n => (Awaited(m)' <=> Awaited(m))
      /\ ~Awaited(n)' => registry[n] = None
  BY <1>0, <1>1, EventTaken
<1>3. \A m \in Nodes \ missed : m # n /\ ~Awaited(m)' => UrlOf(served[m]) = registry[m]
  BY <1>1, <1>2 DEF FInv, MapTells, Applying, Outcome
<1>4. CASE task' = [Idle EXCEPT !.at = "forget", !.node = n] /\ missed' = missed
  <2>1. task'.at = "forget" /\ task'.node = n BY <1>4 DEF Idle
  <2>2. \A m : Outcome(m)' = IF m = n THEN None ELSE UrlOf(served[m])
    BY <1>1, <2>1 DEF Outcome
  <2>3. ASSUME NEW m \in Nodes \ missed, ~Awaited(m)' PROVE Outcome(m)' = registry[m]
    <3>1. CASE m = n BY <1>2, <2>2, <2>3, <3>1
    <3>2. CASE m # n BY <1>3, <2>2, <2>3, <3>2
    <3> QED BY <3>1, <3>2
  <2> QED BY <1>1, <1>2, <1>4, <2>1, <2>3 DEF FInv, MapTells, Applying, Replacing
<1>5. CASE missed' = missed \union {n} /\ task' = task
  <2> QED BY <1>1, <1>2, <1>3, <1>5 DEF FInv, MapTells, Applying, Replacing, Outcome
<1> QED BY <1>0, <1>4, <1>5 DEF RemoveRow

(* The rest of an event's handling does what it has read, or gives up.     *)
LEMMA ApplyFollows ==
    ASSUME IInv, FInv, RefreshPersist \/ RefreshInsert \/ RemoveForget PROVE FInv'
<1>1. UNCHANGED <<registry, events>> /\ LastTells'
  BY DEF RefreshPersist, RefreshInsert, RemoveForget, world, FInv, LastTells
<1>2. \A m \in Nodes : Awaited(m)' <=> Awaited(m) BY <1>1 DEF Awaited
<1>3. \A m \in Nodes \ missed : ~Awaited(m) => Outcome(m) = registry[m]
  BY DEF FInv, MapTells, Applying, RefreshPersist, RefreshInsert, RemoveForget
<1>4. ASSUME task'.at \in Applying, missed \subseteq missed',
             \A m \in Nodes \ missed' : Outcome(m)' = Outcome(m)
      PROVE  FInv'
  BY <1>1, <1>2, <1>3, <1>4 DEF FInv, MapTells, Applying, Replacing
<1>5. CASE RefreshPersist
  <2>1. /\ served' = served /\ task.at = "persist"
        /\ \/ missed' = missed /\ task' = [task EXCEPT !.at = "insert"]
           \/ task' = Idle /\ missed' = missed \union {task.node}
    BY <1>5 DEF RefreshPersist
  <2>2. CASE missed' = missed /\ task' = [task EXCEPT !.at = "insert"]
    <3>1. task'.at = "insert" /\ task'.node = task.node /\ task'.fresh = task.fresh
      BY <2>2, TaskTypes DEF TaskSet
    <3>2. task'.at \in Applying /\ missed \subseteq missed' BY <2>2, <3>1 DEF Applying
    <3>3. \A m \in Nodes : Outcome(m)' = Outcome(m) BY <2>1, <3>1 DEF Outcome
    <3> QED BY <1>4, <3>2, <3>3
  <2>3. CASE task' = Idle /\ missed' = missed \union {task.node}
    <3>1. task'.at = "idle" BY <2>3, IdleType
    <3>2. task'.at \in Applying /\ missed \subseteq missed' BY <2>3, <3>1 DEF Applying
    <3>3. \A m \in Nodes \ missed' : Outcome(m)' = Outcome(m)
      BY <2>1, <2>3, <3>1 DEF Outcome
    <3> QED BY <1>4, <3>2, <3>3
  <2> QED BY <2>1, <2>2, <2>3
<1>6. CASE RefreshInsert \/ RemoveForget
  <2>1. /\ missed' = missed /\ task' = Idle /\ task.node \in Nodes
        /\ \/ /\ task.at = "insert"
              /\ served' = [served EXCEPT ![task.node] = task.fresh[task.node]]
           \/ task.at = "forget" /\ served' = [served EXCEPT ![task.node] = None]
    BY <1>6 DEF RefreshInsert, RemoveForget, world, IInv, TaskBacked
  <2>2. task'.at = "idle" BY <2>1, IdleType
  <2>3. /\ \A m \in Nodes : m # task.node => served'[m] = served[m]
        /\ task.at = "insert" => served'[task.node] = task.fresh[task.node]
        /\ task.at = "forget" => served'[task.node] = None
    BY <2>1, TaskTypes DEF ServedOK
  <2>4. \A m \in Nodes : Outcome(m)' = Outcome(m)
    BY <2>1, <2>2, <2>3 DEF Outcome, UrlOf
  <2>5. task'.at \in Applying /\ missed \subseteq missed' BY <2>1, <2>2 DEF Applying
  <2> QED BY <1>4, <2>4, <2>5
<1> QED BY <1>5, <1>6

LEMMA ProfilesFollow == ASSUME IInv, FInv, ReconcileProfiles PROVE FInv'
<1> DEFINE fresh == [n \in Nodes |-> IF registry[n] = None THEN None
                                     ELSE Carried(task.before[n], registry[n])]
<1>1. CASE /\ task' = [Idle EXCEPT !.at = "upsert", !.todo = Members(registry),
                                   !.fresh = fresh]
           /\ events' = <<>>
  <2>1. registry' = registry BY DEF ReconcileProfiles
  <2>2. \A n \in Nodes : UrlOf(fresh[n]) = registry[n]
    <3> SUFFICES ASSUME NEW n \in Nodes PROVE UrlOf(fresh[n]) = registry[n]
      OBVIOUS
    <3>1. CASE registry[n] = None BY <3>1 DEF UrlOf
    <3>2. CASE registry[n] # None
      <4>1. fresh[n] = Carried(task.before[n], registry[n]) /\ registry[n] \in Urls
        BY <3>2, TaskTypes DEF WorldOK
      <4>2. task.before[n] \in Known \union {None} BY TaskTypes DEF TaskSet
      <4> QED BY <4>1, <4>2, CarriedUrl
    <3> QED BY <3>1, <3>2
  <2> HIDE DEF fresh
  <2>3. task'.at = "upsert" /\ task'.fresh = fresh BY <1>1 DEF Idle
  <2>4. LastTells' BY <1>1 DEF LastTells
  <2> QED BY <2>1, <2>2, <2>3, <2>4 DEF FInv, MapTells, Applying, Replacing
<1>2. CASE task' = Resync /\ events' = events
  <2>1. registry' = registry BY DEF ReconcileProfiles
  <2>2. task'.at = "resync" BY <1>2, IdleType
  <2> QED BY <1>2, <2>1, <2>2 DEF FInv, LastTells, MapTells, Applying, Replacing
<1> QED BY <1>1, <1>2 DEF ReconcileProfiles

(* The other steps of a reconcile, and a restart.                          *)
LEMMA ReconcileFollows ==
    ASSUME IInv, FInv,
           \/ Drift \/ ReconcileStart \/ ReconcileUpsert \/ ReconcilePrune
           \/ ReconcileReplace \/ Restart
    PROVE  FInv'
<1>1. UNCHANGED <<registry, events>> /\ LastTells'
  BY DEF Drift, ReconcileStart, ReconcileUpsert, ReconcilePrune, ReconcileReplace,
         Restart, world, FInv, LastTells
<1>2. \A m \in Nodes : Awaited(m)' <=> Awaited(m) BY <1>1 DEF Awaited
<1>3. CASE Drift \/ ReconcileStart \/ Restart
  <2>1. task' = Resync \/ task' = [Idle EXCEPT !.at = "profiles", !.before = served]
    BY <1>3 DEF Drift, ReconcileStart, Restart
  <2>2. CASE task' = Resync BY <1>1, <2>2, IdleType DEF FInv, MapTells, Applying, Replacing
  <2>3. CASE task' = [Idle EXCEPT !.at = "profiles", !.before = served]
    <3>1. task'.at = "profiles" BY <2>3 DEF Idle
    <3> QED BY <1>1, <3>1 DEF FInv, MapTells, Applying, Replacing
  <2> QED BY <2>1, <2>2, <2>3
<1>4. CASE ReconcileUpsert \/ ReconcilePrune
  <2>1. /\ task.at = "upsert"
        /\ \/ task' = Resync \/ task' = [task EXCEPT !.at = "replace"]
           \/ \E n \in task.todo : task' = [task EXCEPT !.todo = task.todo \ {n}]
    BY <1>4 DEF ReconcileUpsert, ReconcilePrune
  <2>2. \/ task'.at = "resync"
        \/ task'.at \in {"upsert", "replace"} /\ task'.fresh = task.fresh
    BY <2>1, IdleType, TaskTypes DEF TaskSet
  <2> QED BY <1>1, <1>2, <2>1, <2>2 DEF FInv, MapTells, Applying, Replacing
<1>5. CASE ReconcileReplace
  <2>1. task.at = "replace" /\ served' = task.fresh /\ task'.at = "idle"
    BY <1>5, IdleType DEF ReconcileReplace
  <2> QED BY <1>1, <1>2, <2>1 DEF FInv, MapTells, Applying, Replacing, Outcome
<1> QED BY <1>3, <1>4, <1>5

(* Everybody else writes no URL.                                           *)
LEMMA OthersFollow ==
    ASSUME IInv, FInv, \/ Flip \/ UptimeLoop \/ Manage \/ Scrapers \/ UNCHANGED vars
    PROVE  FInv'
<1>1. UNCHANGED <<registry, events, missed, task>>
  BY DEF Flip, UptimeLoop, Manage, Scrapers, LoadTargets, Probe, ProbesIn, Unchanged,
         Decide, WriteRow, ApplyStatus, EndRound, Scrape, Saved, Store, LateStore,
         vars, world
<1>2. \A n \in Nodes : UrlOf(served'[n]) = UrlOf(served[n])
  <2>1. CASE served' = served BY <2>1
  <2>2. CASE ApplyStatus
    <3>1. /\ round.node \in Nodes /\ served \in [Nodes -> Known \union {None}]
          /\ \/ served' = served
             \/ /\ served[round.node] # None
                /\ served' = [served EXCEPT ![round.node] =
                                 [status |-> Result(round.node),
                                  url |-> served[round.node].url]]
      BY <2>2, TaskTypes DEF ApplyStatus, NeedsUpdate, IInv, RoundBacked, ServedOK
    <3>2. CASE /\ served[round.node] # None
               /\ served' = [served EXCEPT ![round.node] =
                                [status |-> Result(round.node),
                                 url |-> served[round.node].url]]
      <4>1. [status |-> Result(round.node), url |-> served[round.node].url] \in Known
        BY <3>1, <3>2, ResultStatus DEF Known
      <4>2. [status |-> Result(round.node), url |-> served[round.node].url] # None
        BY <4>1, NoRecord
      <4> QED BY <3>1, <3>2, <4>2 DEF UrlOf
    <3> QED BY <3>1, <3>2
  <2>3. served' = served \/ ApplyStatus
    BY DEF Flip, UptimeLoop, Manage, Scrapers, LoadTargets, Probe, ProbesIn, Unchanged,
           Decide, WriteRow, EndRound, Scrape, Saved, Store, LateStore, vars
  <2> QED BY <2>1, <2>2, <2>3
<1> QED BY <1>1, <1>2, FollowFrame

(* With every event applied the map agrees with the registry, URLs too,    *)
(* but for the nodes whose event failed since the last reconcile.          *)
THEOREM WatchMapFollows == Spec => []MapFollowsRegistry
<1>1. IInv /\ FInv /\ [Next]_vars => FInv'
  BY MineFollows, RefreshReadFollows, RemoveRowFollows, ApplyFollows, ProfilesFollow,
     ReconcileFollows, OthersFollow
     DEF Next, ChainTask
<1>2. FInv => MapFollowsRegistry
  BY DEF FInv, MapTells, Applying, MapFollowsRegistry, Awaited, Outcome, UrlOf, Wanted
<1> QED BY <1>1, <1>2, InitFInv, WatchInvariant, PTL DEF Spec

-----------------------------------------------------------------------------
(* Metrics. A scraper that is under way belongs to a subscription.         *)
SInv ==
    /\ \A n \in Nodes : scraper[n] # "idle" => sub[n] # None
    /\ MetricsHaveSubscription

LEMMA NextSInv == IInv /\ IInv' /\ SInv /\ [Next]_vars => SInv'
<1> SUFFICES ASSUME IInv, IInv', SInv, [Next]_vars PROVE SInv' OBVIOUS
<1> USE DEF SInv, MetricsHaveSubscription
<1>1. WatchOK /\ KeptOK BY TaskTypes
<1>2. CASE UNCHANGED <<watch, kept>> BY <1>2 DEF watch, kept
<1>3. CASE RemoveForget BY <1>3 DEF RemoveForget, watch
<1>4. CASE ReconcileReplace BY <1>4 DEF ReconcileReplace, watch
<1>5. CASE Manage BY <1>1, <1>5 DEF Manage, Stopped, Changed, WatchOK, KeptOK
<1>6. CASE Scrape BY <1>1, <1>6 DEF Scrape, kept, WatchOK
<1>7. CASE Saved BY <1>1, <1>7 DEF Saved, kept, WatchOK
<1>8. CASE Store BY <1>1, <1>8 DEF Store, WatchOK
<1>9. CASE LateStore BY <1>9 DEF LateStore
<1>10. CASE Restart BY <1>10 DEF Restart
<1> QED BY <1>2, <1>3, <1>4, <1>5, <1>6, <1>7, <1>8, <1>9, <1>10
      DEF Next, Mine, Flip, ChainTask, UptimeLoop, Scrapers,
          RefreshRead, RefreshPersist, RefreshInsert, RemoveRow, Drift, ReconcileStart,
          ReconcileProfiles, ReconcileUpsert, ReconcilePrune,
          LoadTargets, Probe, ProbesIn, Unchanged, Decide, WriteRow, ApplyStatus,
          EndRound, vars, watch, kept

(* Nobody's metrics outlive the subscription, unless a stopped scraper was *)
(* already past its membership check.                                      *)
THEOREM WatchMetricsHaveSubscription == Spec => []MetricsHaveSubscription
<1>1. Init => SInv BY DEF Init, SInv, MetricsHaveSubscription
<1>2. SInv => MetricsHaveSubscription BY DEF SInv
<1> QED BY <1>1, <1>2, NextSInv, WatchInvariant, PTL DEF Spec

=============================================================================
