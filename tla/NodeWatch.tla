----------------------------- MODULE NodeWatch -----------------------------
(***************************************************************************)
(* The status and the subscription of each registered node: what the       *)
(* Postgres row says of it, what the served map says of it, and whose      *)
(* metrics are kept. Four tasks write them.                                *)
(*                                                                         *)
(*   - the chain task applies registry events one at a time and, when the  *)
(*     membership has drifted, reconciles everything at once;              *)
(*   - the uptime loop reads its targets from the rows, probes them, and   *)
(*     writes a changed status to the row and then to the map;             *)
(*   - the subscription manager compares the map with the scrapers that    *)
(*     run, and stops and starts them;                                     *)
(*   - each scraper stores the metrics of its node, if it is a member.     *)
(*                                                                         *)
(* Each of them reads the map or a row, waits for the database, a node or  *)
(* the chain, and then writes; the steps below are what happens between    *)
(* two waits. How the events and the membership themselves are found is    *)
(* the matter of ChainSync; here they are a queue and the registry. A      *)
(* request to /v1/state that finds the map empty fills it from the rows:   *)
(* that writer of the map is in ChainSync and not here.                    *)
(***************************************************************************)
EXTENDS Integers, Sequences, FiniteSets

CONSTANTS
    Nodes,       \* addresses
    Urls,        \* admin URLs a profile may name
    MaxEvents,   \* bound: events of the registry
    MaxFlips,    \* bound: times a node goes up or down
    MaxFaults,   \* bound: failed reads of the chain and writes of rows
    None

ASSUME NodeWatchAssumption ==
    /\ {MaxEvents, MaxFlips, MaxFaults} \subseteq Nat
    /\ None \notin Urls
    /\ None \notin [status : {"online", "offline", "deregistered"}, url : Urls]

VARIABLES
    registry,   \* per node: the URL of its profile, or None
    events,     \* events the chain task has not applied yet
    mined,      \* events so far
    alive,      \* nodes that answer a probe
    flips,      \* changes of alive so far
    row,        \* the nodes table: status and URL, or None
    served,     \* state.nodes: status and URL, or None
    task,       \* the chain task
    round,      \* the uptime loop
    sub,        \* manage_subscriptions' active: the URL, or None
    scraper,    \* per node: where its scraper is
    late,       \* nodes a stopped scraper of which is still to store
    metrics,    \* nodes in state.metrics
    strayed,    \* history: nodes whose metrics such a scraper stored
    unsure,     \* history: nodes a deregistration of which failed
    missed,     \* history: nodes an event of which failed since the last
                \* reconcile
    faults

vars == <<registry, events, mined, alive, flips, row, served, task, round,
          sub, scraper, late, metrics, strayed, unsure, missed, faults>>
world == <<registry, events, mined, alive, flips, unsure, missed>>
watch == <<sub, scraper, late>>
kept == <<metrics, strayed>>

Statuses == {"online", "offline"}
Known == [status : Statuses, url : Urls]
Rows == [status : Statuses \union {"deregistered"}, url : Urls]
Members(map) == {n \in Nodes : map[n] # None}

Idle == [at |-> "idle", node |-> None, todo |-> {},
         before |-> [n \in Nodes |-> None], fresh |-> [n \in Nodes |-> None]]
Resting == [at |-> "idle", todo |-> {}, probed |-> {}, up |-> {}, node |-> None]

TypeOK ==
    /\ registry \in [Nodes -> Urls \union {None}]
    /\ events \in Seq([kind : {"refresh", "remove"}, node : Nodes])
    /\ mined \in 0 .. MaxEvents
    /\ alive \in SUBSET Nodes /\ flips \in 0 .. MaxFlips
    /\ row \in [Nodes -> Rows \union {None}]
    /\ served \in [Nodes -> Known \union {None}]
    /\ task \in [at : {"idle", "persist", "insert", "forget", "resync",
                       "profiles", "upsert", "replace"},
                 node : Nodes \union {None}, todo : SUBSET Nodes,
                 before : [Nodes -> Known \union {None}],
                 fresh : [Nodes -> Known \union {None}]]
    /\ round \in [at : {"idle", "probing", "applying", "writing", "written"},
                  todo : SUBSET Nodes, probed : SUBSET Nodes,
                  up : SUBSET Nodes, node : Nodes \union {None}]
    /\ sub \in [Nodes -> Urls \union {None}]
    /\ scraper \in [Nodes -> {"idle", "checked", "saving"}]
    /\ late \in SUBSET Nodes
    /\ metrics \in SUBSET Nodes /\ strayed \in SUBSET Nodes
    /\ unsure \in SUBSET Nodes /\ missed \in SUBSET Nodes
    /\ faults \in 0 .. MaxFaults

Fault == faults < MaxFaults /\ faults' = faults + 1

-----------------------------------------------------------------------------
(* The registry and the nodes.                                             *)

(* A registration, a change of URL, or a removal, with its event.          *)
Mine ==
    /\ mined < MaxEvents
    /\ mined' = mined + 1
    /\ \E n \in Nodes, url \in Urls \union {None} :
           /\ registry[n] # url
           /\ registry' = [registry EXCEPT ![n] = url]
           /\ events' = Append(events,
                   [kind |-> IF url = None THEN "remove" ELSE "refresh", node |-> n])
    /\ UNCHANGED <<alive, flips, unsure, missed, row, served, task, round, watch,
                   kept, faults>>

Flip ==
    /\ flips < MaxFlips
    /\ flips' = flips + 1
    /\ \E n \in Nodes : alive' = (alive \ {n}) \union ({n} \ alive)
    /\ UNCHANGED <<registry, events, mined, unsure, missed, row, served, task,
                   round, watch, kept, faults>>

-----------------------------------------------------------------------------
(* The chain task: process_chain_event.                                    *)

(* What would go wrong: the whole entry is kept, not only its status.      *)
Carried_WithUrl(old, url) ==
    [status |-> IF old = None THEN "offline" ELSE old.status,
     url |-> IF old = None THEN url ELSE old.url]

(* A status already known is kept, else the node starts offline.           *)
Carried(old, url) ==
    [status |-> IF old = None THEN "offline" ELSE old.status, url |-> url]

(* The profile is read, and the node's status copied from the map.         *)
RefreshRead ==
    /\ task.at = "idle"
    /\ events # <<>> /\ Head(events).kind = "refresh"
    /\ events' = Tail(events)
    /\ LET n == Head(events).node
       IN  \/ /\ registry[n] # None
              /\ task' = [Idle EXCEPT
                             !.at = "persist", !.node = n,
                             !.fresh[n] = Carried(served[n], registry[n])]
              /\ UNCHANGED <<missed, faults>>
           \/ registry[n] = None /\ UNCHANGED <<task, missed, faults>>
           \/ Fault /\ missed' = missed \union {n} /\ UNCHANGED task
    /\ UNCHANGED <<registry, mined, alive, flips, unsure, row, served, round,
                   watch, kept>>

(* What would go wrong: a failed write of the row is passed over.          *)
RefreshPersist_Unwritten ==
    /\ task.at = "persist"
    /\ task' = [task EXCEPT !.at = "insert"]
    /\ \/ /\ row' = [row EXCEPT ![task.node] = task.fresh[task.node]]
          /\ faults' = faults
       \/ Fault /\ UNCHANGED row
    /\ UNCHANGED <<world, served, round, watch, kept>>

(* upsert_node overwrites the status of the row as well. A write that is   *)
(* reported as failed may have been made.                                  *)
RefreshPersist ==
    /\ task.at = "persist"
    /\ \/ /\ row' = [row EXCEPT ![task.node] = task.fresh[task.node]]
          /\ task' = [task EXCEPT !.at = "insert"]
          /\ UNCHANGED <<missed, faults>>
       \/ Fault /\ task' = Idle /\ missed' = missed \union {task.node}
          /\ row' \in {row, [row EXCEPT ![task.node] = task.fresh[task.node]]}
    /\ UNCHANGED <<registry, events, mined, alive, flips, unsure, served, round,
                   watch, kept>>

RefreshInsert ==
    /\ task.at = "insert"
    /\ served' = [served EXCEPT ![task.node] = task.fresh[task.node]]
    /\ task' = Idle
    /\ UNCHANGED <<world, row, round, watch, kept, faults>>

(* deregister_node; the map keeps the entry when the write fails.          *)
Deregistered(r) == [status |-> "deregistered", url |-> r.url]

RemoveRow ==
    /\ task.at = "idle"
    /\ events # <<>> /\ Head(events).kind = "remove"
    /\ events' = Tail(events)
    /\ LET n == Head(events).node
           removed == IF row[n] = None THEN row
                      ELSE [row EXCEPT ![n] = Deregistered(row[n])]
       IN  \/ /\ row' = removed
              /\ task' = [Idle EXCEPT !.at = "forget", !.node = n]
              /\ UNCHANGED <<unsure, missed, faults>>
           \/ /\ Fault
              /\ row' \in {row, removed}
              /\ unsure' = unsure \union {n} /\ missed' = missed \union {n}
              /\ UNCHANGED task
    /\ UNCHANGED <<registry, mined, alive, flips, served, round, watch, kept>>

RemoveForget ==
    /\ task.at = "forget"
    /\ served' = [served EXCEPT ![task.node] = None]
    /\ metrics' = metrics \ {task.node}
    /\ strayed' = strayed \ {task.node}
    /\ task' = Idle
    /\ UNCHANGED <<world, row, round, watch, faults>>

(* A resync: at start-up, and when the membership check finds a drift. It  *)
(* is attempted until it succeeds.                                         *)
Resync == [Idle EXCEPT !.at = "resync"]

Drift ==
    /\ task.at = "idle"
    /\ events = <<>>
    /\ Members(served) # Members(registry)
    /\ task' = Resync
    /\ UNCHANGED <<world, row, served, round, watch, kept, faults>>

(* reconcile_membership copies the statuses, then reads the profiles, then *)
(* writes the rows one by one.                                             *)
ReconcileStart ==
    /\ task.at = "resync"
    /\ task' = [Idle EXCEPT !.at = "profiles", !.before = served]
    /\ UNCHANGED <<world, row, served, round, watch, kept, faults>>

(* The replay behind it has passed every event so far.                     *)
ReconcileProfiles ==
    /\ task.at = "profiles"
    /\ \/ /\ task' = [Idle EXCEPT
                         !.at = "upsert",
                         !.todo = Members(registry),
                         !.fresh = [n \in Nodes |->
                             IF registry[n] = None THEN None
                             ELSE Carried(task.before[n], registry[n])]]
          /\ events' = <<>>
          /\ faults' = faults
       \/ Fault /\ task' = Resync /\ UNCHANGED events
    /\ UNCHANGED <<registry, mined, alive, flips, unsure, missed, row, served, round,
                   watch, kept>>

ReconcileUpsert ==
    /\ task.at = "upsert"
    /\ \E n \in task.todo :
           \/ /\ row' = [row EXCEPT ![n] = task.fresh[n]]
              /\ task' = [task EXCEPT !.todo = task.todo \ {n}]
              /\ faults' = faults
           \/ Fault /\ task' = Resync /\ row' \in {row, [row EXCEPT ![n] = task.fresh[n]]}
    /\ UNCHANGED <<world, served, round, watch, kept>>

(* deregister_nodes_except; the checkpoint after it may fail.              *)
ReconcilePrune ==
    /\ task.at = "upsert" /\ task.todo = {}
    /\ row' = [n \in Nodes |-> IF task.fresh[n] = None /\ row[n] # None
                               THEN Deregistered(row[n]) ELSE row[n]]
    /\ \/ task' = [task EXCEPT !.at = "replace"] /\ faults' = faults
       \/ Fault /\ task' = Resync
    /\ UNCHANGED <<world, served, round, watch, kept>>

ReconcileReplace ==
    /\ task.at = "replace"
    /\ served' = task.fresh
    /\ metrics' = metrics \intersect Members(task.fresh)
    /\ strayed' = strayed \intersect Members(task.fresh)
    /\ missed' = {}
    /\ task' = Idle
    /\ UNCHANGED <<registry, events, mined, alive, flips, unsure, row, round, watch,
                   faults>>

-----------------------------------------------------------------------------
(* uptime_check_loop.                                                      *)
Registered(r) == r # None /\ r.status # "deregistered"
Targets == {n \in Nodes : Registered(row[n])}

LoadTargets ==
    /\ round.at = "idle"
    /\ round' = [Resting EXCEPT !.at = "probing", !.todo = Targets]
    /\ UNCHANGED <<world, row, served, task, watch, kept, faults>>

(* Probes run side by side; the results are looked at when all are in.     *)
Probe ==
    /\ round.at = "probing"
    /\ \E n \in round.todo :
           round' = [round EXCEPT !.todo = round.todo \ {n},
                                  !.probed = round.probed \union {n},
                                  !.up = round.up \union ({n} \intersect alive)]
    /\ UNCHANGED <<world, row, served, task, watch, kept, faults>>

ProbesIn ==
    /\ round.at = "probing" /\ round.todo = {}
    /\ round' = [round EXCEPT !.at = "applying"]
    /\ UNCHANGED <<world, row, served, task, watch, kept, faults>>

(* apply_status_change: the map decides whether to write, the row is       *)
(* written, and the map is looked at again.                                *)
Result(n) == IF n \in round.up THEN "online" ELSE "offline"

(* What would go wrong: the row decides, which may agree with the probe    *)
(* while the map does not.                                                 *)
NeedsUpdate_ByRow(n) ==
    served[n] # None /\ row[n] # None /\ row[n].status # Result(n)

NeedsUpdate(n) == served[n] # None /\ served[n].status # Result(n)
Without(n) == [round EXCEPT !.at = "applying", !.node = None,
                            !.probed = round.probed \ {n}]

Unchanged ==
    /\ round.at = "applying"
    /\ \E n \in round.probed : ~NeedsUpdate(n) /\ round' = Without(n)
    /\ UNCHANGED <<world, row, served, task, watch, kept, faults>>

Decide ==
    /\ round.at = "applying"
    /\ \E n \in round.probed :
           NeedsUpdate(n) /\ round' = [round EXCEPT !.at = "writing", !.node = n]
    /\ UNCHANGED <<world, row, served, task, watch, kept, faults>>

(* update_node_status: whatever the row holds by now.                      *)
WriteRow ==
    /\ round.at = "writing"
    /\ LET n == round.node
           marked == IF row[n] = None THEN row
                     ELSE [row EXCEPT ![n] = [status |-> Result(n),
                                              url |-> row[n].url]]
       IN  \/ /\ row' = marked
              /\ round' = [round EXCEPT !.at = "written"]
              /\ faults' = faults
           \/ Fault /\ round' = Without(n) /\ row' \in {row, marked}
    /\ UNCHANGED <<world, served, task, watch, kept>>

(* What would go wrong: the entry is written, not updated.                 *)
ApplyStatus_Inserts ==
    /\ round.at = "written"
    /\ LET n == round.node
       IN  /\ served' = [served EXCEPT ![n] = [status |-> Result(n),
                                               url |-> row[n].url]]
           /\ round' = Without(n)
    /\ UNCHANGED <<world, row, task, watch, kept, faults>>

ApplyStatus ==
    /\ round.at = "written"
    /\ LET n == round.node
       IN  /\ served' = IF NeedsUpdate(n)
                        THEN [served EXCEPT ![n] = [status |-> Result(n),
                                                    url |-> served[n].url]]
                        ELSE served
           /\ round' = Without(n)
    /\ UNCHANGED <<world, row, task, watch, kept, faults>>

EndRound ==
    /\ round.at = "applying" /\ round.probed = {}
    /\ round' = Resting
    /\ UNCHANGED <<world, row, served, task, watch, kept, faults>>

-----------------------------------------------------------------------------
(* Subscriptions.                                                          *)

(* manage_subscriptions: scrapers of nodes that left or moved are stopped  *)
(* and their metrics dropped; one between two waits still finishes.        *)
Wanted == [n \in Nodes |-> IF served[n] = None THEN None ELSE served[n].url]
Changed == {n \in Nodes : sub[n] # Wanted[n]}
Stopped == {n \in Changed : sub[n] # None}

(* What would go wrong: the metrics of a stopped scraper are left.         *)
Manage_KeepsMetrics ==
    /\ Changed # {}
    /\ sub' = Wanted
    /\ scraper' = [n \in Nodes |-> IF n \in Changed THEN "idle" ELSE scraper[n]]
    /\ late' = late \union {n \in Stopped : scraper[n] = "checked"}
    /\ UNCHANGED <<world, row, served, task, round, metrics, strayed, faults>>

Manage ==
    /\ Changed # {}
    /\ sub' = Wanted
    /\ scraper' = [n \in Nodes |-> IF n \in Changed THEN "idle" ELSE scraper[n]]
    /\ late' = late \union {n \in Stopped : scraper[n] = "checked"}
    /\ metrics' = metrics \ Stopped
    /\ strayed' = strayed \ Stopped
    /\ UNCHANGED <<world, row, served, task, round, faults>>

(* scrape_node_metrics: a reading counts only for a member; if the node    *)
(* has restarted, its banked totals are saved before it is stored.         *)
Scrape ==
    /\ \E n \in alive :
           /\ sub[n] # None /\ served[n] # None /\ scraper[n] = "idle"
           /\ \E next \in {"checked", "saving"} :
                  scraper' = [scraper EXCEPT ![n] = next]
    /\ UNCHANGED <<world, row, served, task, round, sub, late, kept, faults>>

Saved ==
    /\ \E n \in Nodes : /\ scraper[n] = "saving"
                        /\ scraper' = [scraper EXCEPT ![n] = "checked"]
    /\ UNCHANGED <<world, row, served, task, round, sub, late, kept, faults>>

Store ==
    /\ \E n \in Nodes : /\ scraper[n] = "checked"
                        /\ scraper' = [scraper EXCEPT ![n] = "idle"]
                        /\ metrics' = metrics \union {n}
                        /\ strayed' = strayed \ {n}
    /\ UNCHANGED <<world, row, served, task, round, sub, late, faults>>

LateStore ==
    /\ \E n \in late : /\ late' = late \ {n}
                       /\ metrics' = metrics \union {n}
                       /\ strayed' = strayed \union {n}
    /\ UNCHANGED <<world, row, served, task, round, sub, scraper, faults>>

-----------------------------------------------------------------------------
(* What would go wrong: rows of removed nodes are loaded too.              *)
Loaded_All == row

(* init_state, load_registry_nodes.                                        *)
Loaded == [n \in Nodes |-> IF Registered(row[n]) THEN row[n] ELSE None]

(* The process is restarted: the map is loaded from the rows, or stays     *)
(* empty if that fails; the rest of the memory is gone, and the chain task *)
(* starts with a sync.                                                     *)
Restart ==
    /\ Fault
    /\ served' \in {Loaded, [n \in Nodes |-> None]}
    /\ task' = Resync /\ round' = Resting
    /\ sub' = [n \in Nodes |-> None]
    /\ scraper' = [n \in Nodes |-> "idle"] /\ late' = {}
    /\ metrics' = {} /\ strayed' = {}
    /\ UNCHANGED <<world, row>>

Init ==
    /\ registry \in [Nodes -> Urls \union {None}]
    /\ events = <<>> /\ mined = 0
    /\ alive \in SUBSET Nodes /\ flips = 0
    /\ row = [n \in Nodes |-> IF registry[n] = None THEN None
                              ELSE [status |-> "offline", url |-> registry[n]]]
    /\ served = Loaded
    /\ task = Resync /\ round = Resting
    /\ sub = [n \in Nodes |-> None]
    /\ scraper = [n \in Nodes |-> "idle"] /\ late = {}
    /\ metrics = {} /\ strayed = {} /\ faults = 0
    /\ unsure = {} /\ missed = {}

ChainTask ==
    \/ RefreshRead \/ RefreshPersist \/ RefreshInsert
    \/ RemoveRow \/ RemoveForget
    \/ Drift \/ ReconcileStart \/ ReconcileProfiles \/ ReconcileUpsert
    \/ ReconcilePrune \/ ReconcileReplace
UptimeLoop ==
    \/ LoadTargets \/ Probe \/ ProbesIn \/ Unchanged
    \/ Decide \/ WriteRow \/ ApplyStatus \/ EndRound
Scrapers == Scrape \/ Saved \/ Store \/ LateStore

Next == \/ Mine \/ Flip
        \/ ChainTask
        \/ UptimeLoop
        \/ Manage
        \/ Scrapers
        \/ Restart

Spec == Init /\ [][Next]_vars

(* Tasks keep running and their timers keep firing; nothing is assumed of  *)
(* the registry, of the nodes or of restarts.                              *)
FairSpec ==
    /\ Spec
    /\ WF_vars(ChainTask) /\ WF_vars(UptimeLoop) /\ WF_vars(Manage)
    /\ WF_vars(Saved \/ Store \/ LateStore)

-----------------------------------------------------------------------------
(* A member that is served has a registered row, so it is probed and is    *)
(* still there after a restart. The row is written before the map, and a   *)
(* failed write leaves the map alone; only while the chain task removes    *)
(* the node or reconciles may the row be ahead, or when a removal of the   *)
(* node was reported as failed and had been made.                          *)
ServedIsStored ==
    task.at \in {"idle", "persist", "insert"} =>
        \A n \in Members(served) \ unsure : Registered(row[n])

(* When the chain task has no event left, the map has the registry's       *)
(* members at their present URLs, but for nodes an event of which failed   *)
(* since the last reconcile: although profiles are read at the newest      *)
(* block while events tell of older ones, what is applied last is right.   *)
MapFollowsRegistry ==
    task.at = "idle" /\ events = <<>> =>
        \A n \in Nodes \ missed : Wanted[n] = registry[n]

(* Metrics are only kept of nodes that have a subscription, the end of     *)
(* which drops them, but for what a scraper that was stopped between its   *)
(* membership check and its store still put there.                         *)
MetricsHaveSubscription ==
    metrics \ strayed \subseteq {n \in Nodes : sub[n] # None}

(* Of the tasks modelled here only the chain task and a restart bring a    *)
(* node into the map: a probe result or a reading that arrives late, after *)
(* the node was removed, does not bring it back.                           *)
OnlyChainAdmits ==
    [][\A n \in Nodes : served[n] = None /\ served'[n] # None =>
           task.at \in {"insert", "replace"} \/ Restart]_vars

(* Once nodes and registry come to rest, the served status is the truth,   *)
(* whatever stale status a refresh or a reconcile had carried over.        *)
StatusConverges ==
    <>[](\A n \in Members(served) :
            served[n].status = IF n \in alive THEN "online" ELSE "offline")

(* And exactly the members are scraped, at their present URL; the metrics  *)
(* of others are gone, but for those a stopped scraper stored between two  *)
(* waits.                                                                  *)
SubscriptionsSettle ==
    <>[](sub = Wanted /\ metrics \ strayed \subseteq Members(served))

(* README: "uptime rankings (registered nodes only)". With nothing under   *)
(* way, a row that ranks belongs to a served member.                       *)
RankingIsRegistered ==
    task.at = "idle" /\ events = <<>> /\ round.at = "idle" =>
        Targets \subseteq Members(served)

=============================================================================
