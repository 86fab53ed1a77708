# A TLA+ model of nox-indexer

nox-indexer follows the on-chain registry of the NOX mixnet, keeps its members in
Postgres, watches the members' nodes, and serves both over HTTP. This directory
holds TLA+ modules that model the program, TLC configurations that check them, and
proofs that TLAPS checks. Paths below are relative to the repository.

## The system

| Part | State | Operations | Hard about it |
|---|---|---|---|
| Registry sync supervisor and replay (`src/chain/discovery.rs`, `src/chain/mod.rs`) | `progress`, `force_full`, `full_mismatches`, the resync floor; rows of `nodes`, `indexer_checkpoints` | plan (resume or full replay), scan, verify against count and fingerprint, reconcile rows, checkpoint, publish | crashes between the writes, lagging endpoints, lost logs, retries that keep progress, fallbacks that must not loop |
| Live event loop (`chain_event_loop`) | `last_block`, `mismatches` | poll the safe head, fetch a chunk, apply each event, checkpoint, check the served set, force a resync | profiles read later than the event, failed writes that are only logged |
| Served node map and sync status (`src/state.rs`) | `nodes`, `SyncStatus`, `topology_version` | replaced by a sync, changed by the live loop, the uptime loop and `/v1/state` | several tasks write it, with awaits between reading and writing |
| Postgres store (`src/db.rs`, `migrations/`) | nodes, checkpoints, offsets, settlements, reputation | single-statement reads and writes, no transactions across them | a stop between two statements |
| RPC failover transport (`src/chain/rpc.rs`) | `preferred`, `logs_served_by` | request with failover, head of one endpoint, demote | shared by two tasks |
| Log chunks (`src/chain/retry.rs`) | size, ceiling, streak | success, range error, rate limit | shared by two tasks; boundaries |
| Settlement indexing (`src/chain/settlement.rs`) | next block, stored logs, checkpoint, summary | sync once, refresh the summary | failure between insert and checkpoint |
| Uptime checks (`src/node/subscriber.rs`) | node statuses, reputation | probe, status change | races with the live loop |
| Lifetime metric offsets (`src/node/offsets.rs`) | banked, last reading, allowance, dirty | observe, apply, save, flush | restarts of node and indexer, saves out of order |
| Subscriptions and event feed (`src/node/subscriber.rs`, `src/broadcast.rs`) | active subscriptions, recent events, deduplication | start, stop, republish | membership changes |
| Seed topology cache (`src/api.rs`) | cached members, refresh lock | serve, refresh, warm | stale copies, versions read at different times |
| Health endpoints (`src/api.rs`, `src/state.rs`) | ages | judge | boundaries |
| Decoding, parsing, configuration, geo lookup | none | pure functions | covered by unit tests |

The sync task, the settlement task, the uptime loop, the metrics subscriptions, the
flush loop and the HTTP handlers run concurrently. They share the node map and the
status behind locks that are never held over an await, the database, and the RPC
transport.

## Modules

**ChainSync** is the core: `run_chain_sync` and all it calls, with its rows, its
checkpoint and the served map, and the `/v1/state` handler as the map's other writer.
One task runs it, so the state has a `pc` naming the await the task stands at:

| `pc` | Code |
|---|---|
| `down` | the process is not running |
| `plan` | `initial_chain_sync` begins: chain id, `new_progress` |
| `head`, `scan`, `check` | the target loop: `safe_head`, `scan_membership`, `verify_membership` |
| `profiles`, `upsert`, `checkpoint`, `publish` | `reconcile_membership`, in its order |
| `backoff` | the sleep of `run_chain_sync` |
| `poll`, `fetch`, `apply`, `tail` | `chain_event_loop`: tick, `fetch_logs_chunk`, the events of a chunk, the membership check |

Each action is one step between two awaits: a database statement, a chain call
with what follows it, or a step of the environment. `row` is what
`load_registry_node*` would return for an address, `Foreign` a row of another
registry, `ckpt` the stored checkpoint, `nodes` the served map. The chain (`log`,
`tip`) is the environment. A profile is the set of blocks whose events made it, so a
stale profile can be told from a current one.

Faults are explicit and counted: a failed call, a lagging endpoint, lost logs, a
crash, a reorg, a run of the program on another registry, a `/v1/state` request that
finds the map empty. `suspect` collects the addresses a *lost* write may have left
wrong (a failed live event, a reorged reading, rows of another registry, a row put
into the map late); properties about single addresses exempt those, and `Converges`
shows that they do not stay wrong.

**LogFetch** opens up what ChainSync takes for granted, the fetch of a range of logs:
`fetch_filtered_logs_chunk` and `check_logs_endpoint_head` over `FailoverHttp` and
`AdaptiveChunk`. Transport and chunk size belong to one `ChainConfig` that two tasks use,
so `pc` and the locals are functions of the task, and `preferred`, `logsServedBy`, `size`,
`ceiling`, `streak` are shared. A step is one answer of one endpoint, with what the code
does before the next await. An endpoint is its `head`, whether that head moves (`Stuck`),
and the largest span it accepts (`Limit`). Errors are classified by kind; when several
endpoints failed, a range complaint wins, as in `classify_rpc_error`. The text of a
lagging endpoint's error contains block numbers, and `429` among their digits reads as a
rate limit: `HeadBehind` allows both kinds. `ChainSync` abstracts all this to: a chunk
ends anywhere, and the fault `truncate` loses its logs.

| `pc` of a task | Code |
|---|---|
| `out` | between two calls of `fetch_filtered_logs_chunk` |
| `loop` | the head of its loop, where size and preferred endpoint are read |
| `sent` | the await of `eth_getLogs` at one endpoint |
| `served`, `head` | `check_logs_endpoint_head`: before and at its `eth_blockNumber` |
| `error` | the classification of an error |

**SettlementLedger** is the abstract specification of the settlement tables: every
log is counted once, and the checkpoint of a source covers only blocks whose logs of
that source are counted. **Settlement** is `run_settlement_sync` with `sync_once` and
`refresh_summary`, and implements it (`ImplementsLedger`). The variables of the ledger
are the detailed module's own: the chain and the two tables with their checkpoints.
A source is the set of contracts that is
followed, with the reward pool or without it, which an operator may change between two
runs; the checkpoint is kept under its `SourceKey`. `totals` is the set of rows that
the served totals count, not their amounts.

| `pc` | Code |
|---|---|
| `down` | the process is not running |
| `tick` | `interval.tick()` |
| `load`, `head`, `fetch` | `sync_once`: checkpoint, `safe_head`, a chunk with its timestamps |
| `store` | the inserts of a chunk, in order, then its checkpoint |
| `end` | the decision on `refresh_summary`, and the refresh |

`claimBlock` is the block a served `claimable` was read at: `read_pool_gauges` fills the
exits one by one, so a failure half-way leaves some of them newer than the gauges.

**LifetimeTotals** is the abstract specification of one node's lifetime figure: it only
moves forward, never past what the node counted, and a restart of the indexer takes it
back to a saved figure that is not below what the last finished flush had found.
**Offsets** implements it where every start reads the row (`ImplementsTotals`): the
`NodeOffset` in memory with its allowances, the scraper that feeds it and saves a restart,
the flush loop with its snapshot, and the row. The node is the environment: it counts,
restarts, may be a build that does not report its start time, and may lie (a negative
reading is treated like any lower one). Two counters are kept, `uptime`, which the restart
check reads, and `count`, which stands for the rest; a tick is a second. Every incarnation
has its own start time. A save that fails or whose task is stopped may have been made
(`SaveFails`, `SaveRestartLost`).

| Variable | Code |
|---|---|
| `offset` | `last_node_start_time`, the banked counters, `last_raw` |
| `since`, `room`, `uptimeRoom` | `last_observed_at`, `allowance` |
| `scraper` | `saving`: the await of `save_metric_offset` after a restart |
| `snapshot` | what `flush_dirty_offsets` is about to save |
| `row` | the node's row in `node_metric_offsets` |

**SeedCache** is `/seed/topology`: `pinned_seed_members`, `refresh_seed_cache`,
`spawn_seed_refresh` and `seed_warm_loop`, and the chain task they race with. Members,
`last_block` and `topology_version` change in three steps of the chain task and are read
in three steps of a refresh, then checked on chain. `turn` is the queue of the fair tokio
mutex `seed_refresh`; a client that goes away releases its place. Ages count in ticks; a
check takes at most `MaxCheck` of them. A profile is the *edition* of the registry it
comes from.

| `check.at`, `request.at` | Code |
|---|---|
| `turn` | `refresh_seed_cache` holds the lock and looks at the slot |
| `block`, `version`, `members`, `chain` | `verify_seed_members`: what it reads next |
| `asked`, `queued` | `pinned_seed_members` has read the slot, or waits for a rebuild |
| `fresh`, `stale`, `verified`, `fallback`, `refused` | its answers |

**NodeWatch** is what row and map say of a node, and who is scraped: `process_chain_event`
and `reconcile_membership` as the chain task runs them, `uptime_check_loop` with
`apply_status_change`, `manage_subscriptions`, `scrape_node_metrics`, and a restart
(`init_state`). Here the registry is a queue of events; how they are found is ChainSync's
matter. A failed write may have been made; `unsure` are nodes whose deregistration was
reported as failed, `strayed` those a stopped scraper stored metrics of, `missed` those an
event of which failed since the last reconcile. `Urls` are addresses the poll policy
allows. The `/v1/state` handler, which fills an empty map, is in ChainSync.

| Variable | Code |
|---|---|
| `row`, `served` | status and admin URL in `nodes` and in `state.nodes` |
| `task.at` | the await in `refresh_chain_node`, `remove_chain_node`, `reconcile_membership` |
| `round` | `uptime_check_loop`: targets, probes, the result being written |
| `sub`, `scraper`, `late`, `metrics` | `active`, the scraper tasks, stopped ones still to store, `state.metrics` |

How the modules fit: ChainSync takes from LogFetch that a chunk ends anywhere and that
lost logs are rare; Settlement takes the same. SeedCache and NodeWatch take ChainSync's
result, the changes of the map, as their environment, and each opens up a task that
ChainSync leaves out. Offsets depends on no other: nodes do not interact in it.

The modules named **MC...** are what TLC runs; those named **...Proofs** hold the
theorems, and **ChainSyncCover** the invariant and the lemmas that ChainSyncCoverProofs
rests on.

A definition `X_Y` of a module is `X` with the slip `Y`; nothing uses it. Put in
place of `X` it makes TLC refute a property, which shows that the property depends on
that line of the code.

## Runs

ChainSync: two relayers; chains of 3 to 5 blocks whose last `Confirmations` blocks stay
empty, so that each event can become safe; 3 faults; two verification attempts; the
code's own limits for mismatches (2 and 2). Two relayers are enough for a member that
leaves while another joins; three blocks of events give register, change and remove or
register again; three faults give each triple of them in each order, and are what it
takes to make a full replay fail three times. The safety run uses the symmetry of the
relayers; the run with liveness does not.

| Run | Faults | Checks | Shows |
|---|---|---|---|
| `sync_safe` | failed calls, lag up to the confirmations, crash, reorg, other registry, empty map | `TypeOK`, `CheckpointCoversRows`, `ServedCoversEvents`, `VerifiedPublishIsExact`, `AlarmsAreExplained`, `MembersDoNotFlap`, `OnlyFullReplayRewinds` | the checkpoint never runs ahead of the rows and goes back in full replays only, the map misses no event, what a verified sync publishes is exactly the registry's set, no check raises a false alarm, and no step drops or adds a relayer that nothing happened to |
| `sync_converges` | all kinds, with lost logs and lag beyond the confirmations | `Converges` | the indexer always gets back to live, verified and right; a set served unverified is flagged and heals |
| `sync_call_fails` | one failed call | `CheckpointFullyApplied` | violated: see below |

Fairness of ChainSync (`FairSpec`): the task goes on when it can (tokio schedules it), the
process is started again after a crash (the platform restarts it), blocks come until the
bound, the resync interval ends, a request that has read the rows inserts them, and the
minute between two membership checks passes again and again, so a round that may check
does so infinitely often (strong fairness of `CheckServed`).

LogFetch: two endpoints (failover has somewhere to go, and the attempts end when both
have failed), spans of 1 to 4 blocks, so that a size can be halved twice and grow back
by doubling; `Window` and `Target` such that `fetch_one_task` has chunks on both sides
of the head check's window; heads anywhere at the start.

| Run | Instance | Checks | Shows |
|---|---|---|---|
| `fetch_one_task` | one task, limits 4 and 1, three failures | `TypeOK`, `AcceptedFromEndpointAtEnd`, `NotRejectedAgain`, `RetriesRunOut`, `CallsReturn` | the head check asks the right endpoint; a rejected span is not asked for again; the uncounted retries of a shrinking range end, and how many there can be |
| `fetch_completes` | two tasks, first endpoint stuck with the smaller limit, one failure | `Completes`, `SuccessStaysBelowRejected` | the fetch gets past a stuck endpoint; successes of either task do not grow the shared size back to what the other was refused |
| `fetch_stuck_endpoint` | one task, the stuck endpoint has the larger limit | `Completes` | violated: see below |

Fairness of LogFetch: each task goes on (a request has a timeout, a backoff is a
sleep), and each endpoint that is not stuck gets its blocks.
Deadlock is not checked: when the tasks have their logs the model stops.

Settlement: a chain of 4 blocks with at most one log each, of either contract, scanned
from block 2, and 2 faults: three blocks of logs make chunks of one and of several
logs, and two faults a failure in the recovery from another.

| Run | Faults | Checks | Shows |
|---|---|---|---|
| `settlement_sync` | all kinds | `TypeOK`, `TotalsCoverPoolBlock`, `ImplementsLedger`, `ServedOnlyGrows`, `TotalsConverge` | each log is counted once, no checkpoint hides one, the totals cover the block of the gauges and of the claimable credits, never shrink while the process runs, and become right |

Fairness of Settlement: the task goes on and is started again after a stop, ten
minutes pass again and again, blocks come until the bound.

Offsets: one node of either build, honest or not, that restarts once and counts to 2 in
each incarnation, against a ceiling of 1 per second and windows of 1 and 2 seconds, so
that a reading may be ahead of the allowance, be spent, and catch up; one crash or lost
save at any step; ages followed for 2 seconds, which is where a burst of quick readings
would exceed the ceiling. 1.08 million states, under three minutes.

| Run | Instance | Checks | Shows |
|---|---|---|---|
| `offsets_lifetime` | every start reads the row | `TypeOK`, `GrowthBounded`, `ImplementsTotals`, `CatchesUp`, `RowCatchesUp` | no incarnation is counted twice or held back for ever, a restart costs at most what came after the last flush, a liar gains no more than the ceiling |
| `offsets_load_fails` | a start may fail to read it | `FlushedStays` | violated: see below |

Fairness of Offsets: time passes, the scraper and the flush loop keep running. Nothing
is assumed of the node.

SeedCache: one address, one request, three blocks' worth of behaviour in two (a block that
changes the members and one that edits a profile), a failed read; a TTL of 2 ticks, a
staleness bound of 5, a warm interval of 2 and a check of at most 1. One request is
enough to have three tasks in the queue, with the background refresh and the warm loop;
the proofs are for any number. The ticks keep the order that the code's values have
(30 s, 300 s, and a warm interval that leaves room for the TTL and one check).

| Run | Checks | Shows |
|---|---|---|
| `seed_cache` | `TypeOK`, `ServedSound`, `CurrentCopyIsRecent`, `AnswersAreRecent`, `WarmKeepsYoung`, `Answered`, `LatestCached` | what is served passed the check and is young enough, a removal that was announced is not served, also to a request that waited in the queue, the warm loop keeps the copy young, everyone is answered, and the cache ends up with the registry's last state |

Fairness of SeedCache: every task that can run does, and time passes (strong fairness:
other steps may interrupt a tick's turn but do not stop the clock).

NodeWatch: one node with two URLs, 3 registry events (register, move or leave, come
back), one change between up and down, one failed call or restart. 1.79 million states,
three minutes. Nodes meet only in the probe round and in a reconcile, which treat each by
itself; the safety properties are proved for any number.

| Run | Instance | Checks | Shows |
|---|---|---|---|
| `node_watch` | one fault | `TypeOK`, `ServedIsStored`, `MapFollowsRegistry`, `MetricsHaveSubscription`, `OnlyChainAdmits`, `StatusConverges`, `SubscriptionsSettle` | map and rows agree on who is registered; with no event left the map has the registry's members at their URLs; metrics belong to a subscription; statuses and subscriptions settle on the truth |
| `node_resurrect` | no faults | `RankingIsRegistered` | violated: see below |

Fairness of NodeWatch: the chain task, the uptime loop, the subscription manager and a
scraper with something to store go on. Nothing is assumed of registry, nodes or restarts.

### What the code does otherwise than its documentation

With a run:

* `sync_call_fails`: the checkpoint is documented as the "last block fully applied",
  but the live loop moves it past events whose refresh or removal failed. A lost
  membership change is found by the next check; a lost profile change is not.
* `fetch_stuck_endpoint`: a range rejection of the healthy endpoint is failed over to a
  stuck endpoint that accepts more; its answer is discarded, it is demoted, the
  healthy endpoint rejects the same range again. The size never shrinks, and the retry
  never goes elsewhere for good.
* `offsets_load_fails`: a start that cannot read the offsets begins from nothing, and its
  first save replaces the lifetime totals, where the documentation says that a restart
  costs at most one flush interval.
* `node_resurrect`: an uptime result that is written after the node's row was
  deregistered makes it a registered row again: it ranks and is probed, though the map
  does not hold it, until the next reconcile or restart.

Seen while modelling and kept without a run of its own:

* A forced full replay towards a lagging head rewrites rows as of a block below the
  checkpoint (`reconcile_membership`); a stop before the checkpoint is moved back leaves
  rows older than the checkpoint a restart resumes after. `Converges` shows that the next
  membership check notices, unless only a profile differs.
* `/v1/state` reads the rows when the map is empty and inserts them after the await
  (`src/api.rs`): a deregistered node may come back into the map until the next check.
* `logs_served_by` says that only one task fetches logs at a time (`src/chain/rpc.rs`); the
  registry sync and the settlement sync share the transport, and the head check may ask
  the endpoint that served the other one. So `AcceptedFromEndpointAtEnd` is stated for one
  task. So are `NotRejectedAgain` and `RetriesRunOut`: a late range error of one task's large
  request sets the size above the ceiling that the other has learned. The ceiling itself is
  not unlearned, which is what `SuccessStaysBelowRejected` says of any number of tasks.
* The head check asks for the endpoint's head after it has served the logs: an endpoint
  that gets its missing block in between has its truncated logs accepted.
* A settlement round that stores logs and then fails counts them as none
  (`run_settlement_sync`): the totals miss them until the next ten-minute refresh.
* The served `claimable` is documented as read at `pool_read_block`, and as left unset when
  the pool read fails (`src/chain/settlement.rs`). Exits that were read before the failing
  call keep theirs, beside gauges and a `pool_read_block` of an older block or none.
  `TotalsCoverPoolBlock` therefore speaks about each block for itself, and
  `TotalsConverge` shows that they meet again.
* `flush_dirty_offsets` clears `dirty` after its save also when a restart was banked
  meanwhile and its own save has failed. The next flush saves such an offset only because
  a counter of the new incarnation is above zero, which is what `RowCatchesUp` asks for.
* A copy of the seed members verified between two steps of the chain task may carry an
  older block with the present version; it counts as current until the TTL.
* A warm interval may be set up to just below the staleness bound. A warm tick that finds
  a copy younger than the TTL leaves it alone, so with an interval above 270 s the next
  tick may come when that copy has reached the bound. `WarmKeepsYoung` is checked, and
  proved, for an interval that leaves room for the TTL and one check.
* Row and map may carry different statuses when a refresh falls between the two writes of
  `apply_status_change`, and a probe of a node's old URL may be applied to its new
  registration; the next round repairs both (`StatusConverges`).

## Proofs

All for every value of the constants that satisfies the module's assumptions (TLC
evaluates them in each run); for ChainSync any set of relayers, any chain length, any lag
and number of faults.

* `ChainSyncProofs`: `TypeCorrect`, `Spec => []TypeOK`, one step per action, and
  `CheckpointRewinds`, `Spec => OnlyFullReplayRewinds`, which assumes nothing of the
  endpoints. Heads answered to one attempt may go back; the checkpoint does not, because a
  resumed replay never targets less than `next - 1`, which is not below the checkpoint it
  started from, and the live loop asks for nothing below `last_block`.
* `ChainSyncCoverProofs`: `CheckpointCovers`, `Spec => []CheckpointCoversRows`, and
  `ServedCovers`, `Spec => []ServedCoversEvents`. Both properties carry their premise
  `HonestEndpoints` (an endpoint lags at most `Confirmations` blocks and returns all
  logs of the range it answers for); it only restricts constants. `VerifiedPublish`
  (`Spec => VerifiedPublishIsExact`, an action property) needs the lag only, not the logs.
  `AlarmsExplained` (`Spec => []AlarmsAreExplained`) and `NoFlapping` (`Spec =>
  MembersDoNotFlap`) carry the same premise as the first two.

Neither invariant is inductive: what is in the rows depends on what was read steps
before, at a head nobody stored. `ChainSyncCover` defines the invariant `IInv` that
follows a profile on its way, and the facts about chains it rests on:

* A height is *settled* when neither a new block nor a reorg can bring an event at or
  below it. Every height the sync works with (`target`, `next - 1`, `last_block`,
  `chunkEnd`, the checkpoint) is settled (`HeightsOk`), since `safe_head` subtracts the
  confirmations from a head no higher than the tip.
* A profile read at any head is current since *every* settled height (`ReadCurrent`):
  the lag is no more than the confirmations. That is the reason why the code may read
  profiles "at latest" after it verified at another block.
* A full replay has exactly the members at the block it has come to (`ReplayOk`), so
  an honest full replay is never rejected.
* Any replay, also one that resumed on rows ahead of its checkpoint, has the members at
  that block but for addresses whose membership changed later (`MembersOk`): a row is ahead
  only by events that the replay still comes to. So a resumed replay raises no alarm of
  its own (`AlarmsExplained`).
* A reconcile holds current profiles for the addresses it has read (`FreshOk`), the rows
  are current since the checkpoint (`RowsOk`), rows and map since `last_block` (`LiveOk`),
  the map alone also while a forced resync runs (`ServedOk`), and inside a chunk since its
  end but for the events that are still pending (`ApplyOk`); those are a suffix of the
  chunk (`PendingOk`).
* `ChainMoved` says what Mine and Reorg have in common: settled blocks stay, and an
  address they do not take events from only gets events above settled heights.

One lemma per action shows that it preserves `IInv`; the first two theorems follow with
`CurIs`. For `NoFlapping` the map is compared with the registry at the head on both sides
of a step (`Present`); only a publication, an event or a late `/v1/state` insert can
change it (`MapWriters`), and the head's membership only changes with an event above
`last_block`. `VerifiedPublish` has an invariant of its own, `VInv`, that survives missing
logs: the heights of an attempt are settled whatever it was sent (`AttemptHeightsOk`), and
once the check has passed, a profile that was read is current since the checked block
until a reorg takes an event of its address back (`VerifiedOk`). The replay plays no part
in it.

* `LogFetchProofs`: `FetchTypeCorrect`, `Spec => []TypeOK`. Under the assumption `Alone`,
  that one task fetches logs, `AloneNotRejectedAgain` and
  `AloneAcceptedFromEndpointAtEnd`: two tasks sharing the transport break both (see "Seen
  while modelling"). `AloneRetriesRunOut` proves the same of `RetriesRunOut`: a failure
  that is retried either counts an attempt, which weighs more than any size, or leaves a
  smaller size (`Left`). `SuccessesStayBelow` needs no such assumption: whichever task is
  rejected, the ceiling ends below that span (`Learned`), and only a success obeys the
  ceiling. `AloneNotRejectedAgain` rests on the size never exceeding the ceiling, the
  ceiling staying below every span that was rejected, and a request in flight being no
  larger than the size it was made with; `AloneAcceptedFromEndpointAtEnd` on
  `logs_served_by` naming the endpoint of the only request there is, and on heads that
  never go back.
* `SettlementProofs`: `SettlementTypeCorrect`, `TotalsCover` (`Spec =>
  []TotalsCoverPoolBlock`) and `SyncImplementsLedger` (`Spec => ImplementsLedger`), for
  any chain length, first block and faults. The invariant says that everything selected
  below `next_block` is counted (`NextInv`), that what is not pending of the chunk in
  flight is counted (`ChunkInv`), that checkpoints cover counted logs of their own
  source (`TablesInv`), and that the blocks shown lie below `next_block`
  (`StatusInv`). None of the three is inductive alone: a checkpoint is right because of
  the chunk it closes, the chunk because of where the last one ended. `ServedGrows` (`Spec =>
  ServedOnlyGrows`) adds that what is served is not ahead of the tables (`GrowInv`): the
  totals are a count of rows that only become more, and `last_block` moves to the end of a
  stored chunk and no further, so a later round, which goes on behind it, cannot take it back.

* `OffsetsProofs`: `OffsetsTypeCorrect`; `GrowthIsBounded` (`Spec => []GrowthBounded`),
  for any ceilings, windows and readings; `OffsetsImplementTotals`, under the assumption
  that no start fails to read the row (`~ LoadFails`, the case `offsets_load_fails`
  refutes). Growth is bounded because growth, what is left of the allowance and what the time
  since the last reading will add to it are together covered by the ceiling
  (`Covered`). For the refinement the invariant (`OffsetsInv`) orders the figures that
  lie in different places, row, snapshot and flushed figure below the memory's and none
  below the flushed one (`Ordered`), and says of each copy of the offset, also an old one,
  that what the node counted explains it (`Explained`): a reading that will look like a
  restart finds nothing of the present incarnation in it.
* `SeedCacheProofs`: `SeedTypeCorrect`, `SeedServedSound`, `SeedCurrentIsRecent`,
  `SeedAnswersAreRecent`, and `SeedWarmKeepsYoung` under `Ttl + Warm + MaxCheck <=
  StaleMax`. The invariant of the first three follows a copy from the reads of the refresh
  (`HolderReads`, `VersionsTell`) into the slot and into the requests that hold it
  (`SlotSound`, `HeldSound`). It needs the order of the reads: version before members,
  where the chain task writes members before version. An answer is as recent as its
  request because the holder of the turn reads its version after it got the turn, which is
  after the request asked (`AInv`, with `QueueOk` and `VersionsOk` on who waits and whose
  version is whose). For the warm loop `Young` bounds the copy's age by what its timer has
  left, or, while the loop waits for its turn, by how long the present check has taken:
  however long the queue, the check that ends renews the copy.
* `NodeWatchProofs`: `WatchTypeCorrect`, `WatchServedIsStored`, `WatchOnlyChainAdmits`,
  `WatchMapFollows` and `WatchMetricsHaveSubscription`.
  `TaskBacked` says that what the chain task is about to put into the map has a
  registered row already, at each of its awaits; without it `ServedIsStored` is not
  inductive, since the map is written from what was read steps before. `MapFollowsRegistry`
  speaks of an empty queue and needs a statement about a queue of any length: the last event
  about a node tells whether it is registered (`LastTells`), and a node with no event left
  will be in the map as in the registry once the task has done what it is about to do
  (`MapTells`). An event in the middle says nothing: its profile is read at the newest
  block. For the metrics, a scraper that is under way has a subscription (`SInv`).

Only model-checked: the liveness properties `Converges`, `Completes`, `CallsReturn`,
`TotalsConverge`, `CatchesUp`, `RowCatchesUp`, `Answered`, `LatestCached`,
`StatusConverges`, `SubscriptionsSettle` (liveness under fairness is out of the prover's
reach).

## Not modelled

* The event feed (`src/node/events.rs`, `src/broadcast.rs`): de-duplication of events
  and the order of broadcast snapshots. A snapshot replaces the one before, and no
  state depends on it.
* Reputation, its decay and the statistics tables: counters nothing else reads.
* The health endpoints: they compare ages with bounds; the state they report is
  ChainSync's.
* The ABI decoder of profiles, the metrics parser, the address policy of poll targets
  and `assemble_seed_topology`: pure and sequential, with unit tests. What they decide
  appears as an outcome (member or not, allowed URL or not, a reading).
* `classify_rpc_error` by its outcome only; the jitter of a backoff is a delay.
* The amounts of settlements: a total is the set of rows it counts.
* Start-up from arguments, the HTTP server, WebSockets, the geo database: I/O. Shutdown is a
  stop: after it only what is stored matters.

## Plan

Done: `ChainSync`, `LogFetch`, `Settlement`, `Offsets`, `SeedCache` and `NodeWatch`; every
safety property and action property of their runs is a theorem. Left, in this order:

1. `/v1/state` as a writer of the map in `NodeWatch`.
2. An abstract registry mirror that `ChainSync` implements: members as of a block that only
   goes back in a full replay, with the addresses that faults touched left open.
3. The event feed as a module of its own, composed with `NodeWatch`.
