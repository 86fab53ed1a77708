-------------------------------- MODULE Offsets --------------------------------
(***************************************************************************)
(* Lifetime totals of one node: `NodeOffset` (src/node/offsets.rs), the    *)
(* scraper that feeds it and the loop that flushes it                      *)
(* (src/node/subscriber.rs), and its row in node_metric_offsets            *)
(* (src/db.rs).  Nodes do not interact here, so one is enough.             *)
(*                                                                         *)
(* Of the counters two are kept: `uptime`, which the restart check reads,  *)
(* and `count`, which stands for every other.  Numbers are whole, as the   *)
(* code keeps them by crediting whole seconds, and no reading is infinite: *)
(* JSON has no such number.  A tick of the clock is one second.            *)
(*                                                                         *)
(* A scraper's request and the reading of its answer are one step: nothing *)
(* but the node moves in between.  An honest node reports what it counts,  *)
(* a dishonest one anything.                                               *)
(*                                                                         *)
(* A definition X_Y is X with the slip Y in it; nothing uses it.  Put in   *)
(* place of X it makes TLC refute a property.                              *)
(***************************************************************************)
EXTENDS Integers

CONSTANTS
  Rate,            \* PACKETS_PER_SEC and its like: the ceiling of `count`
  UptimeRate,      \* UPTIME_PER_SEC
  FirstWindow,     \* FIRST_READING_WINDOW
  MinWindow,       \* MIN_READING_WINDOW
  MaxWindow,       \* MAX_READING_WINDOW
  MaxCount, MaxUptime,    \* bounds: an incarnation counts no further
  MaxIncarnation,  \* bound: the node restarts no more
  MaxTotal,        \* bound: a dishonest node is scraped no more
  MaxAge,          \* bound: the time since the start is followed so far
  MaxFaults,       \* bound: crashes and lost saves
  LoadFails        \* whether a start may fail to read the row

ASSUME OffsetsAssumption ==
  /\ Rate \in Nat /\ UptimeRate \in Nat
  /\ MinWindow \in Nat /\ MaxWindow \in Nat /\ FirstWindow \in Nat
  /\ MinWindow <= MaxWindow /\ FirstWindow <= MaxWindow /\ MinWindow <= FirstWindow
  /\ MaxCount \in Nat /\ MaxUptime \in Nat /\ MaxIncarnation \in Nat \ {0}
  /\ MaxTotal \in Nat /\ MaxAge \in Nat /\ MaxFaults \in Nat
  /\ LoadFails \in BOOLEAN

VARIABLES
  (* the node *)
  honest,
  incarnation, build,     \* an "old" build does not report its start time
  count, uptime,   \* counters of this incarnation
  past,            \* what the earlier incarnations counted
  (* the NodeOffset in memory *)
  offset,          \* last_node_start_time, banked and last_raw
  dirty,
  since,           \* time since last_observed_at, at most MaxWindow; Never
  room, uptimeRoom,       \* allowance
  (* the tasks and Postgres *)
  scraper,         \* "idle", or "saving" a restart
  snapshot,        \* what the flush loop is about to save, or NoRow
  row,             \* the node's row, or NoRow
  faults,
  (* history: nothing in the code reads these *)
  age,             \* time since the process started, and MinWindow more for
                   \* each reading closer than that to the last; at most MaxAge
  base,            \* the total the process started from
  flushed          \* the total that the last finished flush started from

node   == <<honest, incarnation, build, count, uptime, past>>
memory == <<offset, dirty, since, room, uptimeRoom>>
ghosts == <<age, base, flushed>>
vars   == <<node, memory, scraper, snapshot, row, faults, ghosts>>

Never == -1
NoRow == [start |-> -2, banked |-> 0, count |-> 0, uptime |-> 0]

\* NodeOffset::default()
Fresh == [start |-> 0, banked |-> 0, count |-> 0, uptime |-> 0]

Lesser(a, b) == IF a <= b THEN a ELSE b
Greater(a, b) == IF a <= b THEN b ELSE a

\* The lifetime figure: apply, and the node's share of network_totals.
Total(o) == o.banked + o.count

------------------------------------------------------------------------------
Lower(m, o) == m.uptime < o.uptime

\* observe: has the node restarted since the last reading?
Restarted(o, m) ==
  IF m.start > 0 /\ o.start > 0 THEN m.start # o.start
                                ELSE o.start # 0 /\ Lower(m, o)

Banked_Twice(o) == [o EXCEPT !.banked = @ + o.count]

\* observe: the counters of the incarnation that ended are banked.
Banked(o) ==
  [start |-> o.start, banked |-> o.banked + o.count, count |-> 0, uptime |-> 0]

StartSeen_FirstOnly(o, m) ==
  IF o.start = 0 THEN IF m.start > 0 THEN m.start ELSE -1
                 ELSE o.start

\* observe: the start time by which the next restart is noticed.
StartSeen(o, m) ==
  IF m.start > 0 THEN m.start
                 ELSE IF o.start = 0 THEN -1 ELSE o.start

\* observe: the time that the reading is credited with.
Window ==
  Lesser(Greater(IF since = Never THEN FirstWindow ELSE since, MinWindow), MaxWindow)

Refilled_NoCapacity(left, rate) == left + rate * Window

\* advance_counter: the allowance before the reading is looked at.
Refilled(left, rate) == Lesser(left + rate * Window, rate * MaxWindow)

\* advance_counter: the increase that is accepted.
Step(accepted, reported, allowance) ==
  IF reported < accepted THEN 0 ELSE Lesser(reported - accepted, allowance)

Observed(o, m) ==
  LET o1 == IF Restarted(o, m) THEN Banked(o) ELSE o
  IN [o1 EXCEPT !.start  = StartSeen(o, m),
                !.count  = @ + Step(@, m.count, Refilled(room, Rate)),
                !.uptime = @ + Step(@, m.uptime, Refilled(uptimeRoom, UptimeRate))]

RoomAfter_NotSpent(left, rate, accepted, reported) == Refilled(left, rate)

\* What is left of an allowance.
RoomAfter(left, rate, accepted, reported) ==
  Refilled(left, rate) - Step(accepted, reported, Refilled(left, rate))

\* The counters that a reading is compared with.
Accepted(o, m) == IF Restarted(o, m) THEN Banked(o) ELSE o

------------------------------------------------------------------------------
Fault == faults < MaxFaults /\ faults' = faults + 1

TrueReading ==
  [start |-> IF build = "new" THEN incarnation ELSE 0, uptime |-> uptime, count |-> count]

Reading ==
  IF honest THEN {TrueReading}
  ELSE [start : 0 .. MaxIncarnation, uptime : {0, MaxUptime}, count : 0 .. MaxCount]

Init ==
  /\ honest \in BOOLEAN
  /\ incarnation = 1 /\ build \in {"old", "new"} /\ (~honest => build = "new")
  /\ count = 0 /\ uptime = 0 /\ past = 0
  /\ offset = Fresh /\ dirty = FALSE /\ since = Never /\ room = 0 /\ uptimeRoom = 0
  /\ scraper = "idle" /\ snapshot = NoRow /\ row = NoRow /\ faults = 0
  /\ age = 0 /\ base = 0 /\ flushed = 0

(* The node *)
NodeCounts ==
  /\ honest /\ count < MaxCount /\ count' = count + 1
  /\ UNCHANGED <<honest, incarnation, build, uptime, past>>
  /\ UNCHANGED <<memory, scraper, snapshot, row, faults, ghosts>>

NodeRuns ==
  /\ honest /\ uptime < MaxUptime /\ uptime' = uptime + 1
  /\ UNCHANGED <<honest, incarnation, build, count, past>>
  /\ UNCHANGED <<memory, scraper, snapshot, row, faults, ghosts>>

NodeRestarts ==
  /\ honest /\ incarnation < MaxIncarnation
  /\ incarnation' = incarnation + 1 /\ build' \in {"old", "new"}
  /\ past' = past + count /\ count' = 0 /\ uptime' = 0
  /\ UNCHANGED <<honest, memory, scraper, snapshot, row, faults, ghosts>>

Tick ==
  /\ since' = IF since = Never THEN Never ELSE Lesser(since + 1, MaxWindow)
  /\ age' = Lesser(age + 1, MaxAge)
  /\ UNCHANGED <<node, offset, dirty, room, uptimeRoom, scraper, snapshot, row, faults>>
  /\ UNCHANGED <<base, flushed>>

(* scrape_node_metrics *)
IsQuick == since # Never /\ since < MinWindow

\* apply_lifetime_offsets, up to the await of the save that a restart calls
\* for.  Until that is over the scraper takes no further reading, so the
\* offset stays the one that it saves.
Scrape(m) ==
  /\ scraper = "idle"
  /\ ~honest => Total(offset) + Rate * MaxWindow <= MaxTotal
  /\ age' = IF IsQuick THEN Lesser(age + MinWindow, MaxAge) ELSE age
  /\ offset' = Observed(offset, m)
  /\ dirty' = (dirty \/ Restarted(offset, m) \/ StartSeen(offset, m) # offset.start)
  /\ since' = 0
  /\ room' = RoomAfter(room, Rate, Accepted(offset, m).count, m.count)
  /\ uptimeRoom' = RoomAfter(uptimeRoom, UptimeRate, Accepted(offset, m).uptime, m.uptime)
  /\ scraper' = IF Restarted(offset, m) THEN "saving" ELSE "idle"
  /\ UNCHANGED <<node, snapshot, row, faults, base, flushed>>

\* save_metric_offset fails: Postgres may have made the write all the same.
SaveFails(o) == Fault /\ row' \in {row, o}

SaveRestart ==
  /\ scraper = "saving" /\ scraper' = "idle"
  /\ row' = offset /\ dirty' = FALSE
  /\ UNCHANGED <<node, offset, since, room, uptimeRoom, snapshot, faults, ghosts>>

\* The save fails, or the node's URL changed and the scraper is aborted in it
\* for another to start.
SaveRestartLost ==
  /\ scraper = "saving" /\ scraper' = "idle" /\ SaveFails(offset)
  /\ UNCHANGED <<node, memory, snapshot, ghosts>>

(* metric_offset_flush_loop *)
FlushStart_DirtyOnly ==
  /\ snapshot = NoRow /\ dirty
  /\ snapshot' = offset
  /\ UNCHANGED <<node, memory, scraper, row, faults, ghosts>>

FlushStart ==
  /\ snapshot = NoRow
  /\ dirty \/ offset.count # 0 \/ offset.uptime # 0
  /\ snapshot' = offset
  /\ UNCHANGED <<node, memory, scraper, row, faults, ghosts>>

FlushSave ==
  /\ snapshot # NoRow /\ snapshot' = NoRow
  /\ row' = snapshot /\ dirty' = FALSE
  /\ flushed' = Total(snapshot)
  /\ UNCHANGED <<node, offset, since, room, uptimeRoom, scraper, faults, age, base>>

FlushFails ==
  /\ snapshot # NoRow /\ snapshot' = NoRow /\ SaveFails(snapshot)
  /\ UNCHANGED <<node, memory, scraper, ghosts>>

\* load_metric_offsets
Loaded == IF row = NoRow THEN Fresh ELSE row

\* init_state: when the query fails, or the payload of the row does not decode,
\* the process starts from nothing.
Starts == {Loaded} \cup (IF LoadFails THEN {Fresh} ELSE {})

\* The indexer stops anywhere and starts again.
Crash ==
  /\ Fault
  /\ offset' \in Starts /\ dirty' = FALSE /\ since' = Never
  /\ room' = 0 /\ uptimeRoom' = 0
  /\ scraper' = "idle" /\ snapshot' = NoRow
  /\ age' = 0 /\ base' = Total(offset')
  /\ UNCHANGED <<node, row, flushed>>

Next ==
  \/ NodeCounts \/ NodeRuns \/ NodeRestarts
  \/ Tick
  \/ \E m \in Reading : Scrape(m)
  \/ SaveRestart \/ SaveRestartLost
  \/ FlushStart \/ FlushSave \/ FlushFails
  \/ Crash

Spec == Init /\ [][Next]_vars

\* Both tasks tick on an interval and the network and Postgres answer in the
\* end: only Fault, which is bounded, keeps a scrape or a save from going through.
FairSpec ==
  /\ Spec
  /\ WF_vars(Tick)
  /\ WF_vars(SaveRestart \/ \E m \in Reading : Scrape(m))
  /\ WF_vars(FlushStart \/ FlushSave)

------------------------------------------------------------------------------
OffsetRow == [start : -1 .. MaxIncarnation, banked : Nat, count : Nat, uptime : Nat]

TypeOK ==
  /\ honest \in BOOLEAN
  /\ incarnation \in 1 .. MaxIncarnation /\ build \in {"old", "new"}
  /\ count \in 0 .. MaxCount /\ uptime \in 0 .. MaxUptime /\ past \in Nat
  /\ offset \in OffsetRow
  /\ snapshot \in OffsetRow \cup {NoRow} /\ row \in OffsetRow \cup {NoRow}
  /\ dirty \in BOOLEAN /\ since \in {Never} \cup 0 .. MaxWindow
  /\ room \in 0 .. Rate * MaxWindow /\ uptimeRoom \in 0 .. UptimeRate * MaxWindow
  /\ scraper \in {"idle", "saving"} /\ faults \in 0 .. MaxFaults
  /\ age \in 0 .. MaxAge
  /\ base \in Nat /\ flushed \in Nat

\* A restart of the indexer costs at most what was counted since the last flush:
\* no save leaves less in an honest node's row than a finished flush has found
\* (METRIC_OFFSET_FLUSH_SECS: "this bounds what an indexer crash can lose").
FlushedStays == [][honest => Total(row') >= flushed]_vars

Lifetime == INSTANCE LifetimeTotals WITH
  truth <- past + count + (IF honest THEN 0 ELSE MaxTotal),
  total <- Total(offset), saved <- Total(row), flushed <- flushed

\* Where every start reads the row, the offsets of a node implement
\* LifetimeTotals: whatever restarts, of the node, of the indexer or of both,
\* and whichever saves overtake each other, the figure never passes what an
\* honest node counted, moves back only with a restart of the indexer, and then
\* not below what the last flush had found.
ImplementsTotals == Lifetime!TotalsSpec

\* Since the process started the figure has grown no faster than the ceiling,
\* whatever the node reports and however often it claims to have restarted;
\* readings that follow each other at once are credited with MinWindow.
GrowthBounded ==
  age < MaxAge =>
    Total(offset) - base <= Rate * (FirstWindow + age)

\* An honest node's counter is caught up with, however far ahead it was, and
\* its last incarnation is known by its start time if it reports that.
CatchesUp ==
  <>[](honest => /\ offset.count >= count
                 /\ build = "new" => offset.start = incarnation)

\* The row catches up with the memory, as long as a counter of the incarnation
\* is not zero: no save that was overtaken or lost is the last.
RowCatchesUp ==
  <>[](offset.count # 0 \/ offset.uptime # 0 => Total(row) = Total(offset))

=============================================================================
