---------------------------- MODULE OffsetsProofs ----------------------------
(* Proofs about Offsets.                                                   *)
EXTENDS Offsets, TLAPS

\* Products of naturals: the only facts about them that the proofs use.
LEMMA TimesNat == ASSUME NEW a \in Nat, NEW b \in Nat PROVE a * b \in Nat
  BY SMT

LEMMA TimesPlus ==
  ASSUME NEW a \in Nat, NEW b \in Int, NEW c \in Int
  PROVE  a * (b + c) = a * b + a * c
  BY SMT

LEMMA TimesMonotone ==
  ASSUME NEW a \in Nat, NEW b \in Nat, NEW c \in Nat, b <= c
  PROVE  a * b <= a * c
  BY SMT

LEMMA WindowNat ==
  ASSUME since \in {Never} \cup 0 .. MaxWindow
  PROVE  Window \in Nat /\ Window <= MaxWindow
  BY OffsetsAssumption DEF Window, Lesser, Greater, Never

\* An allowance stays between zero and its capacity.
LEMMA Allowance ==
  ASSUME since \in {Never} \cup 0 .. MaxWindow,
         NEW rate \in Nat, NEW left \in 0 .. rate * MaxWindow,
         NEW accepted \in Nat, NEW reported \in Int
  PROVE  /\ Refilled(left, rate) \in 0 .. rate * MaxWindow
         /\ Refilled(left, rate) <= left + rate * Window
         /\ Step(accepted, reported, Refilled(left, rate)) \in Nat
         /\ Step(accepted, reported, Refilled(left, rate)) <= Refilled(left, rate)
         /\ RoomAfter(left, rate, accepted, reported) \in 0 .. rate * MaxWindow
         /\ RoomAfter(left, rate, accepted, reported)
              = Refilled(left, rate) - Step(accepted, reported, Refilled(left, rate))
<1>1. Window \in Nat BY WindowNat
<1>2. rate * Window \in Nat /\ rate * MaxWindow \in Nat
  BY <1>1, TimesNat, OffsetsAssumption
<1> DEFINE w == rate * Window
           cap == rate * MaxWindow
<1>3. Refilled(left, rate) = Lesser(left + w, cap) BY DEF Refilled
<1>4. w \in Nat /\ cap \in Nat /\ left \in 0 .. cap BY <1>2
<1> HIDE DEF w, cap
<1>5. Refilled(left, rate) \in 0 .. cap /\ Refilled(left, rate) <= left + w
  BY <1>3, <1>4 DEF Lesser
<1>6. /\ Step(accepted, reported, Refilled(left, rate)) \in Nat
      /\ Step(accepted, reported, Refilled(left, rate)) <= Refilled(left, rate)
  BY <1>4, <1>5 DEF Step, Lesser
<1>7. RoomAfter(left, rate, accepted, reported)
        = Refilled(left, rate) - Step(accepted, reported, Refilled(left, rate))
  BY DEF RoomAfter
<1> HIDE DEF RoomAfter
<1>8. RoomAfter(left, rate, accepted, reported) \in 0 .. cap
  BY <1>4, <1>5, <1>6, <1>7
<1> QED BY <1>5, <1>6, <1>7, <1>8 DEF w, cap

\* What a reading does to the offset: the banked part takes what was accepted,
\* the total grows by the accepted step.
LEMMA Observing ==
  ASSUME TypeOK, NEW m \in [start : 0 .. MaxIncarnation, uptime : Nat, count : Int]
  PROVE  /\ Accepted(offset, m) \in OffsetRow
         /\ Observed(offset, m) \in OffsetRow
         /\ Observed(offset, m).start = StartSeen(offset, m)
         /\ Observed(offset, m).banked = Accepted(offset, m).banked
         /\ Observed(offset, m).count = Accepted(offset, m).count
              + Step(Accepted(offset, m).count, m.count, Refilled(room, Rate))
         /\ Observed(offset, m).uptime = Accepted(offset, m).uptime
              + Step(Accepted(offset, m).uptime, m.uptime, Refilled(uptimeRoom, UptimeRate))
         /\ Total(Accepted(offset, m)) = Total(offset)
<1>1. Accepted(offset, m) \in OffsetRow /\ Total(Accepted(offset, m)) = Total(offset)
  <2>1. offset \in OffsetRow BY DEF TypeOK
  <2>2. Banked(offset) \in OffsetRow /\ Total(Banked(offset)) = Total(offset)
    BY <2>1 DEF Banked, OffsetRow, Total
  <2> QED BY <2>1, <2>2 DEF Accepted
<1>2. StartSeen(offset, m) \in -1 .. MaxIncarnation
  BY OffsetsAssumption DEF TypeOK, OffsetRow, StartSeen
<1>3. /\ Step(Accepted(offset, m).count, m.count, Refilled(room, Rate)) \in Nat
      /\ Step(Accepted(offset, m).uptime, m.uptime, Refilled(uptimeRoom, UptimeRate)) \in Nat
  <2>1. /\ Accepted(offset, m).count \in Nat /\ Accepted(offset, m).uptime \in Nat
        /\ m.count \in Int /\ m.uptime \in Int
    BY <1>1 DEF OffsetRow
  <2> QED BY <2>1, Allowance, OffsetsAssumption DEF TypeOK
<1> DEFINE o == Accepted(offset, m)
           c == Step(o.count, m.count, Refilled(room, Rate))
           u == Step(o.uptime, m.uptime, Refilled(uptimeRoom, UptimeRate))
<1>4. Observed(offset, m) = [o EXCEPT !.start = StartSeen(offset, m),
                                      !.count = @ + c, !.uptime = @ + u]
  BY DEF Observed, Accepted
<1>5. o \in OffsetRow /\ c \in Nat /\ u \in Nat BY <1>1, <1>3
<1> HIDE DEF o, c, u
<1>6. /\ Observed(offset, m) \in OffsetRow
      /\ Observed(offset, m).start = StartSeen(offset, m)
      /\ Observed(offset, m).banked = o.banked
      /\ Observed(offset, m).count = o.count + c
      /\ Observed(offset, m).uptime = o.uptime + u
  <2>1. Observed(offset, m) = [start |-> StartSeen(offset, m), banked |-> o.banked,
                               count |-> o.count + c, uptime |-> o.uptime + u]
    BY <1>4, <1>5 DEF OffsetRow
  <2> QED BY <1>2, <1>5, <2>1 DEF OffsetRow
<1> QED BY <1>1, <1>6 DEF o, c, u

LEMMA ReadingType ==
  ASSUME TypeOK, NEW m \in Reading
  PROVE  m \in [start : 0 .. MaxIncarnation, uptime : Nat, count : Int]
  BY OffsetsAssumption DEF TypeOK, Reading, TrueReading

LEMMA LoadedType ==
  ASSUME TypeOK
  PROVE  /\ Loaded \in OffsetRow /\ Total(Loaded) = Total(row)
         /\ Starts \subseteq OffsetRow
         /\ ~LoadFails => Starts = {Loaded}
<1>1. Fresh \in OffsetRow BY OffsetsAssumption DEF Fresh, OffsetRow
<1>2. Loaded \in OffsetRow /\ Total(Loaded) = Total(row)
  BY OffsetsAssumption DEF TypeOK, Loaded, Fresh, NoRow, OffsetRow, Total
<1> QED BY <1>1, <1>2 DEF Starts

-----------------------------------------------------------------------------
LEMMA InitType == Init => TypeOK
<1>1. 0 \in 0 .. Rate * MaxWindow /\ 0 \in 0 .. UptimeRate * MaxWindow
  BY TimesNat, OffsetsAssumption
<1>2. Fresh \in OffsetRow BY OffsetsAssumption DEF Fresh, OffsetRow
<1> SUFFICES ASSUME Init PROVE TypeOK
  OBVIOUS
<1>3. offset \in OffsetRow /\ snapshot = NoRow /\ row = NoRow BY <1>2 DEF Init
<1>4. room = 0 /\ uptimeRoom = 0 /\ since = Never /\ honest \in BOOLEAN
  BY DEF Init
<1>5. age = 0 /\ base = 0 /\ flushed = 0 /\ faults = 0 /\ scraper = "idle"
  BY DEF Init
<1>7. dirty \in BOOLEAN BY DEF Init
<1>6. incarnation = 1 /\ build \in {"old", "new"} /\ count = 0 /\ uptime = 0 /\ past = 0
  BY DEF Init
<1> QED BY <1>1, <1>3, <1>4, <1>5, <1>6, <1>7, OffsetsAssumption DEF TypeOK

LEMMA ScrapeType ==
  ASSUME TypeOK, NEW m \in Reading, Scrape(m)
  PROVE  TypeOK'
<1> USE DEF TypeOK
<1>1. m \in [start : 0 .. MaxIncarnation, uptime : Nat, count : Int] BY ReadingType
<1>2. offset' \in OffsetRow BY <1>1, Observing DEF Scrape
<1>3. /\ room' \in 0 .. Rate * MaxWindow
      /\ uptimeRoom' \in 0 .. UptimeRate * MaxWindow
  <2>1. Accepted(offset, m) \in OffsetRow BY <1>1, Observing
  <2> QED BY <1>1, <2>1, Allowance, OffsetsAssumption DEF Scrape, OffsetRow
<1>4. age' \in 0 .. MaxAge /\ since' \in {Never} \cup 0 .. MaxWindow
  BY OffsetsAssumption DEF Scrape, Lesser
<1>5. dirty' \in BOOLEAN /\ scraper' \in {"idle", "saving"}
  BY DEF Scrape
<1> QED BY <1>2, <1>3, <1>4, <1>5 DEF Scrape, node

LEMMA NextType == TypeOK /\ [Next]_vars => TypeOK'
<1> SUFFICES ASSUME TypeOK, [Next]_vars PROVE TypeOK'
  OBVIOUS
<1> USE DEF TypeOK
<1>1. CASE NodeCounts BY <1>1, OffsetsAssumption DEF NodeCounts, memory, ghosts
<1>2. CASE NodeRuns BY <1>2, OffsetsAssumption DEF NodeRuns, memory, ghosts
<1>3. CASE NodeRestarts BY <1>3, OffsetsAssumption DEF NodeRestarts, memory, ghosts
<1>4. CASE Tick BY <1>4, OffsetsAssumption DEF Tick, node, Lesser, Never
<1>5. CASE \E m \in Reading : Scrape(m) BY <1>5, ScrapeType
<1>6. CASE SaveRestart BY <1>6 DEF SaveRestart, node, ghosts
<1>7. CASE SaveRestartLost BY <1>7, OffsetsAssumption DEF SaveRestartLost, SaveFails, Fault, node, memory, ghosts
<1>8. CASE FlushStart BY <1>8 DEF FlushStart, node, memory, ghosts
<1>9. CASE FlushSave
  <2>1. Total(snapshot) \in Nat BY <1>9 DEF FlushSave, Total, OffsetRow
  <2> QED BY <1>9, <2>1 DEF FlushSave, node
<1>10. CASE FlushFails BY <1>10, OffsetsAssumption DEF FlushFails, SaveFails, Fault, node, memory, ghosts
<1>11. CASE Crash
  <2>1. 0 \in 0 .. Rate * MaxWindow /\ 0 \in 0 .. UptimeRate * MaxWindow
    BY TimesNat, OffsetsAssumption
  <2>2. offset' \in OffsetRow BY <1>11, LoadedType DEF Crash
  <2>3. offset' \in OffsetRow /\ base' \in Nat
    BY <1>11, <2>2 DEF Crash, Total, OffsetRow
  <2>6. dirty' \in BOOLEAN BY <1>11 DEF Crash
  <2>4. /\ since' = Never /\ room' = 0 /\ uptimeRoom' = 0
        /\ scraper' = "idle" /\ snapshot' = NoRow /\ age' = 0
    BY <1>11 DEF Crash
  <2>5. UNCHANGED <<node, row, flushed>> /\ faults' \in 0 .. MaxFaults
    BY <1>11, OffsetsAssumption DEF Crash, Fault
  <2> QED BY <2>1, <2>3, <2>4, <2>5, <2>6, OffsetsAssumption DEF node
<1>12. CASE UNCHANGED vars BY <1>12 DEF vars, node, memory, ghosts
<1> QED BY <1>1, <1>2, <1>3, <1>4, <1>5, <1>6, <1>7, <1>8, <1>9, <1>10, <1>11, <1>12
        DEF Next

\* Every variable keeps its type; in particular an allowance never goes below
\* zero nor past MaxWindow's worth, for any ceilings, windows and readings.
THEOREM OffsetsTypeCorrect == Spec => []TypeOK
BY InitType, NextType, PTL DEF Spec

-----------------------------------------------------------------------------
\* What the ceiling allows covers the growth, what the allowance still holds and
\* what the time since the last reading will add to it.
Covered ==
  /\ since = Never => Total(offset) = base /\ room = 0
  /\ since # Never /\ age < MaxAge =>
       Total(offset) - base + room + Rate * since <= Rate * FirstWindow + Rate * age

LEMMA InitCovered == Init => Covered
  BY DEF Init, Covered, Fresh, Total

LEMMA ScrapeCovered ==
  ASSUME TypeOK, Covered, NEW m \in Reading, Scrape(m)
  PROVE  Covered'
<1>1. m \in [start : 0 .. MaxIncarnation, uptime : Nat, count : Int] BY ReadingType
<1> DEFINE o == Accepted(offset, m)
           refilled == Refilled(room, Rate)
           step == Step(o.count, m.count, refilled)
<1>2. o \in OffsetRow /\ Total(o) = Total(offset) BY <1>1, Observing
<1>3. offset' = Observed(offset, m) BY DEF Scrape
<1>4. /\ offset'.banked = o.banked /\ offset'.count = o.count + step
  BY <1>1, <1>3, Observing
<1>5. /\ refilled <= room + Rate * Window
      /\ step \in Nat /\ room' = refilled - step /\ refilled \in Int
  <2>1. m.count \in Int /\ o.count \in Nat BY <1>1, <1>2 DEF OffsetRow
  <2>2. room' = RoomAfter(room, Rate, o.count, m.count) BY DEF Scrape
  <2>3. /\ since \in {Never} \cup 0 .. MaxWindow /\ Rate \in Nat
        /\ room \in 0 .. Rate * MaxWindow
    BY OffsetsAssumption DEF TypeOK
  <2>4. /\ refilled \in 0 .. Rate * MaxWindow /\ refilled <= room + Rate * Window
        /\ step \in Nat /\ RoomAfter(room, Rate, o.count, m.count) = refilled - step
    BY <2>1, <2>3, Allowance
  <2>5. refilled \in Int
    BY <2>4, TimesNat, OffsetsAssumption
  <2> QED BY <2>2, <2>4, <2>5
<1>6. Total(offset') \in Nat /\ Total(offset) \in Nat /\ Total(offset') = Total(offset) + step
  <2>1. offset' \in OffsetRow /\ offset \in OffsetRow BY <1>1, <1>3, Observing DEF TypeOK
  <2> HIDE DEF o, step
  <2> QED BY <1>2, <1>4, <1>5, <2>1 DEF Total, OffsetRow
<1> HIDE DEF o, refilled, step
<1>7. since' = 0 /\ base' = base BY DEF Scrape
<1>8. Window \in Nat BY WindowNat DEF TypeOK
<1>9. /\ Rate * Window \in Nat /\ Rate * MinWindow \in Nat /\ Rate * FirstWindow \in Nat
      /\ Rate * age \in Nat /\ Rate * 0 = 0
  BY <1>8, TimesNat, OffsetsAssumption DEF TypeOK
<1>10. Total(offset') + room' <= Total(offset) + room + Rate * Window
  BY <1>5, <1>6, <1>9 DEF TypeOK
<1>11. room' \in Int /\ room \in Int /\ base \in Int
  BY <1>5 DEF TypeOK
<1> SUFFICES ASSUME age' < MaxAge
             PROVE  Total(offset') - base + room' <= Rate * FirstWindow + Rate * age'
  BY <1>6, <1>7, <1>9, <1>11 DEF Covered, Never
<1>12. CASE since = Never
  <2>1. Window = FirstWindow /\ age' = age
    BY <1>12, OffsetsAssumption DEF Window, Lesser, Greater, Scrape, IsQuick
  <2> QED BY <1>6, <1>9, <1>10, <1>11, <1>12, <2>1 DEF Covered
<1>13. CASE since # Never /\ ~IsQuick
  <2>1. Window <= since /\ age' = age /\ since \in Nat
    BY <1>13, OffsetsAssumption DEF Window, Lesser, Greater, Scrape, IsQuick, TypeOK
  <2>2. Rate * Window <= Rate * since /\ Rate * since \in Nat
    BY <1>8, <2>1, TimesMonotone, TimesNat, OffsetsAssumption
  <2>3. Total(offset) - base + room + Rate * since <= Rate * FirstWindow + Rate * age
    BY <1>13, <2>1 DEF Covered
  <2> QED BY <1>6, <1>9, <1>10, <1>11, <2>1, <2>2, <2>3
<1>14. CASE IsQuick
  <2>1. Window = MinWindow /\ since \in Nat /\ age' = age + MinWindow /\ age < MaxAge
    BY <1>14, OffsetsAssumption DEF Window, Lesser, Greater, Scrape, IsQuick, TypeOK, Never
  <2>2. Rate * age' = Rate * age + Rate * MinWindow
    BY <2>1, TimesPlus, OffsetsAssumption DEF TypeOK
  <2>3. Total(offset) - base + room + Rate * since <= Rate * FirstWindow + Rate * age
    BY <1>14, <2>1 DEF Covered, IsQuick
  <2>4. Rate * since \in Nat BY <2>1, TimesNat, OffsetsAssumption
  <2> QED BY <1>6, <1>9, <1>10, <1>11, <2>1, <2>2, <2>3, <2>4
<1> QED BY <1>12, <1>13, <1>14 DEF IsQuick

LEMMA TickCovered ==
  ASSUME TypeOK, Covered, Tick
  PROVE  Covered'
<1>1. UNCHANGED <<offset, room, base>> BY DEF Tick
<1>2. CASE since = Never
  BY <1>1, <1>2 DEF Tick, Covered
<1>3. CASE since # Never
  <2>1. since \in Nat /\ since' \in Nat /\ since' <= since + 1 /\ since' # Never
    BY <1>3, OffsetsAssumption DEF Tick, Lesser, Never, TypeOK
  <2> SUFFICES ASSUME age' < MaxAge
               PROVE Total(offset) - base + room + Rate * since'
                       <= Rate * FirstWindow + Rate * age'
    BY <1>1, <2>1 DEF Covered, Total
  <2>2. age' = age + 1 /\ age < MaxAge /\ age \in Nat
    BY OffsetsAssumption DEF Tick, Lesser, TypeOK
  <2>3. Total(offset) - base + room + Rate * since <= Rate * FirstWindow + Rate * age
    BY <1>3, <2>2 DEF Covered
  <2>4. Rate * since' <= Rate * (since + 1)
    <3>1. since + 1 \in Nat BY <2>1
    <3> QED BY <2>1, <3>1, TimesMonotone, OffsetsAssumption
  <2>5. Rate * (since + 1) = Rate * since + Rate * 1 /\ Rate * age' = Rate * age + Rate * 1
    BY <2>1, <2>2, TimesPlus, OffsetsAssumption
  <2>6. /\ Rate * since \in Nat /\ Rate * since' \in Nat /\ Rate * age \in Nat
        /\ Rate * 1 \in Nat /\ Rate * FirstWindow \in Nat
    BY <2>1, <2>2, TimesNat, OffsetsAssumption
  <2>7. Total(offset) \in Int /\ base \in Int /\ room \in Int
    BY DEF TypeOK, OffsetRow, Total
  <2> QED BY <2>3, <2>4, <2>5, <2>6, <2>7
<1> QED BY <1>2, <1>3

LEMMA NextCovered == TypeOK /\ Covered /\ [Next]_vars => Covered'
<1> SUFFICES ASSUME TypeOK, Covered, [Next]_vars PROVE Covered'
  OBVIOUS
<1>1. CASE UNCHANGED <<offset, base, since, room, age>>
  BY <1>1 DEF Covered, Total
<1>2. CASE Tick BY <1>2, TickCovered
<1>3. CASE \E m \in Reading : Scrape(m) BY <1>3, ScrapeCovered
<1>4. CASE Crash BY <1>4 DEF Crash, Covered, Total
<1>5. CASE NodeCounts \/ NodeRuns \/ NodeRestarts
  BY <1>1, <1>5 DEF NodeCounts, NodeRuns, NodeRestarts, memory, ghosts
<1>6. CASE SaveRestart \/ SaveRestartLost
  BY <1>1, <1>6 DEF SaveRestart, SaveRestartLost, memory, ghosts
<1>7. CASE FlushStart \/ FlushSave \/ FlushFails
  BY <1>1, <1>7 DEF FlushStart, FlushSave, FlushFails, memory, ghosts
<1>8. CASE UNCHANGED vars BY <1>1, <1>8 DEF vars, memory, ghosts
<1> QED BY <1>2, <1>3, <1>4, <1>5, <1>6, <1>7, <1>8 DEF Next

LEMMA CoveredBounds == TypeOK /\ Covered => GrowthBounded
<1> SUFFICES ASSUME TypeOK, Covered, age < MaxAge
             PROVE  Total(offset) - base <= Rate * (FirstWindow + age)
  BY DEF GrowthBounded
<1>1. Rate * (FirstWindow + age) = Rate * FirstWindow + Rate * age
  BY TimesPlus, OffsetsAssumption DEF TypeOK
<1>2. Rate * FirstWindow \in Nat /\ Rate * age \in Nat
  BY TimesNat, OffsetsAssumption DEF TypeOK
<1>3. Total(offset) \in Int /\ base \in Int /\ room \in Nat
  <2>1. Rate * MaxWindow \in Nat BY TimesNat, OffsetsAssumption
  <2> QED BY <2>1 DEF TypeOK, OffsetRow, Total
<1>4. CASE since = Never BY <1>1, <1>2, <1>3, <1>4 DEF Covered
<1>5. CASE since # Never
  <2>1. since \in Nat BY <1>5 DEF TypeOK
  <2>2. Rate * since \in Nat BY <2>1, TimesNat, OffsetsAssumption
  <2>3. Total(offset) - base + room + Rate * since <= Rate * FirstWindow + Rate * age
    BY <1>5 DEF Covered
  <2> QED BY <1>1, <1>2, <1>3, <2>2, <2>3
<1> QED BY <1>4, <1>5

\* No sequence of readings makes a figure grow faster than its ceiling allows
\* since the process started, for any ceiling and any windows.
THEOREM GrowthIsBounded == Spec => []GrowthBounded
<1>1. Init => TypeOK /\ Covered BY InitType, InitCovered
<1>2. TypeOK /\ Covered /\ [Next]_vars => (TypeOK /\ Covered)'
  BY NextType, NextCovered
<1>3. TypeOK /\ Covered => GrowthBounded BY CoveredBounds
<1> QED BY <1>1, <1>2, <1>3, PTL DEF Spec

-----------------------------------------------------------------------------
\* A restart that the next reading of an honest node will reveal is not in the
\* record's counters yet: they are all of earlier incarnations.
Explained(o) ==
  honest =>
    /\ o.banked <= past /\ o.banked + o.count <= past + count
    /\ Restarted(o, TrueReading) => o.banked + o.count <= past
    /\ o.start = 0 => o.uptime = 0

Ordered ==
  /\ flushed <= Total(row) /\ Total(row) <= Total(offset)
  /\ snapshot # NoRow => flushed <= Total(snapshot) /\ Total(snapshot) <= Total(offset)

\* The inductive invariant of the refinement: every copy of the offset is
\* explained by what the node counted, and no older copy has a higher total.
OffsetsInv ==
  /\ Explained(offset) /\ Explained(row) /\ Explained(snapshot)
  /\ Ordered
  /\ ~honest => Total(offset) <= MaxTotal

LEMMA InitInv == Init => OffsetsInv
<1> SUFFICES ASSUME Init PROVE OffsetsInv
  OBVIOUS
<1>1. /\ Explained(Fresh) /\ Explained(NoRow)
  BY DEF Init, Explained, Fresh, NoRow, Restarted, Lower, TrueReading
<1>2. Total(Fresh) = 0 /\ Total(NoRow) = 0 BY DEF Total, Fresh, NoRow
<1> QED BY <1>1, <1>2, OffsetsAssumption DEF Init, OffsetsInv, Ordered

\* The node's own steps explain all the more.
LEMMA NodeExplained ==
  ASSUME TypeOK, NodeCounts \/ NodeRuns \/ NodeRestarts,
         NEW o \in OffsetRow \cup {NoRow}, Explained(o)
  PROVE  Explained(o)'
<1>1. /\ o.start \in Int /\ o.banked \in Nat /\ o.count \in Nat /\ o.uptime \in Nat
  BY DEF OffsetRow, NoRow
<1>2. CASE NodeCounts
  BY <1>1, <1>2 DEF NodeCounts, Explained, Restarted, Lower, TrueReading, TypeOK
<1>3. CASE NodeRuns
  BY <1>1, <1>3 DEF NodeRuns, Explained, Restarted, Lower, TrueReading, TypeOK
<1>4. CASE NodeRestarts
  <2>1. o.banked + o.count <= past + count BY <1>4 DEF NodeRestarts, Explained
  <2>2. past' = past + count /\ count' = 0 /\ past \in Nat /\ count \in Nat
    BY <1>4 DEF NodeRestarts, TypeOK
  <2>3. o.start = 0 => o.uptime = 0 BY <1>4 DEF NodeRestarts, Explained
  <2>4. o.banked <= past' /\ o.banked + o.count <= past' + count' /\ o.banked + o.count <= past'
    BY <1>1, <2>1, <2>2
  <2> QED BY <2>3, <2>4 DEF Explained
<1> QED BY <1>2, <1>3, <1>4

\* The reading of an honest node, taken into its offset.
LEMMA ScrapeExplained ==
  ASSUME TypeOK, Explained(offset), NEW m \in Reading, Scrape(m)
  PROVE  Explained(offset')
<1> SUFFICES ASSUME honest PROVE Explained(offset')
  BY DEF Explained
<1>1. m = TrueReading BY DEF Reading
<1>2. m \in [start : 0 .. MaxIncarnation, uptime : Nat, count : Int] BY ReadingType
<1>3. m.count = count /\ m.uptime = uptime /\ m.start \in 0 .. MaxIncarnation
  BY <1>1, <1>2 DEF TrueReading
<1> DEFINE o == Accepted(offset, m)
           c == Step(o.count, m.count, Refilled(room, Rate))
           u == Step(o.uptime, m.uptime, Refilled(uptimeRoom, UptimeRate))
<1>4. offset' = Observed(offset, m) BY DEF Scrape
<1>5. /\ offset'.start = StartSeen(offset, m) /\ offset'.banked = o.banked
      /\ offset'.count = o.count + c /\ offset'.uptime = o.uptime + u
      /\ o \in OffsetRow /\ offset' \in OffsetRow
  BY <1>2, <1>4, Observing
<1>6. /\ o.count + c <= Greater(o.count, count)
      /\ o.uptime + u <= Greater(o.uptime, uptime)
  <2>1. /\ Refilled(room, Rate) \in Int /\ Refilled(uptimeRoom, UptimeRate) \in Int
    <3>1. /\ since \in {Never} \cup 0 .. MaxWindow
          /\ room \in 0 .. Rate * MaxWindow /\ uptimeRoom \in 0 .. UptimeRate * MaxWindow
          /\ Rate \in Nat /\ UptimeRate \in Nat
      BY OffsetsAssumption DEF TypeOK
    <3>2. Rate * MaxWindow \in Nat /\ UptimeRate * MaxWindow \in Nat
      BY TimesNat, OffsetsAssumption
    <3> QED BY <3>1, <3>2, Allowance
  <2>2. o.count \in Nat /\ o.uptime \in Nat BY <1>5 DEF OffsetRow
  <2>3. count \in Nat /\ uptime \in Nat BY OffsetsAssumption DEF TypeOK
  <2> QED BY <1>3, <2>1, <2>2, <2>3 DEF Step, Lesser, Greater
<1> HIDE DEF c, u
<1>7. /\ offset.start \in Int /\ offset.banked \in Nat /\ offset.count \in Nat
      /\ offset.uptime \in Nat /\ count \in Nat /\ uptime \in Nat /\ past \in Nat
      /\ o.banked \in Nat /\ o.count \in Nat /\ o.uptime \in Nat
      /\ offset'.count \in Nat /\ offset'.uptime \in Nat
  BY <1>5, OffsetsAssumption DEF OffsetRow, TypeOK
<1>8. CASE Restarted(offset, m)
  <2>1. o.banked = offset.banked + offset.count /\ o.count = 0 /\ o.uptime = 0
    BY <1>8 DEF Accepted, Banked
  <2>2. offset.banked + offset.count <= past BY <1>1, <1>8 DEF Explained
  <2>3. offset'.banked <= past /\ offset'.banked + offset'.count <= past + count
    BY <1>5, <1>6, <1>7, <2>1, <2>2 DEF Greater
  <2>4. offset'.uptime <= uptime BY <1>5, <1>6, <1>7, <2>1 DEF Greater
  <2>5. ~Restarted(offset', m)
    BY <1>3, <1>5, <1>7, <2>4 DEF Restarted, Lower, StartSeen
  <2>6. offset'.start # 0 BY <1>3, <1>5, <1>7 DEF StartSeen
  <2> QED BY <1>1, <2>3, <2>5, <2>6 DEF Explained
<1>9. CASE ~Restarted(offset, m)
  <2>1. o = offset BY <1>9 DEF Accepted
  <2>2. /\ offset.banked <= past /\ offset.banked + offset.count <= past + count
        /\ offset.start = 0 => offset.uptime = 0
    BY DEF Explained
  <2>3. offset'.banked <= past /\ offset'.banked + offset'.count <= past + count
    BY <1>5, <1>6, <1>7, <2>1, <2>2 DEF Greater
  <2>4. m.start > 0 \/ offset'.uptime <= uptime
    BY <1>3, <1>5, <1>6, <1>7, <1>9, <2>1, <2>2 DEF Greater, Restarted, Lower
  <2>5. ~Restarted(offset', m)
    BY <1>3, <1>5, <1>7, <2>4 DEF Restarted, Lower, StartSeen
  <2>6. offset'.start # 0 BY <1>3, <1>5, <1>7 DEF StartSeen
  <2> QED BY <1>1, <2>3, <2>5, <2>6 DEF Explained
<1> QED BY <1>8, <1>9

LEMMA ScrapeTotal ==
  ASSUME TypeOK, NEW m \in Reading, Scrape(m)
  PROVE  /\ Total(offset') \in Nat /\ Total(offset) \in Nat
         /\ Total(offset) <= Total(offset')
         /\ Total(offset') <= Total(offset) + Rate * MaxWindow
<1>1. m \in [start : 0 .. MaxIncarnation, uptime : Nat, count : Int] BY ReadingType
<1> DEFINE o == Accepted(offset, m)
           c == Step(o.count, m.count, Refilled(room, Rate))
<1>2. o \in OffsetRow /\ Total(o) = Total(offset) BY <1>1, Observing
<1>3. offset' \in OffsetRow /\ offset'.banked = o.banked /\ offset'.count = o.count + c
  BY <1>1, Observing DEF Scrape
<1>4. c \in Nat /\ c <= Rate * MaxWindow /\ Rate * MaxWindow \in Nat
  <2>1. m.count \in Int /\ o.count \in Nat BY <1>1, <1>2 DEF OffsetRow
  <2>2. /\ since \in {Never} \cup 0 .. MaxWindow /\ Rate \in Nat
        /\ room \in 0 .. Rate * MaxWindow /\ Rate * MaxWindow \in Nat
    BY TimesNat, OffsetsAssumption DEF TypeOK
  <2>3. /\ Refilled(room, Rate) \in 0 .. Rate * MaxWindow
        /\ c \in Nat /\ c <= Refilled(room, Rate)
    BY <2>1, <2>2, Allowance
  <2> HIDE DEF c
  <2> QED BY <2>2, <2>3
<1> HIDE DEF o, c
<1>5. offset \in OffsetRow BY DEF TypeOK
<1> QED BY <1>2, <1>3, <1>4, <1>5 DEF Total, OffsetRow

LEMMA NextInv == ~LoadFails /\ TypeOK /\ OffsetsInv /\ [Next]_vars => OffsetsInv'
<1> SUFFICES ASSUME ~LoadFails, TypeOK, OffsetsInv, [Next]_vars PROVE OffsetsInv'
  OBVIOUS
<1> USE DEF OffsetsInv
<1>0. /\ Total(offset) \in Nat /\ Total(row) \in Nat /\ Total(snapshot) \in Nat /\ flushed \in Nat
  BY DEF TypeOK, OffsetRow, NoRow, Total
<1>1. CASE NodeCounts \/ NodeRuns \/ NodeRestarts
  <2>1. UNCHANGED <<offset, row, snapshot, flushed>> /\ honest' = honest /\ honest
    BY <1>1 DEF NodeCounts, NodeRuns, NodeRestarts, memory, ghosts
  <2>2. Explained(offset)' /\ Explained(row)' /\ Explained(snapshot)'
    <3>1. /\ offset \in OffsetRow \cup {NoRow} /\ row \in OffsetRow \cup {NoRow}
          /\ snapshot \in OffsetRow \cup {NoRow}
      BY DEF TypeOK
    <3> QED BY <1>1, <2>1, <3>1, NodeExplained DEF Explained, Restarted, Lower, TrueReading
  <2> QED BY <2>1, <2>2 DEF Ordered, Total
<1>2. CASE \E m \in Reading : Scrape(m)
  <2>1. PICK m \in Reading : Scrape(m) BY <1>2
  <2>2. UNCHANGED <<node, row, snapshot, flushed>> BY <2>1 DEF Scrape
  <2>3. Explained(offset') BY <2>1, ScrapeExplained
  <2>4. Explained(offset)' /\ Explained(row)' /\ Explained(snapshot)'
    BY <2>2, <2>3 DEF Explained, Restarted, Lower, TrueReading, node
  <2>5. Ordered'
    BY <1>0, <2>1, <2>2, ScrapeTotal DEF Ordered, Total
  <2>6. ~honest' => Total(offset') <= MaxTotal
    <3>1. Rate * MaxWindow \in Nat BY TimesNat, OffsetsAssumption
    <3>2. ~honest => Total(offset) + Rate * MaxWindow <= MaxTotal BY <2>1 DEF Scrape
    <3>3. Total(offset') \in Nat /\ Total(offset') <= Total(offset) + Rate * MaxWindow
      BY <2>1, ScrapeTotal
    <3> QED BY <1>0, <2>2, <3>1, <3>2, <3>3, OffsetsAssumption DEF node
  <2> QED BY <2>4, <2>5, <2>6 DEF Total
<1>3. CASE SaveRestart \/ SaveRestartLost
  <2>1. UNCHANGED <<node, offset, snapshot, flushed>> /\ row' \in {row, offset}
    BY <1>3 DEF SaveRestart, SaveRestartLost, SaveFails, memory, ghosts
  <2>2. Explained(offset)' /\ Explained(row)' /\ Explained(snapshot)'
    BY <2>1 DEF Explained, Restarted, Lower, TrueReading, node
  <2>3. Ordered' BY <1>0, <2>1 DEF Ordered, Total
  <2> QED BY <2>1, <2>2, <2>3 DEF Total, node
<1>4. CASE FlushStart \/ FlushSave \/ FlushFails
  <2>1. /\ UNCHANGED <<node, offset>> /\ row' \in {row, snapshot}
        /\ snapshot' \in {NoRow, offset}
    BY <1>4 DEF FlushStart, FlushSave, FlushFails, SaveFails, memory
  <2>2. Explained(NoRow)
    BY DEF Explained, NoRow, Restarted, Lower, TrueReading, TypeOK
  <2>3. Explained(offset)' /\ Explained(row)' /\ Explained(snapshot)'
    BY <2>1, <2>2 DEF Explained, Restarted, Lower, TrueReading, node
  <2>4. Ordered'
    <3>1. CASE FlushStart BY <1>0, <3>1 DEF FlushStart, Ordered, Total, ghosts, memory
    <3>2. CASE FlushSave BY <1>0, <3>2 DEF FlushSave, Ordered, Total
    <3>3. CASE FlushFails BY <1>0, <3>3 DEF FlushFails, SaveFails, Ordered, Total, ghosts, memory
    <3> QED BY <1>4, <3>1, <3>2, <3>3
  <2> QED BY <2>1, <2>3, <2>4 DEF Total, node
<1>5. CASE Crash
  <2>1. /\ UNCHANGED <<node, row, flushed>> /\ offset' = Loaded /\ snapshot' = NoRow
    BY <1>5, LoadedType DEF Crash
  <2>2. Explained(NoRow) /\ (honest => Explained(Fresh))
    BY DEF Explained, NoRow, Fresh, Restarted, Lower, TrueReading, TypeOK
  <2>3. Explained(Loaded) BY <2>2 DEF Loaded, Explained
  <2>4. Explained(offset)' /\ Explained(row)' /\ Explained(snapshot)'
    BY <2>1, <2>2, <2>3 DEF Explained, Restarted, Lower, TrueReading, node
  <2>5. Total(Loaded) = Total(row) BY LoadedType
  <2>6. Ordered' /\ Total(offset)' <= Total(offset)
    BY <1>0, <2>1, <2>5 DEF Ordered, Total
  <2>7. ~honest' => Total(offset)' <= MaxTotal
    BY <1>0, <2>1, <2>5, OffsetsAssumption DEF Ordered, Total, node
  <2> QED BY <2>4, <2>6, <2>7
<1>6. CASE Tick \/ UNCHANGED vars
  <2>1. UNCHANGED <<node, offset, row, snapshot, flushed>>
    BY <1>6 DEF Tick, vars, memory, ghosts
  <2> QED BY <2>1 DEF Explained, Restarted, Lower, TrueReading, node, Ordered, Total
<1> QED BY <1>1, <1>2, <1>3, <1>4, <1>5, <1>6 DEF Next

-----------------------------------------------------------------------------
LEMMA InitLifetime == Init => Lifetime!TotalsInit
<1> SUFFICES ASSUME Init PROVE Lifetime!TotalsInit
  OBVIOUS
<1>1. Total(offset) = 0 /\ Total(row) = 0 /\ flushed = 0
  BY DEF Init, Total, Fresh, NoRow
<1>2. past + count + (IF honest THEN 0 ELSE MaxTotal) \in Nat
  BY OffsetsAssumption DEF Init
<1> QED BY <1>1, <1>2 DEF Lifetime!TotalsInit

LEMMA AddBoth ==
  ASSUME NEW a \in Int, NEW b \in Int, NEW c \in Int, a <= b
  PROVE  a + c <= b + c
  BY SMT

LEMMA StepLifetime ==
  ~LoadFails /\ TypeOK /\ OffsetsInv /\ [Next]_vars
    => [Lifetime!TotalsNext]_(Lifetime!totalsVars)
<1> SUFFICES ASSUME ~LoadFails, TypeOK, OffsetsInv, [Next]_vars
             PROVE  [Lifetime!TotalsNext]_(Lifetime!totalsVars)
  OBVIOUS
<1> USE DEF Lifetime!TotalsNext, Lifetime!totalsVars
<1>0. /\ Total(offset) \in Nat /\ Total(row) \in Nat /\ Total(snapshot) \in Nat /\ flushed \in Nat
      /\ past \in Nat /\ count \in Nat
  BY OffsetsAssumption DEF TypeOK, OffsetRow, NoRow, Total
<1>1. CASE NodeCounts \/ NodeRuns \/ NodeRestarts
  <2>1. UNCHANGED <<offset, row, flushed, honest>>
    BY <1>1 DEF NodeCounts, NodeRuns, NodeRestarts, memory, ghosts
  <2>3. Lifetime!Count
    <3> DEFINE h == IF honest THEN 0 ELSE MaxTotal
    <3>1. h \in Int /\ h' = h BY <2>1, OffsetsAssumption
    <3>2. past + count \in Int /\ past' + count' \in Int /\ past + count <= past' + count'
      BY <1>0, <1>1 DEF NodeCounts, NodeRuns, NodeRestarts
    <3> HIDE DEF h
    <3>3. past + count + h <= past' + count' + h BY <3>1, <3>2, AddBoth
    <3>4. past' + count' + h' >= past + count + h BY <3>1, <3>2, <3>3
    <3> QED BY <2>1, <3>4 DEF h, Lifetime!Count, Total
  <2> QED BY <2>3
<1>2. CASE \E m \in Reading : Scrape(m)
  <2>1. PICK m \in Reading : Scrape(m) BY <1>2
  <2>2. UNCHANGED <<node, row, flushed>> BY <2>1 DEF Scrape
  <2>3. Total(offset') \in Nat /\ Total(offset) <= Total(offset') BY <2>1, ScrapeTotal
  <2>4. OffsetsInv' /\ TypeOK' BY NextInv, NextType
  <2>5. Total(offset') <= past + count + (IF honest THEN 0 ELSE MaxTotal)
    <3>1. CASE honest
      <4>1. Total(offset)' <= (past + count)'
        BY <2>2, <2>4, <3>1 DEF OffsetsInv, Explained, Total, node
      <4> QED BY <1>0, <2>2, <3>1, <4>1 DEF Total, node
    <3>2. CASE ~honest
      <4>1. Total(offset)' <= MaxTotal BY <2>2, <2>4, <3>2 DEF OffsetsInv, node
      <4>2. Total(offset') <= MaxTotal BY <4>1 DEF Total
      <4> QED BY <1>0, <2>3, <3>2, <4>2, OffsetsAssumption
    <3> QED BY <3>1, <3>2
  <2>6. Lifetime!Accept
    BY <2>2, <2>3, <2>5 DEF Lifetime!Accept, Total, node
  <2> QED BY <2>6
<1>3. CASE SaveRestart \/ SaveRestartLost \/ FlushStart \/ FlushSave \/ FlushFails
  <2>1. UNCHANGED <<node, offset>>
    BY <1>3 DEF SaveRestart, SaveRestartLost, FlushStart, FlushSave, FlushFails, memory
  <2>2. /\ Total(row') >= flushed' /\ Total(row') <= Total(offset) /\ flushed' >= flushed
    <3>1. CASE SaveRestart \/ SaveRestartLost \/ FlushStart \/ FlushFails
      BY <1>0, <3>1 DEF SaveRestart, SaveRestartLost, FlushStart, FlushFails, SaveFails, memory, ghosts,
                        OffsetsInv, Ordered
    <3>2. CASE FlushSave
      BY <1>0, <3>2 DEF FlushSave, OffsetsInv, Ordered
    <3> QED BY <1>3, <3>1, <3>2
  <2>3. Lifetime!Save BY <2>1, <2>2 DEF Lifetime!Save, Total, node
  <2> QED BY <2>3
<1>4. CASE Crash
  <2>1. UNCHANGED <<node, row, flushed>> /\ Total(offset') = Total(row)
    BY <1>4, LoadedType DEF Crash
  <2>2. Lifetime!Restart BY <2>1 DEF Lifetime!Restart, Total, node
  <2> QED BY <2>2
<1>5. CASE Tick \/ UNCHANGED vars
  <2>1. UNCHANGED <<node, offset, row, flushed>>
    BY <1>5 DEF Tick, vars, memory, ghosts
  <2> QED BY <2>1 DEF Total, node
<1> QED BY <1>1, <1>2, <1>3, <1>4, <1>5 DEF Next

\* Where every start reads the row, the offsets of a node implement the abstract
\* lifetime totals, for any bounds, restarts, crashes, and saves that are lost or
\* overtake each other.
THEOREM OffsetsImplementTotals ==
  ASSUME ~LoadFails
  PROVE  Spec => ImplementsTotals
<1>1. Init => TypeOK /\ OffsetsInv BY InitType, InitInv
<1>2. TypeOK /\ OffsetsInv /\ [Next]_vars => (TypeOK /\ OffsetsInv)'
  BY NextType, NextInv
<1> QED BY <1>1, <1>2, InitLifetime, StepLifetime, PTL
        DEF Spec, ImplementsTotals, Lifetime!TotalsSpec

=============================================================================
