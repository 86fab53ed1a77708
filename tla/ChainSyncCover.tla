---------------------------- MODULE ChainSyncCover ----------------------------
(***************************************************************************)
(* Proof that, while endpoints are honest, the checkpoint covers the rows, *)
(* the served map covers the events, checks raise no false alarm and       *)
(* members do not flap (CheckpointCoversRows, ServedCoversEvents,          *)
(* AlarmsAreExplained and MembersDoNotFlap of ChainSync), for every value  *)
(* of the constants.                                                       *)
(*                                                                         *)
(* The invariant follows a profile on its way.  A height is settled when   *)
(* neither a new block nor a reorg can bring an event at or below it, and  *)
(* every endpoint has it; all heights the sync works with are.  A profile  *)
(* read at any head is then current since any settled height, and stays so *)
(* until an event after that height, or a fault, touches its address.      *)
(***************************************************************************)
EXTENDS ChainSyncProofs

\* Neither a new block nor a reorg brings an event to b or below any more.
Settled(t, b) == b + Confirmations <= t \/ b < FromBlock

\* CurrentSince for the chain l with head t.
Cur(l, t, p, a, x) ==
  /\ (\A c \in x + 1 .. t : l[c] \notin {Reg(a), Rem(a)}) =>
       (p \notin {Absent, Foreign} <=> Member(l, a, t))
  /\ (\A c \in x + 1 .. t : l[c].addr # a) => p = Profile(l, a, t)

\* The same inside a chunk that ends at x: its events that are not applied
\* yet, pend, count as ones still to come.
CurAfter(l, t, pend, p, a, x) ==
  /\ /\ \A b \in pend : l[b] \notin {Reg(a), Rem(a)}
     /\ \A c \in x + 1 .. t : l[c] \notin {Reg(a), Rem(a)}
     => (p \notin {Absent, Foreign} <=> Member(l, a, t))
  /\ /\ \A b \in pend : l[b].addr # a
     /\ \A c \in x + 1 .. t : l[c].addr # a
     => p = Profile(l, a, t)

\* Blocks beyond the head, and before the deployment, have no events.
ChainOk == \A b \in Block : b > tip \/ b < FromBlock => log[b] = Empty

\* Every height the sync works with is settled.
HeightsOk ==
  /\ ckpt # NoCheckpoint => Settled(tip, ckpt)
  /\ plan # "none" => next >= 1 /\ Settled(tip, next - 1)
  /\ pc \in {"head", "scan", "check"} => plan # "none"
  /\ pc \in {"scan", "check", "profiles", "upsert", "checkpoint", "publish",
             "fetch", "apply"} => Settled(tip, target)
  /\ pc = "check" => target = next - 1
  /\ Settled(tip, lastBlock)
  /\ pc \in Live => ckpt # NoCheckpoint /\ ckpt <= lastBlock
  /\ pc = "apply" => Settled(tip, chunkEnd) /\ lastBlock < chunkEnd

\* A full replay has exactly the members at the block it has come to.
ReplayOk == plan = "full" => members = MembersAt(log, next - 1)

\* Any replay has them but for later changes: rows that are ahead of the
\* checkpoint are so by events that the replay comes to.
MembersOk ==
  plan # "none" =>
    \A a \in Addr \ suspect :
      (\A c \in next .. tip : log[c] \notin {Reg(a), Rem(a)}) =>
        (a \in members <=> Member(log, a, next - 1))

\* What a reconcile has read, and what it has written of it.
FreshOk ==
  /\ undone \subseteq suspect
  /\ pc = "profiles" =>
       \A a \in Addr \ (todo \cup undone) : Cur(log, tip, fresh[a], a, target)
  /\ pc \in {"upsert", "checkpoint", "publish"} =>
       \A a \in Addr \ undone : Cur(log, tip, fresh[a], a, target)
  /\ pc = "upsert" =>
       \A a \in Addr \ todo : fresh[a] # Absent => row[a] = fresh[a]
  /\ pc \in {"checkpoint", "publish"} => row = fresh
  /\ pc = "publish" => ckpt = target

\* Rows of another registry are gone once a sync has pruned them.
OwnOk ==
  /\ \A a \in Addr : nodes[a] # Foreign /\ fresh[a] # Foreign /\ snapshot[a] # Foreign
  /\ pc \in Live => \A a \in Addr : row[a] # Foreign

RowsOk ==
  ckpt # NoCheckpoint => \A a \in Addr \ suspect : Cur(log, tip, row[a], a, ckpt)

LiveOk ==
  pc \in Live \ {"apply"} =>
    \A a \in Addr \ suspect : /\ Cur(log, tip, row[a], a, lastBlock)
                              /\ Cur(log, tip, nodes[a], a, lastBlock)

\* The served map stays what the live loop or the last sync left, whatever an
\* attempt that follows does to rows and checkpoint, until it is replaced.
ServedOk ==
  /\ pc = "down" => verified = "unknown"
  /\ verified # "unknown" /\ pc # "apply" =>
       \A a \in Addr \ suspect : Cur(log, tip, nodes[a], a, lastBlock)

\* The events of a chunk are applied in order.
PendingOk ==
  pc = "apply" =>
    \A b \in pending :
      /\ lastBlock < b /\ b <= chunkEnd /\ log[b] # Empty
      /\ \A c \in Block : b < c /\ c <= chunkEnd /\ log[c] # Empty => c \in pending

ApplyOk ==
  pc = "apply" =>
    \A a \in Addr \ suspect :
      /\ CurAfter(log, tip, pending, row[a], a, chunkEnd)
      /\ CurAfter(log, tip, pending, nodes[a], a, chunkEnd)

IInv ==
  /\ ChainOk /\ HeightsOk /\ ReplayOk /\ MembersOk /\ FreshOk /\ OwnOk
  /\ RowsOk /\ LiveOk /\ ServedOk /\ PendingOk /\ ApplyOk

------------------------------------------------------------------------------
(* Facts about the registry's history that no step of the program is in.   *)

LEMMA MemberSame ==
  ASSUME NEW l1, NEW l2, NEW a, NEW b1 \in Nat, NEW b2 \in Nat, b1 <= b2,
         \A c \in 1 .. b1 : /\ l1[c] = Reg(a) <=> l2[c] = Reg(a)
                            /\ l1[c] = Rem(a) <=> l2[c] = Rem(a),
         \A c \in b1 + 1 .. b2 : l2[c] \notin {Reg(a), Rem(a)}
  PROVE  Member(l1, a, b1) <=> Member(l2, a, b2)
<1>1. ASSUME Member(l1, a, b1) PROVE Member(l2, a, b2)
  <2>1. PICK c \in 1 .. b1 : l1[c] = Reg(a) /\ \A d \in c + 1 .. b1 : l1[d] # Rem(a)
    BY <1>1 DEF Member
  <2>2. c \in 1 .. b2 /\ l2[c] = Reg(a)
    BY <2>1
  <2>3. ASSUME NEW d \in c + 1 .. b2 PROVE l2[d] # Rem(a)
    <3>1. CASE d <= b1
      BY <2>1, <3>1
    <3>2. CASE ~ (d <= b1)
      BY <2>1, <3>2
    <3> QED BY <3>1, <3>2
  <2> QED BY <2>2, <2>3 DEF Member
<1>2. ASSUME Member(l2, a, b2) PROVE Member(l1, a, b1)
  <2>1. PICK c \in 1 .. b2 : l2[c] = Reg(a) /\ \A d \in c + 1 .. b2 : l2[d] # Rem(a)
    BY <1>2 DEF Member
  <2>2. c \in 1 .. b1
    BY <2>1
  <2>3. l1[c] = Reg(a) /\ \A d \in c + 1 .. b1 : l1[d] # Rem(a)
    BY <2>1, <2>2
  <2> QED BY <2>2, <2>3 DEF Member
<1> QED BY <1>1, <1>2

LEMMA EventAddr ==
  ASSUME NEW a PROVE Reg(a).addr = a /\ Rem(a).addr = a
BY DEF Reg, Rem

LEMMA ProfileSame ==
  ASSUME NEW l1, NEW l2, NEW a, NEW b1 \in Nat, NEW b2 \in Nat, b1 <= b2,
         \A c \in 1 .. b1 : l1[c].addr = a \/ l2[c].addr = a => l1[c] = l2[c],
         \A c \in b1 + 1 .. b2 : l2[c].addr # a
  PROVE  Profile(l1, a, b1) = Profile(l2, a, b2)
<1>1. Member(l1, a, b1) <=> Member(l2, a, b2)
  <2>1. \A c \in 1 .. b1 : /\ l1[c] = Reg(a) <=> l2[c] = Reg(a)
                           /\ l1[c] = Rem(a) <=> l2[c] = Rem(a)
    BY EventAddr
  <2>2. \A c \in b1 + 1 .. b2 : l2[c] \notin {Reg(a), Rem(a)}
    BY EventAddr
  <2> QED BY <2>1, <2>2, MemberSame
<1>2. {c \in 1 .. b1 : l1[c].addr = a} = {c \in 1 .. b2 : l2[c].addr = a}
  OBVIOUS
<1> QED BY <1>1, <1>2 DEF Profile

\* A profile is present exactly when its reader saw a member, and it is never
\* taken for another registry's.
LEMMA ProfilePresent ==
  ASSUME NEW l, NEW a, NEW h \in Nat
  PROVE  /\ Profile(l, a, h) \notin {Absent, Foreign} <=> Member(l, a, h)
         /\ Profile(l, a, h) # Absent <=> Member(l, a, h)
         /\ Profile(l, a, h) # Foreign
<1>1. 0 \notin Profile(l, a, h)
  BY DEF Profile, Absent
<1>2. ASSUME Member(l, a, h) PROVE Profile(l, a, h) # Absent
  <2>1. PICK c \in 1 .. h : l[c] = Reg(a)
    BY <1>2 DEF Member
  <2>2. c \in Profile(l, a, h)
    BY <1>2, <2>1, EventAddr DEF Profile
  <2> QED BY <2>2 DEF Absent
<1>3. ~ Member(l, a, h) => Profile(l, a, h) = Absent
  BY DEF Profile
<1> QED BY <1>1, <1>2, <1>3 DEF Foreign

LEMMA CurIs ==
  ASSUME NEW p, NEW a, NEW x
  PROVE  CurrentSince(p, a, x) <=> Cur(log, tip, p, a, x)
BY DEF CurrentSince, Cur, NoEventAfter, NoMembershipEventAfter

\* The chain l2 up to t2 continues the chain l up to t: the events of a are
\* kept, and those it has besides come after x.
Continues(l, t, l2, t2, a, x) ==
  /\ t <= t2
  /\ \A c \in 1 .. t : l[c].addr = a => l2[c] = l[c]
  /\ \A c \in 1 .. t2 : l2[c].addr = a /\ (c <= t => l2[c] # l[c]) => c > x

LEMMA ContinuesAfter ==
  ASSUME NEW l, NEW t \in Nat, NEW l2, NEW t2 \in Nat, NEW a, NEW x \in Nat,
         NEW pend \in SUBSET (1 .. x), NEW p, Continues(l, t, l2, t2, a, x),
         \A b \in pend : l2[b] = l[b],
         CurAfter(l, t, pend, p, a, x)
  PROVE  CurAfter(l2, t2, pend, p, a, x)
<1>1. ASSUME \A b \in pend : l2[b] \notin {Reg(a), Rem(a)},
             \A c \in x + 1 .. t2 : l2[c] \notin {Reg(a), Rem(a)}
      PROVE  p \notin {Absent, Foreign} <=> Member(l2, a, t2)
  <2>1. ASSUME NEW c \in 1 .. t, NEW e \in {Reg(a), Rem(a)}
        PROVE  l[c] = e <=> l2[c] = e
    <3>1. l[c] = e => l2[c] = e
      BY EventAddr DEF Continues
    <3>2. ASSUME l2[c] = e, l[c] # e PROVE FALSE
      <4>1. c > x
        BY <3>2, EventAddr DEF Continues
      <4> QED BY <1>1, <3>2, <4>1 DEF Continues
    <3> QED BY <3>1, <3>2
  <2>2. \A c \in t + 1 .. t2 : l2[c] \notin {Reg(a), Rem(a)}
    BY <1>1, EventAddr DEF Continues
  <2>3. \A c \in x + 1 .. t : l[c] \notin {Reg(a), Rem(a)}
    BY <1>1, <2>1 DEF Continues
  <2>4. \A b \in pend : l[b] \notin {Reg(a), Rem(a)}
    BY <1>1
  <2>5. p \notin {Absent, Foreign} <=> Member(l, a, t)
    BY <2>3, <2>4 DEF CurAfter
  <2> QED BY <2>1, <2>2, <2>5, MemberSame DEF Continues
<1>2. ASSUME \A b \in pend : l2[b].addr # a, \A c \in x + 1 .. t2 : l2[c].addr # a
      PROVE  p = Profile(l2, a, t2)
  <2>1. \A c \in 1 .. t : l[c].addr = a \/ l2[c].addr = a => l[c] = l2[c]
    BY <1>2 DEF Continues
  <2>2. \A c \in t + 1 .. t2 : l2[c].addr # a
    BY <1>2 DEF Continues
  <2>3. \A c \in x + 1 .. t : l[c].addr # a
    BY <1>2, <2>1 DEF Continues
  <2>4. p = Profile(l, a, t)
    BY <1>2, <2>3 DEF CurAfter
  <2> QED BY <2>1, <2>2, <2>4, ProfileSame DEF Continues
<1> QED BY <1>1, <1>2 DEF CurAfter

LEMMA CurAfterNone ==
  ASSUME NEW l, NEW t, NEW p, NEW a, NEW x
  PROVE  Cur(l, t, p, a, x) <=> CurAfter(l, t, {}, p, a, x)
BY DEF Cur, CurAfter

LEMMA ContinuesCur ==
  ASSUME NEW l, NEW t \in Nat, NEW l2, NEW t2 \in Nat, NEW a, NEW x \in Nat,
         NEW p, Continues(l, t, l2, t2, a, x), Cur(l, t, p, a, x)
  PROVE  Cur(l2, t2, p, a, x)
BY ContinuesAfter, CurAfterNone

\* A later height asks for less.
LEMMA CurLater ==
  ASSUME NEW l, NEW t \in Nat, NEW p, NEW a, NEW x \in Nat, NEW y \in Nat,
         x >= y, Cur(l, t, p, a, x)
  PROVE  Cur(l, t, p, a, y)
BY DEF Cur


------------------------------------------------------------------------------
(* Settled heights, readings and replays.                                  *)

LEMMA SettledDown ==
  ASSUME NEW t \in Nat, NEW b \in Int, NEW c \in Int, c <= b, Settled(t, b)
  PROVE  Settled(t, c)
BY ConstantsAssumption DEF Settled

LEMMA SafeHeadSettled ==
  ASSUME NEW t \in Nat, NEW h \in 0 .. t
  PROVE  SafeHead(h) \in Nat /\ Settled(t, SafeHead(h))
BY ConstantsAssumption DEF SafeHead, Settled

\* A profile read at any head an endpoint may have is current since every
\* settled height.
LEMMA ReadCurrent ==
  ASSUME TypeOK, ChainOk, Lag <= Confirmations, NEW a \in Addr, NEW x \in Nat,
         Settled(tip, x), NEW h \in 0 .. tip, h + Lag >= tip
  PROVE  Cur(log, tip, Profile(log, a, h), a, x)
<1> USE ConstantsAssumption
<1>1. ASSUME NEW c \in h + 1 .. tip, c <= x PROVE log[c] = Empty
  BY <1>1 DEF TypeOK, ChainOk, Settled, Block
<1>2. ASSUME \A c \in x + 1 .. tip : log[c] \notin {Reg(a), Rem(a)}
      PROVE  Profile(log, a, h) \notin {Absent, Foreign} <=> Member(log, a, tip)
  <2>1. \A c \in h + 1 .. tip : log[c] \notin {Reg(a), Rem(a)}
    BY <1>1, <1>2 DEF TypeOK, Reg, Rem, Empty
  <2>2. Member(log, a, h) <=> Member(log, a, tip)
    BY <2>1, MemberSame DEF TypeOK
  <2> QED BY <2>2, ProfilePresent DEF TypeOK
<1>3. ASSUME \A c \in x + 1 .. tip : log[c].addr # a
      PROVE  Profile(log, a, h) = Profile(log, a, tip)
  <2>1. \A c \in h + 1 .. tip : log[c].addr # a
    BY <1>1, <1>3 DEF TypeOK, Empty
  <2> QED BY <2>1, ProfileSame DEF TypeOK
<1> QED BY <1>2, <1>3 DEF Cur

\* A replay of the blocks f..e is right about an address if it had a right
\* start, or if it meets an event of its membership.
LEMMA ReplayedMember ==
  ASSUME NEW S, NEW a \in Addr, NEW f \in Nat \ {0}, NEW e \in Nat, f <= e,
         (\A c \in f .. e : log[c] \notin {Reg(a), Rem(a)}) =>
           (a \in S <=> Member(log, a, f - 1))
  PROVE  a \in Replayed(S, f, e) <=> Member(log, a, e)
<1>1. CASE \A c \in f .. e : log[c] \notin {Reg(a), Rem(a)}
  <2>1. a \in Replayed(S, f, e) <=> Member(log, a, f - 1)
    BY <1>1 DEF Replayed
  <2> QED BY <1>1, <2>1, MemberSame
<1>2. CASE \E r \in f .. e : log[r] = Rem(a)
  <2>1. PICK r \in f .. e : log[r] = Rem(a)
    BY <1>2
  <2>2. a \in Replayed(S, f, e) <=>
          \E c \in f .. e : log[c] = Reg(a) /\ \A d \in c + 1 .. e : log[d] # Rem(a)
    BY <2>1 DEF Replayed
  <2>3. ASSUME NEW c \in 1 .. e, \A d \in c + 1 .. e : log[d] # Rem(a)
        PROVE  c \in f .. e
    BY <2>1, <2>3
  <2> QED BY <2>2, <2>3 DEF Member
<1>3. CASE /\ \E c \in f .. e : log[c] = Reg(a)
           /\ \A d \in f .. e : log[d] # Rem(a)
  <2>1. PICK c \in f .. e : log[c] = Reg(a)
    BY <1>3
  <2>2. c \in 1 .. e /\ \A d \in c + 1 .. e : log[d] # Rem(a)
    BY <1>3, <2>1
  <2> QED BY <2>1, <2>2 DEF Replayed, Member
<1> QED BY <1>1, <1>2, <1>3

\* Replaying from the members at a block gives the members at a later one.
LEMMA ReplayedStep ==
  ASSUME NEW f \in Nat \ {0}, NEW e \in Nat, f <= e
  PROVE  Replayed(MembersAt(log, f - 1), f, e) = MembersAt(log, e)
<1>1. ASSUME NEW a \in Addr
      PROVE  a \in Replayed(MembersAt(log, f - 1), f, e) <=> Member(log, a, e)
  BY ReplayedMember DEF MembersAt
<1> QED BY <1>1 DEF Replayed, MembersAt

\* Who is a member at a settled block is one at the head, unless that changed.
LEMMA SettledMember ==
  ASSUME TypeOK, ChainOk, NEW a \in Addr, NEW x \in Nat, Settled(tip, x),
         \A c \in x + 1 .. tip : log[c] \notin {Reg(a), Rem(a)}
  PROVE  Member(log, a, x) <=> Member(log, a, tip)
<1> USE ConstantsAssumption
<1>1. CASE x <= tip
  BY <1>1, MemberSame DEF TypeOK
<1>2. CASE x > tip
  <2>1. \A c \in tip + 1 .. x : log[c] \notin {Reg(a), Rem(a)}
    BY <1>2 DEF TypeOK, ChainOk, Settled, Block, Reg, Rem, Empty
  <2> QED BY <1>2, <2>1, MemberSame DEF TypeOK
<1> QED BY <1>1, <1>2 DEF TypeOK

LEMMA NoMembersBefore ==
  ASSUME TypeOK, ChainOk PROVE MembersAt(log, FromBlock - 1) = {}
BY ConstantsAssumption DEF TypeOK, ChainOk, MembersAt, Member, Block, Reg, Empty

------------------------------------------------------------------------------
(* Steps of the chain.                                                     *)

\* What is settled stays, and what is not is continued, but for the
\* addresses of events that a reorg takes back.
ChainMoved ==
  /\ tip <= tip'
  /\ \A x \in Nat : Settled(tip, x) => \A c \in Block : c <= x => log'[c] = log[c]
  /\ \E gone \in SUBSET Addr :
       /\ suspect' = suspect \cup gone /\ undone' = undone \cup gone
       /\ \A a \in Addr \ gone, x \in Nat :
            Settled(tip, x) => Continues(log, tip, log', tip', a, x)

LEMMA MineMoves ==
  ASSUME TypeOK, TypeOK', ChainOk, Mine PROVE ChainOk' /\ ChainMoved
<1> USE ConstantsAssumption DEF TypeOK, Block
<1>1. PICK e \in Event \cup {Empty} :
        /\ WellFormed([log EXCEPT ![tip + 1] = e], tip + 1)
        /\ log' = [log EXCEPT ![tip + 1] = e]
  BY DEF Mine
<1>2. tip + 1 \in Block /\ tip' = tip + 1 /\ suspect' = suspect /\ undone' = undone
  BY DEF Mine, ghostVars
<1>3. e # Empty => tip + 1 >= FromBlock
  BY <1>1, <1>2 DEF WellFormed
<1>4. ChainOk'
  BY <1>1, <1>2, <1>3 DEF ChainOk
<1>5. ASSUME NEW x \in Nat, Settled(tip, x), NEW c \in Block, c <= x
      PROVE  log'[c] = log[c]
  BY <1>1, <1>2, <1>3, <1>5 DEF ChainOk, Settled
<1>6. ASSUME NEW a \in Addr, NEW x \in Nat, Settled(tip, x)
      PROVE  Continues(log, tip, log', tip', a, x)
  <2>1. ASSUME NEW c \in 1 .. tip PROVE log'[c] = log[c]
    BY <1>1, <1>2
  <2>2. ASSUME log'[tip + 1].addr = a PROVE tip + 1 > x
    BY <1>1, <1>2, <1>3, <1>6, <2>2 DEF Settled, Empty
  <2> QED BY <1>2, <2>1, <2>2 DEF Continues
<1>7. \E gone \in SUBSET Addr :
        /\ suspect' = suspect \cup gone /\ undone' = undone \cup gone
        /\ \A a \in Addr \ gone, x \in Nat :
             Settled(tip, x) => Continues(log, tip, log', tip', a, x)
  <2> WITNESS {} \in SUBSET Addr
  <2> QED BY <1>2, <1>6
<1>8. tip <= tip'
  BY <1>2
<1> QED BY <1>4, <1>5, <1>7, <1>8, Zenon DEF ChainMoved

LEMMA ReorgMoves ==
  ASSUME TypeOK, TypeOK', ChainOk, Reorg PROVE ChainOk' /\ ChainMoved
<1> USE ConstantsAssumption DEF TypeOK, Block
<1> DEFINE tail == {b \in Block : b <= tip /\ b > tip - Confirmations}
           gone == {a \in Addr : \E b \in tail : log[b].addr = a /\ log'[b] # log[b]}
<1>1. /\ \A b \in tail : WellFormed(log', b)
      /\ \A b \in Block \ tail : log'[b] = log[b]
      /\ suspect' = suspect \cup gone /\ undone' = undone \cup gone
      /\ tip' = tip
  <2>1. PICK s \in [tail -> Event \cup {Empty}] :
          LET l == [b \in Block |-> IF b \in tail THEN s[b] ELSE log[b]]
              lost == {a \in Addr : \E b \in tail : log[b].addr = a /\ l[b] # log[b]}
          IN  /\ \A b \in tail : WellFormed(l, b)
              /\ log' = l
              /\ suspect' = suspect \cup lost
              /\ undone' = undone \cup lost
    BY DEF Reorg
  <2>2. \A b \in tail : WellFormed(log', b)
    BY <2>1
  <2>3. suspect' = suspect \cup gone /\ undone' = undone \cup gone
    BY <2>1
  <2>4. \A b \in Block \ tail : log'[b] = log[b]
    BY <2>1
  <2> QED BY <2>2, <2>3, <2>4 DEF Reorg
<1>2. \A b \in tail : log'[b] # Empty => b >= FromBlock
  BY <1>1 DEF WellFormed
<1>3. ChainOk'
  BY <1>1, <1>2 DEF ChainOk
<1>4. ASSUME NEW x \in Nat, Settled(tip, x), NEW c \in Block, c <= x
      PROVE  log'[c] = log[c]
  BY <1>1, <1>2, <1>4 DEF ChainOk, Settled
<1>5. ASSUME NEW a \in Addr \ gone, NEW x \in Nat, Settled(tip, x)
      PROVE  Continues(log, tip, log', tip', a, x)
  <2>1. ASSUME NEW c \in 1 .. tip, log[c].addr = a PROVE log'[c] = log[c]
    BY <1>1, <2>1
  <2>2. ASSUME NEW c \in 1 .. tip, log'[c].addr = a, log'[c] # log[c] PROVE c > x
    <3>1. c \in tail
      BY <1>1, <2>2
    <3>2. c >= FromBlock
      BY <1>2, <2>2, <3>1 DEF Empty
    <3> QED BY <1>5, <3>1, <3>2 DEF Settled
  <2> QED BY <1>1, <2>1, <2>2 DEF Continues
<1>6. \E g \in SUBSET Addr :
        /\ suspect' = suspect \cup g /\ undone' = undone \cup g
        /\ \A a \in Addr \ g, x \in Nat :
             Settled(tip, x) => Continues(log, tip, log', tip', a, x)
  <2> WITNESS gone \in SUBSET Addr
  <2> QED BY <1>1, <1>5
<1>7. tip <= tip'
  BY <1>1
<1> QED BY <1>3, <1>4, <1>6, <1>7, Zenon DEF ChainMoved

=============================================================================
