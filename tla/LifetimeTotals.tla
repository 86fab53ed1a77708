---------------------------- MODULE LifetimeTotals ----------------------------
(***************************************************************************)
(* What the lifetime figure of a node promises, without the program that   *)
(* keeps it: it only moves forward and never past what the node counted,   *)
(* and a restart of the indexer takes it back to the saved figure, which   *)
(* is not below what the last finished flush had found in memory.          *)
(***************************************************************************)
EXTENDS Naturals

VARIABLES
  truth,           \* what the node counted in all its incarnations
  total,           \* the figure the indexer holds
  saved,           \* the figure in Postgres
  flushed          \* the figure that the last finished flush started from

totalsVars == <<truth, total, saved, flushed>>

TotalsInit == truth \in Nat /\ total = 0 /\ saved = 0 /\ flushed = 0

Count == truth' >= truth /\ UNCHANGED <<total, saved, flushed>>

Accept == total' >= total /\ total' <= truth /\ UNCHANGED <<truth, saved, flushed>>

\* A write may bring an older figure than the one before, but not any older.
Save ==
  /\ saved' >= flushed' /\ saved' <= total
  /\ flushed' >= flushed
  /\ UNCHANGED <<truth, total>>

Restart == total' = saved /\ UNCHANGED <<truth, saved, flushed>>

TotalsNext == Count \/ Accept \/ Save \/ Restart

TotalsSpec == TotalsInit /\ [][TotalsNext]_totalsVars

=============================================================================
