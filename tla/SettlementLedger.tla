--------------------------- MODULE SettlementLedger ---------------------------
(***************************************************************************)
(* What the settlement tables promise, without the program that fills      *)
(* them: every log is counted once, and the checkpoint of a source (the    *)
(* contracts a configuration follows) only covers blocks whose logs of     *)
(* that source are counted.  It may be set back: a round whose write of    *)
(* the checkpoint was made but reported as failed goes on from the old one.*)
(***************************************************************************)
EXTENDS Integers

CONSTANTS
  MaxBlock,        \* bound: the chain stops growing here
  FromBlock        \* SETTLEMENT_FROM_BLOCK

ASSUME LedgerAssumption == MaxBlock \in Nat /\ FromBlock \in 1 .. MaxBlock

VARIABLES
  log,             \* the settlement log of each block up to safe
  safe,            \* the safe head
  rows,            \* how often the log of a block is in the tables
  upto             \* for each source its checkpoint

ledgerVars == <<log, safe, rows, upto>>

Block == 1 .. MaxBlock
Kind == {"none", "settled", "claimed"}

\* A source follows the entry point, or the reward pool besides.
Source == {"entry", "entry+pool"}
Follows(s) == IF s = "entry" THEN {"settled"} ELSE {"settled", "claimed"}

NoCheckpoint == -1

LedgerInit ==
  /\ log = [b \in Block |-> "none"] /\ safe = 0
  /\ rows = [b \in Block |-> 0]
  /\ upto = [s \in Source |-> NoCheckpoint]

\* A block becomes safe; the contracts emit nothing before their deployment.
Mine ==
  /\ safe < MaxBlock /\ safe' = safe + 1
  /\ \E k \in Kind :
       /\ k # "none" => safe + 1 >= FromBlock
       /\ log' = [log EXCEPT ![safe + 1] = k]

Chain == Mine /\ UNCHANGED <<rows, upto>>

Count(b) ==
  /\ b <= safe /\ log[b] # "none" /\ rows[b] = 0
  /\ rows' = [rows EXCEPT ![b] = 1]
  /\ UNCHANGED <<log, safe, upto>>

Close(s, e) ==
  /\ e <= safe
  /\ \A b \in 1 .. e : log[b] \in Follows(s) => rows[b] = 1
  /\ upto' = [upto EXCEPT ![s] = e]
  /\ UNCHANGED <<log, safe, rows>>

Forget == upto' = [s \in Source |-> NoCheckpoint] /\ UNCHANGED <<log, safe, rows>>

LedgerNext ==
  \/ Chain
  \/ \E b \in Block : Count(b)
  \/ \E s \in Source, e \in Block : Close(s, e)
  \/ Forget

LedgerSpec == LedgerInit /\ [][LedgerNext]_ledgerVars

=============================================================================
