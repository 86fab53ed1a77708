----------------------------- MODULE MCSettlement -----------------------------
(* Settlement for TLC; the constants are given in the cfg files.           *)
EXTENDS Settlement
=============================================================================
