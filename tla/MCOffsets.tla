------------------------------- MODULE MCOffsets -------------------------------
(* Offsets for TLC; the constants are given in the cfg files.              *)
EXTENDS Offsets
=============================================================================
