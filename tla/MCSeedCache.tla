---------------------------- MODULE MCSeedCache ----------------------------
(* Instances of SeedCache for the model checker.                           *)
EXTENDS SeedCache, TLC

=============================================================================
