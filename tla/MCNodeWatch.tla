---------------------------- MODULE MCNodeWatch ----------------------------
(* Instances of NodeWatch for the model checker.                           *)
EXTENDS NodeWatch, TLC

=============================================================================
