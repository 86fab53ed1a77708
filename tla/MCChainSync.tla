---------------------------- MODULE MCChainSync ----------------------------
(* Instances of ChainSync for TLC: two relayers, a chain of a few blocks.  *)
EXTENDS ChainSync, TLC

CONSTANTS a1, a2

MCAddr == {a1, a2}
Symmetry == Permutations(MCAddr)

HonestFaults == {"rpc", "lag", "crash", "reorg", "foreign", "read"}
CallFaults == {"rpc"}

=============================================================================
