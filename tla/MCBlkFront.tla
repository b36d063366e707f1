------------------------------ MODULE MCBlkFront -------------------------------
(* Instances of BlkFront for TLC. *)
EXTENDS BlkFront, TLC

MCHosts      == {[persistent |-> TRUE, segs |-> 2], [persistent |-> FALSE, segs |-> 2]}
MCMixed      == {[persistent |-> p, segs |-> 1] : p \in BOOLEAN}
MCPersistent == {[persistent |-> TRUE, segs |-> 1]}
Symmetry     == Permutations(Bios)
================================================================================
