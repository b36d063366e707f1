------------------------------- MODULE MCBalloon -------------------------------
(* Instances of Balloon for TLC. *)
EXTENDS Balloon

Load(h, p, r) == [host |-> h, process |-> p, refusals |-> r]

(* The host alone, a process beside it, a hypervisor short of memory. *)
MCLoads == {Load(3, 0, 1), Load(1, 1, 2), Load(2, 1, 0)}
================================================================================
