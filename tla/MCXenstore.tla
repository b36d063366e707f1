------------------------------ MODULE MCXenstore -------------------------------
(* Small instances of Xenstore for TLC. *)
EXTENDS Xenstore

CONSTANTS k1, f1, xw, w1, w2

(* The file's watch and one a callback registers. *)
TwoOwners == [w \in Watches |-> IF w = w1 THEN f1 ELSE xw]

(* One watch, of the file or of a kernel thread. *)
FileOwns == [w \in Watches |-> f1]
KernelOwns == [w \in Watches |-> k1]
================================================================================
