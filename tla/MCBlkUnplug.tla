------------------------------ MODULE MCBlkUnplug ------------------------------
(* Instances of BlkUnplug for TLC. *)
EXTENDS BlkUnplug

CONSTANTS t1, t2

(* Every orderly environment: up to three processes have the disk open,    *)
(* three unplugs and two migrations.                                       *)
MCCases == {c \in [openers : 0..3, unplugs : 0..3, migrations : 0..2,
                   may : SUBSET {"sudden", "twice", "late", "fail", "refuse"}] : Orderly(c)}
====
