------------------------------ MODULE MCGrantList ------------------------------
(* Instance of GrantList for TLC: two interchangeable clients. *)
EXTENDS GrantList, TLC

Symmetry == Permutations(Clients)
================================================================================
