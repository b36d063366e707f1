----------------------------- MODULE MCGrantTable ------------------------------
(* Instances of GrantTable for TLC. *)
EXTENDS GrantTable, TLC

MCFrame == [i \in 1..MaxFrames |->
              IF i = 1 THEN NrReserved .. FrameEntries - 1
                       ELSE (i - 1) * FrameEntries .. i * FrameEntries - 1]
Symmetry == Permutations(Clients)
================================================================================
