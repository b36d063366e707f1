------------------------------- MODULE MCDevices -------------------------------
(* Instances of Devices for TLC. *)
EXTENDS Devices

CONSTANTS d1, d2

Start(a, b) == [n \in Nodes |-> IF n = d1 THEN a ELSE b]
Case(s, c, u, m, f, may) ==
    [start |-> s, creates |-> c, unplugs |-> u, migrations |-> m, failures |-> f, may |-> may]

MCCases == {Case(Start("new", "none"), 1, 1, 0, 1, {"sudden"}),
            Case(Start("new", "connected"), 0, 1, 1, 1, {}),
            Case(Start("new", "closed"), 1, 1, 1, 0, {}),
            Case(Start("new", "new"), 0, 0, 2, 1, {}),
            Case(Start("new", "none"), 1, 1, 1, 0, {"sudden", "gone"})}

(* One departure each from what the tools of a host do in good order. *)
Replug == {Case(Start("new", "none"), 1, 1, 0, 0, {"replug"})}
Late == {Case(Start("new", "none"), 0, 0, 0, 0, {"sudden", "late"})}
Unseen == {Case(Start("none", "none"), 1, 0, 0, 0, {"boot"})}
Slow == {Case(Start("connected", "none"), 0, 0, 0, 0, {"slow"})}
Absent == {Case(Start("new", "new"), 0, 0, 1, 0, {"absent"})}
Anytime == {Case(Start("new", "none"), 0, 0, 1, 0, {"anytime"})}
SamePath == {Case(Start("new", "none"), 0, 0, 1, 0, {"same"})}
================================================================================
