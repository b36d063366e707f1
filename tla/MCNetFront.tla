------------------------------ MODULE MCNetFront -------------------------------
(* Instances of NetFront for TLC. *)
EXTENDS NetFront

Load(s, a, m, f, c) == [sends |-> s, arrivals |-> a, migrations |-> m, shortages |-> f, closes |-> c]

(* Traffic in one direction at a time, and a little of both. *)
MCLoads == {Load(4, 0, 0, 0, 0), Load(3, 0, 1, 0, 0), Load(1, 1, 0, 0, 0),
            Load(0, 3, 0, 0, 0), Load(0, 2, 1, 0, 0), Load(0, 2, 0, 1, 1)}
(* The device is closed and opened again with requests unanswered. *)
ReopenLoads == {Load(3, 0, 0, 0, 1)}
MCMessages == {[data |-> 1, extra |-> 0, bad |-> 0], [data |-> 1, extra |-> 1, bad |-> 0],
               [data |-> 1, extra |-> 0, bad |-> 1]}
================================================================================
