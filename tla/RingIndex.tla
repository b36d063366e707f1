------------------------------- MODULE RingIndex -------------------------------
(***************************************************************************)
(* The arithmetic of a shared ring's indices (RING_IDX of                  *)
(* include/xen/interface/io/ring.h): unsigned, wrapping at Wrap, and the   *)
(* test by which the one who has put entries on a ring decides whether the *)
(* other end has to be notified.                                           *)
(***************************************************************************)
EXTENDS Integers

CONSTANTS Wrap,       \* RING_IDX wraps here (2^32)
          RingSize,   \* entries of a ring
            First       \* index a ring begins at: 0 in the code, any other
                        \* stands for a ring that has carried so many entries

ASSUME RingAssumption ==
    /\ Wrap \in Nat /\ RingSize \in Nat \ {0} /\ Wrap > 2 * RingSize + 2
    /\ First \in 0..Wrap - 1

Index == 0..Wrap - 1

Plus(a, n)  == IF a + n < Wrap THEN a + n ELSE a + n - Wrap
Minus(a, b) == IF a >= b THEN a - b ELSE a - b + Wrap

(* RING_PUSH_..._AND_CHECK_NOTIFY: was the event index passed just now?    *)
CheckNotify(new, event, old) == Minus(new, event) < Minus(new, old)
================================================================================
