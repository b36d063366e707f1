---------------------------------- MODULE Ring ---------------------------------
(***************************************************************************)
(* What one direction of a shared ring promises.  A producer publishes     *)
(* entries and then looks at the event index to see whether the consumer   *)
(* wants to be notified; a consumer that finds nothing left sets the event *)
(* index, looks once more, and sleeps until it is notified or comes back   *)
(* of its own accord.  The two run side by side with nothing but the three *)
(* shared indices and the notification between them, so each access to a   *)
(* shared index is a step of its own.                                      *)
(***************************************************************************)
EXTENDS RingIndex

VARIABLES prod,     \* req_prod or rsp_prod
          old,      \* the producer's __old, until it has looked at event
          event,    \* req_event or rsp_event
          cons,     \* the consumer's private index
          push,     \* the producer is between the two accesses
          poll,     \* "awake", "recheck", "asleep", "down": ring not served
          bell      \* a notification is under way

ringVars == <<prod, old, event, cons, push, poll, bell>>

RingInit ==
    /\ prod = First /\ old = First /\ event = Plus(First, 1) /\ cons = First
    /\ push = FALSE /\ poll \in {"awake", "asleep", "down"} /\ bell = FALSE

(* May the consumer sleep on the event it has set?                         *)
MaySleep(p, e, c) == Minus(p, c) < Minus(e, c) /\ Minus(e, c) <= RingSize + 1

(* The producer publishes up to k entries it has written. *)
Push(k) ==
    /\ ~push /\ Minus(prod, cons) + k <= RingSize
    /\ old' = prod /\ prod' = Plus(prod, k) /\ push' = TRUE
    /\ UNCHANGED <<event, cons, poll, bell>>

Notify ==
    /\ push
    /\ bell' \in {bell, TRUE}
    /\ CheckNotify(prod, event, old) /\ poll # "down" => bell'
    /\ push' = FALSE /\ old' = prod
    /\ UNCHANGED <<prod, event, cons, poll>>

Consume(k) ==
    /\ poll \in {"awake", "down"} /\ k <= Minus(prod, cons)
    /\ cons' = Plus(cons, k)
    /\ UNCHANGED <<prod, old, event, push, poll, bell>>

(* RING_FINAL_CHECK_FOR_..., and the drivers' own versions of it: the event *)
(* is up to a ring's length ahead.                                         *)
SetEvent(k) ==
    /\ poll \in {"awake", "down"}
    /\ event' = Plus(cons, k)
    /\ poll' = IF poll = "down" THEN poll ELSE "recheck"
    /\ UNCHANGED <<prod, old, cons, push, bell>>

(* The last look: what is there may wait only if it does not reach the     *)
(* event. *)
Recheck ==
    /\ poll = "recheck"
    /\ poll' \in {"awake"} \cup
                 (IF MaySleep(prod, event, cons) THEN {"asleep"} ELSE {})
    /\ UNCHANGED <<prod, old, event, cons, push, bell>>

(* Woken by a notification, or for a reason of its own. *)
Wake ==
    /\ poll = "asleep"
    /\ poll' = "awake" /\ bell' \in {bell, FALSE}
    /\ UNCHANGED <<prod, old, event, cons, push>>

(* The ring is no longer served, a notification under way is lost, and the *)
(* producer may be gone; the ring is served again; or a new ring takes its *)
(* place, with entries on it or not.                                       *)
Down ==
    /\ poll' = "down" /\ bell' \in BOOLEAN
    /\ push' \in {push, FALSE} /\ old' = IF push' THEN old ELSE prod
    /\ UNCHANGED <<prod, event, cons>>

Up ==
    /\ poll = "down" /\ bell' \in BOOLEAN
    /\ poll' \in {"awake"} \cup (IF MaySleep(prod, event, cons) THEN {"asleep"} ELSE {})
    /\ UNCHANGED <<prod, old, event, cons, push>>

Reset ==
    /\ poll = "down" /\ push' = FALSE /\ bell' \in BOOLEAN
    /\ cons' = First /\ (\E k \in 0..RingSize : prod' = Plus(First, k)) /\ old' = prod' /\ event' \in Index
    /\ poll' \in {"awake", "down"} \cup (IF MaySleep(prod', event', First) THEN {"asleep"} ELSE {})

(* The notification is shared with another ring, for which it may be       *)
(* raised; a sleeper that looks and finds nothing may clear it.            *)
Bell ==
    /\ bell' \in IF poll = "asleep" /\ ~MaySleep(prod, event, cons) THEN {bell, TRUE} ELSE BOOLEAN
    /\ UNCHANGED <<prod, old, event, cons, push, poll>>

RingNext ==
    \/ \E k \in 0..RingSize : Push(k) \/ Consume(k)
    \/ \E k \in 1..RingSize + 1 : SetEvent(k)
    \/ Notify \/ Recheck \/ Wake \/ Bell \/ Down \/ Up \/ Reset

RingSpec == RingInit /\ [][RingNext]_ringVars

--------------------------------------------------------------------------------
RingTypeOK ==
    /\ prod \in Index /\ old \in Index /\ event \in Index /\ cons \in Index
    /\ push \in BOOLEAN /\ bell \in BOOLEAN
    /\ poll \in {"awake", "recheck", "asleep", "down"}

(* A consumer sleeps only while the entries it has not seen do not reach   *)
(* the event it has set, unless a notification is under way or the         *)
(* producer is still to look at the event: no wake-up is lost              *)
(* (RING_PUSH_..._AND_CHECK_NOTIFY against RING_FINAL_CHECK_FOR_...).      *)
NoLostNotify ==
    poll = "asleep" /\ ~bell /\ ~push => Minus(prod, cons) < Minus(event, cons)

================================================================================
