------------------------------- MODULE RingProofs ------------------------------
(***************************************************************************)
(* For every ring size and every width of the indices: the order in which  *)
(* ring.h has the two ends touch the shared indices loses no wake-up.      *)
(***************************************************************************)
EXTENDS Ring, TLAPS

(* The entries published fit on the ring, and so does what is being        *)
(* published. *)
Fits ==
    /\ Minus(prod, cons) <= RingSize
    /\ Minus(prod, old) <= RingSize
    /\ ~push => old = prod

(* The event a sleeper has set is ahead, by no more than a ring's length:  *)
(* without it a wrapped index would look like one that is past.            *)
EventAhead ==
    poll = "asleep" => Minus(event, cons) >= 1 /\ Minus(event, cons) <= RingSize + 1

(* A producer that reached the event and has not looked at it yet will     *)
(* find that it did.                                                       *)
WillNotify ==
    poll = "asleep" /\ ~bell =>
        Minus(prod, cons) < Minus(event, cons) \/ (push /\ CheckNotify(prod, event, old))

RingInv == RingTypeOK /\ Fits /\ EventAhead /\ WillNotify

(* Moving an index on by a ring's length at most, and measuring how far    *)
(* it is from another.                                                     *)
LEMMA PlusType == ASSUME NEW a \in Index, NEW k \in 0..RingSize + 1
                  PROVE  /\ Plus(a, k) \in Index
                         /\ Minus(Plus(a, k), a) = k
  BY RingAssumption, SMT DEF Index, Plus, Minus

LEMMA MinusType == ASSUME NEW a \in Index, NEW b \in Index
                   PROVE  Minus(a, b) \in 0..Wrap - 1 /\ (Minus(a, b) = 0 <=> a = b)
  BY RingAssumption, SMT DEF Index, Minus

LEMMA PlusAhead == ASSUME NEW a \in Index, NEW c \in Index, NEW k \in 0..RingSize,
                          Minus(a, c) + k <= RingSize
                   PROVE  Minus(Plus(a, k), c) = Minus(a, c) + k
  BY RingAssumption, SMT DEF Index, Plus, Minus

LEMMA PlusBehind == ASSUME NEW a \in Index, NEW c \in Index, NEW k \in 0..RingSize,
                           k <= Minus(a, c)
                    PROVE  Minus(a, Plus(c, k)) = Minus(a, c) - k
  BY RingAssumption, SMT DEF Index, Plus, Minus

(* A push that carries the index from short of the event to it or beyond   *)
(* passes the test of RING_PUSH_..._AND_CHECK_NOTIFY.                      *)
LEMMA PushReaches ==
    ASSUME NEW p \in Index, NEW e \in Index, NEW c \in Index, NEW k \in 0..RingSize,
           Minus(p, c) + k <= RingSize, Minus(e, c) <= RingSize + 1,
           Minus(p, c) < Minus(e, c), ~(Minus(p, c) + k < Minus(e, c))
    PROVE  CheckNotify(Plus(p, k), e, p)
  BY RingAssumption, SMT DEF Index, Plus, Minus, CheckNotify

LEMMA RingInit_Inv == RingInit => RingInv
  <1>1. First \in Index /\ Plus(First, 1) \in Index
        /\ Minus(First, First) = 0 /\ Minus(Plus(First, 1), First) = 1
    BY RingAssumption, SMT DEF Index, Plus, Minus
  <1> QED
    <2> SUFFICES ASSUME RingInit PROVE RingInv
      OBVIOUS
    <2>1. /\ prod = First /\ old = First /\ cons = First /\ event = Plus(First, 1)
          /\ push = FALSE /\ bell = FALSE /\ poll \in {"awake", "asleep", "down"}
      BY DEF RingInit
    <2>2. Fits /\ EventAhead /\ WillNotify
      BY <1>1, <2>1, RingAssumption, SMT DEF Fits, EventAhead, WillNotify
    <2>3. push \in BOOLEAN /\ bell \in BOOLEAN
      BY <2>1
    <2> QED
      BY <1>1, <2>1, <2>2, <2>3 DEF RingInv, RingTypeOK

LEMMA Push_Inv == ASSUME RingInv, NEW k \in 0..RingSize, Push(k)  PROVE RingInv'
  <1>1. prod \in Index /\ cons \in Index /\ event \in Index /\ Minus(prod, cons) + k <= RingSize
    BY DEF RingInv, RingTypeOK, Push
  <1>2. prod' = Plus(prod, k) /\ old' = prod /\ push'
        /\ UNCHANGED <<event, cons, poll, bell>> /\ ~push
    BY DEF Push
  <1>3. prod' \in Index /\ Minus(prod', old') = k
    <2>1. k \in 0..RingSize + 1
      BY RingAssumption, SMT
    <2> QED
      BY <2>1, <1>1, <1>2, PlusType
  <1>4. Minus(prod', cons) = Minus(prod, cons) + k
    BY <1>1, <1>2, PlusAhead
  <1>5. RingTypeOK'
    BY <1>1, <1>2, <1>3 DEF RingInv, RingTypeOK
  <1>6. Fits'
    BY <1>1, <1>2, <1>3, <1>4, RingAssumption, SMT DEF Fits
  <1>7. EventAhead'
    BY <1>2 DEF RingInv, EventAhead
  <1>8. WillNotify'
    <2>1. SUFFICES ASSUME poll = "asleep", ~bell, ~(Minus(prod', cons) < Minus(event, cons))
                   PROVE  CheckNotify(prod', event, old')
      BY <1>2 DEF WillNotify
    <2>2. Minus(prod, cons) < Minus(event, cons) /\ Minus(event, cons) <= RingSize + 1
      BY <2>1, <1>2 DEF RingInv, WillNotify, EventAhead
    <2> QED
      BY <2>1, <2>2, <1>1, <1>2, <1>4, PushReaches
  <1> QED
    BY <1>5, <1>6, <1>7, <1>8 DEF RingInv

LEMMA Consume_Inv == ASSUME RingInv, NEW k \in 0..RingSize, Consume(k)  PROVE RingInv'
  <1>1. prod \in Index /\ cons \in Index /\ k <= Minus(prod, cons) /\ poll # "asleep"
    BY DEF RingInv, RingTypeOK, Consume
  <1>2. cons' = Plus(cons, k) /\ UNCHANGED <<prod, old, event, push, poll, bell>>
    BY DEF Consume
  <1>3. cons' \in Index /\ Minus(prod, cons') = Minus(prod, cons) - k
    BY <1>1, <1>2, PlusType, PlusBehind, RingAssumption
  <1>4. RingTypeOK'
    BY <1>2, <1>3 DEF RingInv, RingTypeOK
  <1>5. Fits'
    BY <1>1, <1>2, <1>3, MinusType, RingAssumption, SMT DEF RingInv, Fits
  <1> QED
    BY <1>1, <1>2, <1>4, <1>5 DEF RingInv, EventAhead, WillNotify

LEMMA SetEvent_Inv == ASSUME RingInv, NEW k \in 1..RingSize + 1, SetEvent(k)  PROVE RingInv'
  <1>1. cons \in Index /\ poll' # "asleep" /\ UNCHANGED <<prod, old, cons, push, bell>>
        /\ poll' \in {"recheck", "down"}
    BY DEF RingInv, RingTypeOK, SetEvent
  <1>2. event' \in Index
    BY <1>1, PlusType, RingAssumption DEF SetEvent
  <1> QED
    BY <1>1, <1>2 DEF RingInv, RingTypeOK, Fits, EventAhead, WillNotify

(* The four actions that leave the indices alone. *)
LEMMA Quiet_Inv ==
    ASSUME RingInv, Notify \/ Recheck \/ Wake \/ Bell
    PROVE  RingInv'
  <1>1. prod \in Index /\ Minus(prod, prod) <= RingSize
    <2>1. prod \in Index
      BY DEF RingInv, RingTypeOK
    <2> QED
      BY <2>1, RingAssumption, SMT DEF Minus, Index
  <1>2. CASE Notify
    <2>1. UNCHANGED <<prod, event, cons, poll>> /\ ~push' /\ old' = prod
          /\ push' \in BOOLEAN /\ bell' \in {bell, TRUE}
          /\ (CheckNotify(prod, event, old) /\ poll # "down" => bell')
      BY <1>2 DEF Notify
    <2>4. bell' \in BOOLEAN /\ (bell => bell')
      <3>1. CASE bell' = bell
        BY <3>1 DEF RingInv, RingTypeOK
      <3>2. CASE bell' = TRUE
        BY <3>2
      <3> QED
        BY <2>1, <3>1, <3>2
    <2>2. Fits'
      BY <1>1, <2>1 DEF RingInv, Fits
    <2>3. WillNotify'
      BY <2>1, <2>4 DEF RingInv, WillNotify
    <2>5. RingTypeOK'
      BY <1>1, <2>1, <2>4 DEF RingInv, RingTypeOK
    <2> QED
      BY <2>1, <2>2, <2>3, <2>5 DEF RingInv, EventAhead
  <1>3. CASE Recheck
    <2>1. UNCHANGED <<prod, old, event, cons, push, bell>> /\ poll' \in {"awake", "asleep"}
          /\ (poll' = "asleep" => MaySleep(prod, event, cons))
      BY <1>3 DEF Recheck
    <2> QED
      <3>1. poll' = "asleep" => Minus(event, cons) >= 1
        BY <2>1, MinusType, RingAssumption, SMT DEF MaySleep, RingInv, RingTypeOK
      <3> QED
        BY <2>1, <3>1 DEF RingInv, RingTypeOK, Fits, EventAhead, WillNotify, MaySleep
  <1>4. CASE Wake
    BY <1>4 DEF Wake, RingInv, RingTypeOK, Fits, EventAhead, WillNotify
  <1>5. CASE Bell
    BY <1>5 DEF Bell, MaySleep, RingInv, RingTypeOK, Fits, EventAhead, WillNotify
  <1> QED
    BY <1>2, <1>3, <1>4, <1>5

(* Taking a ring out of service, putting it back, replacing it. *)
LEMMA Service_Inv ==
    ASSUME RingInv, Down \/ Up \/ Reset
    PROVE  RingInv'
  <1>1. prod \in Index /\ Minus(prod, prod) <= RingSize
    <2>1. prod \in Index
      BY DEF RingInv, RingTypeOK
    <2> QED
      BY <2>1, RingAssumption, SMT DEF Minus, Index
  <1>2. CASE Down
    <2>1. UNCHANGED <<prod, event, cons>> /\ poll' = "down" /\ bell' \in BOOLEAN
          /\ push' \in {push, FALSE} /\ old' = IF push' THEN old ELSE prod
      BY <1>2 DEF Down
    <2>3. push' \in BOOLEAN
      <3>1. CASE push' = push
        BY <3>1 DEF RingInv, RingTypeOK
      <3>2. CASE push' = FALSE
        BY <3>2
      <3> QED
        BY <2>1, <3>1, <3>2
    <2>2. old' \in Index /\ Fits'
      BY <1>1, <2>1 DEF RingInv, Fits, RingTypeOK
    <2> QED
      BY <2>1, <2>2, <2>3 DEF RingInv, RingTypeOK, EventAhead, WillNotify
  <1>3. CASE Up
    <2>1. UNCHANGED <<prod, old, event, cons, push>> /\ poll' \in {"awake", "asleep"}
          /\ bell' \in BOOLEAN /\ (poll' = "asleep" => MaySleep(prod, event, cons))
      BY <1>3 DEF Up
    <2>2. poll' = "asleep" => Minus(event, cons) >= 1
      BY <2>1, MinusType, RingAssumption, SMT DEF MaySleep, RingInv, RingTypeOK
    <2> QED
      BY <2>1, <2>2 DEF RingInv, RingTypeOK, Fits, EventAhead, WillNotify, MaySleep
  <1>4. CASE Reset
    <2>1. /\ cons' = First /\ (\E k \in 0..RingSize : prod' = Plus(First, k))
          /\ old' = prod' /\ event' \in Index
          /\ push' = FALSE /\ bell' \in BOOLEAN /\ poll' \in {"awake", "down", "asleep"}
          /\ (poll' = "asleep" => MaySleep(prod', event', First))
      BY <1>4 DEF Reset
    <2>2. cons' \in Index /\ prod' \in Index /\ Minus(prod', cons') <= RingSize
          /\ Minus(prod', old') <= RingSize
      <3>1. /\ First \in Index
            /\ \A k \in 0..RingSize : /\ Plus(First, k) \in Index /\ Minus(Plus(First, k), First) <= RingSize
                                      /\ Minus(Plus(First, k), Plus(First, k)) <= RingSize
        BY RingAssumption, SMT DEF Index, Plus, Minus
      <3> QED
        BY <2>1, <3>1
    <2>3. poll' = "asleep" => Minus(event', cons') >= 1
      BY <2>1, <2>2, MinusType, RingAssumption, SMT DEF MaySleep
    <2>4. Fits'
      BY <2>1, <2>2 DEF Fits
    <2> QED
      BY <2>1, <2>2, <2>3, <2>4 DEF RingInv, RingTypeOK, EventAhead, WillNotify, MaySleep
  <1> QED
    BY <1>2, <1>3, <1>4

(* RingInv holds in every state of a ring. *)
THEOREM RingInvariant == RingSpec => []RingInv
<1>1. RingInv /\ [RingNext]_ringVars => RingInv'
  <2>1. SUFFICES ASSUME RingInv, [RingNext]_ringVars PROVE RingInv'
    OBVIOUS
  <2>2. CASE UNCHANGED ringVars
    BY <2>1, <2>2 DEF ringVars, RingInv, RingTypeOK, Fits, EventAhead, WillNotify
  <2>3. CASE \E k \in 0..RingSize : Push(k) \/ Consume(k)
    BY <2>1, <2>3, Push_Inv, Consume_Inv
  <2>4. CASE \E k \in 1..RingSize + 1 : SetEvent(k)
    BY <2>1, <2>4, SetEvent_Inv
  <2>5. CASE Notify \/ Recheck \/ Wake \/ Bell
    BY <2>1, <2>5, Quiet_Inv
  <2>6. CASE Down \/ Up \/ Reset
    BY <2>1, <2>6, Service_Inv
  <2> QED
    BY <2>1, <2>2, <2>3, <2>4, <2>5, <2>6 DEF RingNext
<1> QED
  BY <1>1, RingInit_Inv, PTL DEF RingSpec

(* A consumer of a ring sleeps only while the entries it has not seen do   *)
(* not reach the event it has set, unless a notification is under way or   *)
(* the producer has yet to look at the event, whatever the size of the     *)
(* ring and wherever the indices wrap.                                     *)
THEOREM RingLosesNoNotification == RingSpec => []NoLostNotify
  <1>1. RingInv => NoLostNotify
    BY DEF RingInv, WillNotify, NoLostNotify
  <1> QED
    BY <1>1, RingInvariant, PTL

(* A producer never has more entries on the ring than it has slots.        *)
THEOREM RingNeverOverruns == RingSpec => [](RingTypeOK /\ Minus(prod, cons) <= RingSize)
  <1>1. RingInv => RingTypeOK /\ Minus(prod, cons) <= RingSize
    BY DEF RingInv, Fits
  <1> QED
    BY <1>1, RingInvariant, PTL
================================================================================
