----------------------------- MODULE NetFrontProofs ----------------------------
(***************************************************************************)
(* For every ring size, every mix of packets and any number of migrations: *)
(* the network front end reaches no BUG_ON, loses no transmit id, grant or *)
(* receive buffer, and never waits for a back end that waits for it.       *)
(* The hypotheses are those of the run: a close finds no request unanswered*)
(* (QuietClose), and for the receive ring interrupts and polls on one CPU  *)
(* (OneCpu), room for the largest packet in what a poll leaves on the ring *)
(* (RoomForOne), and indices that have not wrapped (NotWrapped).           *)
(*                                                                         *)
(* The parts of Inv say what the driver's own data are, whoever holds its  *)
(* locks; that no notification is lost on the way is not repeated here but *)
(* taken from Ring, whose four instances every step is shown to follow.    *)
(***************************************************************************)
EXTENDS NetFront, SequenceTheorems, FiniteSetTheorems, TLAPS

(* A close finds no request unanswered: there are none in the load, or no  *)
(* closes.  Otherwise the queue is started on a ring that may be full.     *)
QuietClose == \A l \in Loads : l.closes = 0 \/ l.sends = 0

Entry == [id : Ids, slots : 1..2]
TxRings == [pvt : Index, cons : Index, req_prod : Index, req_event : Index,
            rsp_prod : Index, rsp_event : Index, free : Seq(Ids), grefs : Nat,
            reqs : Seq(Entry), taken : SUBSET Entry, rsps : Seq(Ids)]
RxRings == [pvt : Index, cons : Index, req_prod : Index, req_event : Index,
            rsp_prod : Index, rsp_event : Index, skbs : SUBSET (0..RingSize - 1),
            grefs : Nat, batch : Nat, target : MinTarget..MaxTarget, rsps : Seq(Messages)]
Senders == [at : {"free", "push", "notify", "gc", "event", "recheck"},
            by : {"none", "xmit", "irq"}, old : Index, seen : Index]
Receivers == [at : {"free", "push", "notify", "final", "event", "check", "complete"},
              by : {"none", "poll", "full", "open"}, old : Index, seen : Index]
Backs == [up : BOOLEAN, tx : {"awake", "recheck", "asleep"}, tx_cons : Index, tx_old : 0..Wrap,
          rx : {"awake", "recheck", "asleep"}, rx_cons : Index, rx_old : 0..Wrap]
Lefts == [sends : Nat, arrivals : Nat, migrations : Nat, shortages : Nat, closes : Nat]

(* The slots the first k requests take, and those of a set of requests.    *)
Weigh(s, k) == k + Cardinality({i \in 1..k : s[i].slots = 2})
WeighSet(S) == Cardinality(S) + Cardinality({e \in S : e.slots = 2})
ReqIds(s) == {s[i].id : i \in 1..Len(s)}
TakenIds(S) == {e.id : e \in S}

(* Ids of the transmit ring: each is in one place, once.                   *)
Owned(free, reqs, taken, rsps) == ToSet(free) \cup ReqIds(reqs) \cup TakenIds(taken) \cup ToSet(rsps)
Accounted(free, reqs, taken, rsps) ==
    /\ Owned(free, reqs, taken, rsps) = Ids
    /\ Len(free) + Len(reqs) + Cardinality(taken) + Len(rsps) = RingSize
IdsOk(t) == Accounted(t.free, t.reqs, t.taken, t.rsps) /\ t.grefs = Len(t.free)

(* Its indices: what is between them is what the entries take. c is the    *)
(* consumer index of the back end. *)
IndexOk(t, c) ==
    /\ Len(t.rsps) <= Minus(t.rsp_prod, t.cons)
    /\ Minus(c, t.cons) = Minus(t.rsp_prod, t.cons) + WeighSet(t.taken)
    /\ \E k \in 0..Len(t.reqs) : Minus(t.req_prod, t.cons) = Minus(c, t.cons) + Weigh(t.reqs, k)
    /\ Outstanding(t) = Minus(c, t.cons) + Weigh(t.reqs, Len(t.reqs))
    /\ Outstanding(t) <= RingSize

TxOk(t, c) == t \in TxRings /\ c \in Index /\ IdsOk(t) /\ IndexOk(t, c)

(* The packets of a sequence take n slots: ends[i] after the first i. *)
Ends(s, ends) ==
    ends[0] = 0 /\ \A i \in 1..Len(s) : ends[i] = ends[i - 1] + Slots(s[i])
Stacked(s, n) == \E ends \in [0..Len(s) -> Nat] : Ends(s, ends) /\ ends[Len(s)] = n

(* The receive ring: buffers in the slots in use, one after the other.     *)
BuffersOk(r) ==
    /\ r.skbs = RxSlots(r.cons, Outstanding(r))
    /\ r.grefs + Outstanding(r) = RingSize
    /\ r.batch + Outstanding(r) <= RingSize
OrderOk(r) ==
    /\ Minus(r.rsp_prod, r.cons) <= Minus(r.req_prod, r.cons)
    /\ Minus(r.req_prod, r.cons) <= Outstanding(r)
    /\ Stacked(r.rsps, Minus(r.rsp_prod, r.cons))
RxOk(r) == r \in RxRings /\ BuffersOk(r) /\ OrderOk(r)

StackOk ==
    /\ napi \in {"off", "idle", "sched"} /\ rtnl \in {"free", "open", "close"}
    /\ disabling \in BOOLEAN /\ timer \in BOOLEAN /\ running \in BOOLEAN /\ stopped \in BOOLEAN
    /\ (disabling <=> rtnl = "close")
    /\ rtnl = "close" => ~running
    /\ rtnl = "open" => running
    /\ running => napi # "off"

SendOk ==
    /\ send \in Senders
    /\ send.at = "free" <=> send = Free
    /\ send.at # "free" => carrier /\ send.by # "none"
    /\ send.by = "irq" => send.at \in {"gc", "event", "recheck"}
    /\ send.at # "push" => tx.req_prod = tx.pvt
    /\ send.at \in {"event", "recheck"} => send.seen = tx.cons
    /\ send.at # "event" => /\ 1 <= Minus(tx.rsp_event, tx.cons)
                            /\ Minus(tx.rsp_event, tx.cons) <= Outstanding(tx) \div 2 + 1

QueueOk ==
    /\ ~stopped /\ send.by # "xmit" => SlotAvailable(tx)
    /\ running /\ stopped /\ rtnl = "free" /\ send = Free => ~SlotAvailable(tx)
    /\ left \in Lefts
    /\ left.closes = 0 \/ (left.sends = 0 /\ Outstanding(tx) = 0)
    /\ ~running \/ rtnl = "open" => Outstanding(tx) = 0

RecvOk ==
    /\ recv \in Receivers
    /\ recv.at = "free" <=> recv = Free
    /\ recv.at # "free" => carrier /\ recv.by # "none"
    /\ recv.at \in {"event", "complete"} => recv.by = "poll"
    /\ recv.at = "check" => recv.by \in {"poll", "open"}
    /\ recv.by \in {"poll", "full"} => napi = "sched"
    /\ recv.by = "open" => rtnl = "open"
    /\ recv.at = "check" => rx.rsp_event = Plus(rx.cons, 1)
    /\ carrier /\ running /\ recv.by # "open" /\ (napi = "idle" \/ recv.at = "complete")
         => rx.rsp_event = Plus(rx.cons, 1)

BackOk ==
    /\ back \in Backs /\ carrier \in BOOLEAN /\ irq \in BOOLEAN /\ bell \in BOOLEAN
    /\ link \in {"connected", "lost", "resumed", "ready", "attach"}
    /\ back.up <=> link = "connected"
    /\ carrier <=> link \in {"connected", "lost", "attach"}
    /\ link = "attach" => back = NoBack
    /\ ~back.up => back.tx_old = NoPush /\ back.rx_old = NoPush
    /\ back.rx_cons = rx.rsp_prod
    /\ back.up /\ back.tx # "awake" => tx.req_event = Plus(back.tx_cons, 1)
    /\ back.up /\ back.rx # "awake" => rx.req_event = Plus(back.rx_cons, MaxSlots)

Inv ==
    /\ TxOk(tx, back.tx_cons) /\ RxOk(rx) /\ bug = FALSE
    /\ StackOk /\ SendOk /\ QueueOk /\ RecvOk /\ BackOk

(* On one CPU. *)
Alone == send.by = "irq" /\ recv.by = "poll" => recv.at \in {"push", "notify", "final"}
Enough(r) == MinTarget <= Outstanding(r) \/ MinTarget - MinTarget \div 2 + 1 <= Outstanding(r)
Stocked == 
    carrier /\ running => \/ timer \/ Enough(rx)
                          \/ napi = "sched" /\ recv.by \notin {"poll", "full"}
Posted == recv.at # "push" => rx.req_prod = rx.pvt
--------------------------------------------------------------------------------
(* Induction over numbers without an operator for a parameter, and what    *)
(* follows for a recursive function and for a sum.                         *)

(* A set of naturals has a least element: as k grows, 0..k does.           *)
LEMMA LeastElement ==
  ASSUME NEW T, T \subseteq Nat, T # {}
  PROVE  \E x \in T : \A y \in T : x <= y
<1>. DEFINE R == StrictSubsetOrdering(Nat)
            S == FiniteSubsetsOf(Nat)
            U == {0..k : k \in T}
<1>1. IsWellFoundedOn(R, S)
  BY FS_StrictSubsetOrderingWellFounded
<1>2. U \subseteq S /\ U # {}
  <2>1. \A k \in T : IsFiniteSet(0..k) /\ 0..k \in SUBSET Nat
    BY FS_Interval
  <2>. QED  BY <2>1 DEF FiniteSubsetsOf
<1>3. \E u \in U : \A v \in U : ~ (<<v, u>> \in R)
  <2>. HIDE DEF R, S, U
  <2>. QED  BY <1>1, <1>2, WFMin
<1>4. PICK x \in T : \A y \in T : ~ (<<0..y, 0..x>> \in R)
  BY <1>3
<1>5. ASSUME NEW y \in T, y < x PROVE FALSE
  <2>1. 0..y \subseteq 0..x /\ x \in 0..x /\ x \notin 0..y
    BY <1>5
  <2>2. 0..y \in SUBSET Nat /\ 0..x \in SUBSET Nat /\ 0..y # 0..x
    BY <2>1
  <2>3. <<0..y, 0..x>> \in R
    BY <2>1, <2>2 DEF StrictSubsetOrdering
  <2>. QED  BY <2>3, <1>4
<1>. QED  BY <1>5

(* Induction up to m, on the set of numbers it has been shown for.         *)
LEMMA UpTo ==
  ASSUME NEW m \in Nat, NEW T, 0 \in T, \A n \in 1..m : n - 1 \in T => n \in T
  PROVE  \A n \in 0..m : n \in T
<1>. DEFINE Rest == (0..m) \ T
<1>1. SUFFICES ASSUME Rest # {} PROVE FALSE
  OBVIOUS
<1>2. Rest \subseteq Nat
  OBVIOUS
<1>3. \E x \in Rest : \A y \in Rest : x <= y
  <2>. HIDE DEF Rest
  <2>. QED  BY <1>1, <1>2, LeastElement
<1>4. PICK x \in Rest : \A y \in Rest : x <= y
  BY <1>3
<1>5. x \in 1..m /\ x - 1 \in 0..m /\ ~(x <= x - 1)
  OBVIOUS
<1>6. x - 1 \in T
  BY <1>4, <1>5
<1>. QED  BY <1>5, <1>6

(* A function may be defined by what it is at 0 and its step F.            *)
Recursion(g, m, e, F) == g[0] = e /\ \A i \in 1..m : g[i] = F[<<g[i - 1], i>>]

(* Such a function exists, whatever the step is.                           *)
LEMMA RecursionWorks ==
  ASSUME NEW m \in Nat, NEW S, NEW e \in S, NEW F \in [S \X (1..m) -> S]
  PROVE  \E g \in [0..m -> S] : Recursion(g, m, e, F)
<1>. DEFINE Rec(n, g) == Recursion(g, n, e, F)
            T == {n \in 0..m : \E g \in [0..n -> S] : Rec(n, g)}
<1>1. 0 \in T
  <2>. DEFINE h == [i \in 0..0 |-> e]
  <2>1. h \in [0..0 -> S] /\ h[0] = e
    OBVIOUS
  <2>2. 1..0 = {} /\ 0 \in 0..m
    OBVIOUS
  <2>. HIDE DEF h
  <2>. QED  BY <2>1, <2>2 DEF Recursion
<1>2. ASSUME NEW n \in 1..m, n - 1 \in T PROVE n \in T
  <2>1. PICK g \in [0..(n - 1) -> S] : Rec(n - 1, g)
    BY <1>2
  <2>. DEFINE h == [i \in 0..n |-> IF i = n THEN F[<<g[n - 1], n>>] ELSE g[i]]
  <2>2. n - 1 \in 0..(n - 1) /\ \A i \in 0..n : i # n => i \in 0..(n - 1)
    OBVIOUS
  <2>3. h \in [0..n -> S]
    BY <2>1, <2>2
  <2>4. \A i \in 0..(n - 1) : h[i] = g[i]
    OBVIOUS
  <2>5. h[n] = F[<<g[n - 1], n>>]
    OBVIOUS
  <2>6. h[0] = e
    BY <2>1, <2>4 DEF Recursion
  <2>7. ASSUME NEW i \in 1..n PROVE h[i] = F[<<h[i - 1], i>>]
    <3>. HIDE DEF h
    <3>1. h[i - 1] = g[i - 1]
      BY <2>4
    <3>2. CASE i = n
      BY <2>5, <3>1, <3>2
    <3>3. CASE i # n
      <4>1. i \in 1..(n - 1) /\ i \in 0..(n - 1)
        BY <3>3
      <4>. QED BY <2>1, <2>4, <3>1, <4>1 DEF Recursion
    <3>. QED  BY <3>2, <3>3
  <2>. HIDE DEF h
  <2>8. Rec(n, h)
    BY <2>6, <2>7 DEF Recursion
  <2>. QED  BY <2>3, <2>8
<1>. HIDE DEF T
<1>3. m \in 0..m /\ \A n \in 0..m : n \in T
  BY <1>1, <1>2, UpTo
<1>. QED  BY <1>3 DEF T

--------------------------------------------------------------------------------
(* A loop of m steps, each from what is allowed after i - 1 steps to what  *)
(* is allowed after i.                                                     *)
Runs(g, m, e, N, I) ==
    /\ g[0] = e /\ \A i \in 1..m : g[i] = N[<<g[i - 1], i>>]
    /\ \A i \in 0..m : g[i] \in I[i]

(* A loop with an invariant has a run in which it holds throughout.        *)
LEMMA LoopRuns ==
  ASSUME NEW m \in Nat, NEW S, NEW e, NEW N, NEW I \in [0..m -> SUBSET S],
         e \in I[0], \A i \in 1..m : \A x \in I[i - 1] : N[<<x, i>>] \in I[i]
  PROVE  \E g \in [0..m -> S] : Runs(g, m, e, N, I)
<1>. DEFINE F == [p \in S \X (1..m) |-> IF N[p] \in S THEN N[p] ELSE p[1]]
<1>1. F \in [S \X (1..m) -> S]
  OBVIOUS
<1>2. 0 \in 0..m /\ e \in S
  OBVIOUS
<1>3. \E g \in [0..m -> S] : Recursion(g, m, e, F)
  <2>. HIDE DEF F
  <2>. QED  BY <1>1, <1>2, RecursionWorks
<1>. PICK g \in [0..m -> S] : Recursion(g, m, e, F)
  BY <1>3
<1>4. \A i \in 1..m : i - 1 \in 0..m /\ i \in 0..m
  OBVIOUS
<1>5. ASSUME NEW i \in 1..m, g[i - 1] \in I[i - 1] PROVE g[i] = N[<<g[i - 1], i>>] /\ g[i] \in I[i]
  <2>1. N[<<g[i - 1], i>>] \in I[i] /\ N[<<g[i - 1], i>>] \in S /\ g[i - 1] \in S
    BY <1>4, <1>5
  <2>2. <<g[i - 1], i>> \in S \X (1..m)
    BY <2>1
  <2>3. F[<<g[i - 1], i>>] = N[<<g[i - 1], i>>]
    BY <2>1, <2>2
  <2>4. g[i] = F[<<g[i - 1], i>>]
    <3>. HIDE DEF F
    <3>. QED  BY DEF Recursion
  <2>. QED  BY <2>1, <2>3, <2>4
<1>6. g[0] = e
  BY DEF Recursion
<1>. HIDE DEF F
<1>. DEFINE T == {i \in 0..m : g[i] \in I[i]}
<1>7. 0 \in T
  BY <1>2, <1>6
<1>8. \A i \in 1..m : i - 1 \in T => i \in T
  BY <1>4, <1>5
<1>9. \A i \in 0..m : i \in T
  <2>. HIDE DEF T
  <2>. QED  BY <1>7, <1>8, UpTo
<1>10. \A i \in 1..m : g[i] = N[<<g[i - 1], i>>]
  BY <1>4, <1>5, <1>9
<1>. QED  BY <1>6, <1>9, <1>10 DEF Runs

(* Two functions that follow the same loop agree.                          *)
Follows(f, m, S, e, N) == f[0] = e /\ \A i \in 1..m : f[i - 1] \in S => f[i] = N[<<f[i - 1], i>>]
Reaches(f, m, I) == \A i \in 0..m : f[i] \in I[i]

(* Any other run of the loop is that one.                                  *)
LEMMA LoopUnique ==
  ASSUME NEW m \in Nat, NEW S, NEW e, NEW N, NEW I, NEW g \in [0..m -> S],
         Runs(g, m, e, N, I), NEW f, Follows(f, m, S, e, N)
  PROVE  Reaches(f, m, I)
<1>. DEFINE T == {i \in 0..m : f[i] = g[i]}
<1>1. 0 \in T
  BY DEF Runs, Follows
<1>2. ASSUME NEW i \in 1..m, i - 1 \in T PROVE i \in T
  <2>1. i - 1 \in 0..m /\ i \in 0..m /\ f[i - 1] = g[i - 1] /\ g[i - 1] \in S
    BY <1>2
  <2>. QED  BY <2>1 DEF Runs, Follows
<1>3. \A i \in 0..m : i \in T
  <2>. HIDE DEF T
  <2>. QED  BY <1>1, <1>2, UpTo
<1>4. \A i \in 0..m : g[i] \in I[i]
  BY DEF Runs
<1>. QED  BY <1>3, <1>4 DEF Reaches

--------------------------------------------------------------------------------
(* Indices: how far one is from another. *)
LEMMA Constants ==
  /\ RingSize \in Nat \ {0} /\ Wrap \in Nat /\ Wrap > 2 * RingSize + 2
  /\ First \in Index /\ 0 \in Index /\ NoPush \notin Index
  /\ MaxFrags \in Nat /\ MaxFrags + 2 < RingSize
  /\ MinTarget \in 1..RingSize /\ MaxTarget = RingSize /\ Budget \in Nat \ {0}
  /\ Index \subseteq Nat
  BY RingAssumption, NetAssumption DEF Index, NoPush, MaxTarget

LEMMA Sizes ==
  RingSize \in Nat /\ RingSize > 0 /\ MaxFrags \in Nat /\ MaxFrags + 2 < RingSize
  BY RingAssumption, NetAssumption

LEMMA PlusType ==
  ASSUME NEW a \in Index, NEW k \in 0..RingSize + 1
  PROVE  Plus(a, k) \in Index /\ Minus(Plus(a, k), a) = k
  BY RingAssumption, SMT DEF Index, Plus, Minus

LEMMA MinusType ==
  ASSUME NEW a \in Index, NEW b \in Index
  PROVE  Minus(a, b) \in Nat /\ (Minus(a, b) = 0 <=> a = b) /\ Plus(b, Minus(a, b)) = a
  BY RingAssumption, SMT DEF Index, Minus, Plus

LEMMA MinusSelf ==
  ASSUME NEW a \in Index
  PROVE  Minus(a, a) = 0
  BY SMT DEF Index, Minus

LEMMA PlusAhead ==
  ASSUME NEW a \in Index, NEW c \in Index, NEW k \in Nat, Minus(a, c) + k <= RingSize + 1
  PROVE  Plus(a, k) \in Index /\ Minus(Plus(a, k), c) = Minus(a, c) + k
  BY RingAssumption, SMT DEF Index, Plus, Minus

LEMMA MinusMinus ==
  ASSUME NEW a \in Index, NEW b \in Index, NEW c \in Index, Minus(b, c) <= Minus(a, c)
  PROVE  Minus(a, b) = Minus(a, c) - Minus(b, c)
  BY RingAssumption, SMT DEF Index, Minus

LEMMA PlusBehind ==
  ASSUME NEW a \in Index, NEW c \in Index, NEW k \in Nat, k <= Minus(a, c), k <= RingSize + 1
  PROVE  Plus(c, k) \in Index /\ Minus(a, Plus(c, k)) = Minus(a, c) - k
  BY RingAssumption, SMT DEF Index, Plus, Minus

LEMMA PlusPlus ==
  ASSUME NEW a \in Index, NEW j \in Nat, NEW k \in Nat, j + k <= RingSize + 1
  PROVE  Plus(Plus(a, j), k) = Plus(a, j + k)
  BY RingAssumption, SMT DEF Index, Plus

(* Packets take at least one slot, and never more than the ring has.       *)
LEMMA SlotsTyped ==
  ASSUME NEW m \in Messages
  PROVE  /\ Slots(m) \in 1..RingSize /\ m.data \in Nat /\ m.extra \in Nat /\ m.bad \in Nat
         /\ m.bad <= m.data /\ m.extra + m.bad <= Slots(m)
  BY NetAssumption, RingAssumption, SMT DEF Slots

LEMMA MaxSlotsTyped ==
  /\ MaxSlots \in 1..RingSize
  /\ \A m \in Messages : Slots(m) <= MaxSlots
<1>. DEFINE S == {Slots(m) : m \in Messages}
            T == {RingSize - n : n \in S}
<1>1. S \subseteq 1..RingSize /\ S # {}
  BY SlotsTyped, NetAssumption
<1>2. T \subseteq Nat /\ T # {}
  BY <1>1, Constants
<1>3. \E x \in T : \A y \in T : x <= y
  <2>. HIDE DEF T
  <2>. QED  BY <1>2, LeastElement
<1>4. PICK n \in S : \A k \in S : RingSize - n <= RingSize - k
  BY <1>3
<1>5. \A m \in Messages : Slots(m) <= n
  <2>1. \A k \in S : k <= n
    <3>. HIDE DEF S
    <3>. QED  BY <1>1, <1>4, Constants
  <2>. QED  BY <2>1
<1>6. MaxSlots = CHOOSE k \in S : \A m \in Messages : Slots(m) <= k
  BY DEF MaxSlots
<1>. HIDE DEF S
<1>. QED  BY <1>1, <1>5, <1>6

--------------------------------------------------------------------------------
(* Slots of the receive ring. *)

(* A multiple of n that is less than n and not negative is 0.              *)
LEMMA SmallMultiple ==
  ASSUME NEW n \in Nat \ {0}, NEW z \in Int, NEW d \in Nat, d < n, d = n * z
  PROVE  d = 0
<1>1. CASE z >= 1
  <2>1. n * z = n + n * (z - 1) /\ n * (z - 1) >= 0
    BY <1>1
  <2>. QED  BY <2>1
<1>2. CASE z <= -1
  <2>1. n * z = n * (z + 1) - n /\ n * (z + 1) <= 0
    BY <1>2
  <2>. QED  BY <2>1
<1>3. CASE z = 0
  BY <1>3
<1>. QED  BY <1>1, <1>2, <1>3

LEMMA Remainder ==
  ASSUME NEW n \in Nat \ {0}, NEW a \in Nat
  PROVE  a = n * (a \div n) + (a % n) /\ a \div n \in Int /\ a % n \in 0..n - 1
  OBVIOUS

LEMMA SlotOf ==
  ASSUME NEW a \in Index, NEW k \in 0..RingSize - 1
  PROVE  Plus(a, k) \in Index /\ Plus(a, k) \in Nat
  BY RingAssumption, SMT DEF Index, Plus

(* Indices less than a ring's length apart are in different slots.         *)
LEMMA SlotsDiffer ==
  ASSUME NEW a \in Index, NEW j \in 0..RingSize - 1, NEW k \in 0..RingSize - 1, j <= k,
         Plus(a, j) % RingSize = Plus(a, k) % RingSize
  PROVE  j = k
<1>. DEFINE x == Plus(a, j)
            y == Plus(a, k)
            w == Wrap \div RingSize
            ex == IF a + j < Wrap THEN 0 ELSE 1
            ey == IF a + k < Wrap THEN 0 ELSE 1
            z == (y \div RingSize) - (x \div RingSize) + w * (ey - ex)
<1>1. x \in Nat /\ y \in Nat /\ a \in Nat
  BY SlotOf, Constants
<1>2. x = RingSize * (x \div RingSize) + (x % RingSize) /\ x \div RingSize \in Int
      /\ y = RingSize * (y \div RingSize) + (y % RingSize) /\ y \div RingSize \in Int
      /\ x % RingSize = y % RingSize /\ x % RingSize \in Nat
  <2>1. x % RingSize = y % RingSize
    OBVIOUS
  <2>. HIDE DEF x, y
  <2>2. RingSize \in Nat \ {0}
    BY Constants
  <2>3. x % RingSize \in 0..RingSize - 1
    BY <1>1, <2>2, Remainder
  <2>4. x % RingSize \in Nat
    BY <2>2, <2>3
  <2>. QED  BY <1>1, <2>1, <2>2, <2>4, Remainder
<1>3. Wrap = RingSize * w /\ w \in Int
  BY Remainder, Constants, NetAssumption
<1>4. x = a + j - Wrap * ex /\ y = a + k - Wrap * ey /\ ex \in 0..1 /\ ey \in 0..1
  BY Constants DEF Plus
<1>5. k - j = y - x + Wrap * (ey - ex)
  BY <1>1, <1>4, Constants
<1>6. y - x = RingSize * ((y \div RingSize) - (x \div RingSize))
  <2>. HIDE DEF x, y
  <2>. QED  BY <1>1, <1>2, Constants
<1>7. Wrap * (ey - ex) = RingSize * (w * (ey - ex))
  <2>. HIDE DEF w, ex, ey
  <2>. QED  BY <1>3, <1>4, Constants
<1>8. k - j = RingSize * z /\ z \in Int
  <2>. HIDE DEF x, y, w, ex, ey
  <2>. QED  BY <1>1, <1>2, <1>3, <1>4, <1>5, <1>6, <1>7, Constants
<1>. HIDE DEF z
<1>. QED  BY <1>8, SmallMultiple, Constants

LEMMA SlotsInjective ==
  ASSUME NEW a \in Index, NEW j \in 0..RingSize - 1, NEW k \in 0..RingSize - 1,
         Plus(a, j) % RingSize = Plus(a, k) % RingSize
  PROVE  j = k
<1>1. CASE j <= k
  BY <1>1, SlotsDiffer
<1>2. CASE k <= j
  BY <1>2, SlotsDiffer
<1>. QED  BY <1>1, <1>2, Constants

LEMMA RxSlotsTyped ==
  ASSUME NEW a \in Index, NEW n \in 0..RingSize
  PROVE  /\ RxSlots(a, n) \subseteq 0..RingSize - 1
         /\ IsFiniteSet(RxSlots(a, n)) /\ Cardinality(RxSlots(a, n)) = n
<1>1. \A k \in 0..n - 1 : k \in 0..RingSize - 1 /\ Plus(a, k) \in Nat
  BY SlotOf, Constants
<1>2. RxSlots(a, n) \subseteq 0..RingSize - 1
  <2>1. ASSUME NEW k \in 0..n - 1 PROVE Plus(a, k) % RingSize \in 0..RingSize - 1
    <3>1. Plus(a, k) \in Nat /\ RingSize \in Nat \ {0}
      BY <1>1, Constants
    <3>. QED  BY <3>1, Remainder
  <2>. QED  BY <2>1 DEF RxSlots
<1>3. IsFiniteSet(0..n - 1) /\ Cardinality(0..n - 1) = n
  <2>1. 0 \in Int /\ n - 1 \in Int /\ n \in Nat
    BY Constants
  <2>2. IsFiniteSet(0..n - 1) /\ Cardinality(0..n - 1) = IF 0 > n - 1 THEN 0 ELSE n - 1 - 0 + 1
    BY <2>1, FS_Interval
  <2>. QED  BY <2>1, <2>2
<1>. DEFINE f == [k \in 0..n - 1 |-> Plus(a, k) % RingSize]
<1>4. f \in Bijection(0..n - 1, RxSlots(a, n))
  <2>1. f \in [0..n - 1 -> RxSlots(a, n)] /\ \A s \in RxSlots(a, n) : \E k \in 0..n - 1 : f[k] = s
    BY DEF RxSlots
  <2>2. ASSUME NEW j \in 0..n - 1, NEW k \in 0..n - 1, f[j] = f[k] PROVE j = k
    BY <1>1, <2>2, SlotsInjective
  <2>. HIDE DEF f
  <2>. QED  BY <2>1, <2>2 DEF Bijection, Injection, Surjection, IsInjective
<1>5. ExistsBijection(0..n - 1, RxSlots(a, n))
  <2>. HIDE DEF f
  <2>. QED  BY <1>4 DEF ExistsBijection
<1>. QED  BY <1>2, <1>3, <1>5, FS_Bijection

LEMMA RxSlotsNone == \A a : RxSlots(a, 0) = {}
  BY DEF RxSlots

(* The first n slots, and the m that follow them. *)
LEMMA RxSlotsSplit ==
  ASSUME NEW a \in Index, NEW n \in Nat, NEW m \in Nat, n + m <= RingSize
  PROVE  /\ RxSlots(a, n + m) = RxSlots(a, n) \cup RxSlots(Plus(a, n), m)
         /\ RxSlots(a, n) \cap RxSlots(Plus(a, n), m) = {}
<1>1. \A k \in 0..m - 1 : Plus(Plus(a, n), k) = Plus(a, n + k)
  BY PlusPlus, Constants
<1>2. RxSlots(Plus(a, n), m) = {Plus(a, n + k) % RingSize : k \in 0..m - 1}
  BY <1>1 DEF RxSlots
<1>3. \A k \in 0..m - 1 : n + k \in 0..(n + m) - 1 /\ n + k \in 0..RingSize - 1 /\ n + k \notin 0..n - 1
  BY Constants
<1>4. \A k \in 0..(n + m) - 1 : k \in 0..n - 1 \/ (k - n \in 0..m - 1 /\ n + (k - n) = k)
  OBVIOUS
<1>5. \A k \in 0..n - 1 : k \in 0..(n + m) - 1 /\ k \in 0..RingSize - 1
  BY Constants
<1>6. RxSlots(a, n + m) \subseteq RxSlots(a, n) \cup RxSlots(Plus(a, n), m)
  <2>1. SUFFICES ASSUME NEW k \in 0..(n + m) - 1
                 PROVE  Plus(a, k) % RingSize \in RxSlots(a, n) \cup RxSlots(Plus(a, n), m)
    BY DEF RxSlots
  <2>2. CASE k \in 0..n - 1
    BY <2>2 DEF RxSlots
  <2>3. CASE k - n \in 0..m - 1 /\ n + (k - n) = k
    BY <1>2, <2>3
  <2>. QED  BY <1>4, <2>2, <2>3
<1>7. RxSlots(a, n) \cup RxSlots(Plus(a, n), m) \subseteq RxSlots(a, n + m)
  BY <1>2, <1>3, <1>5 DEF RxSlots
<1>8. ASSUME NEW j \in 0..n - 1, NEW k \in 0..m - 1, Plus(a, j) % RingSize = Plus(a, n + k) % RingSize
      PROVE  FALSE
  BY <1>3, <1>5, <1>8, SlotsInjective
<1>9. RxSlots(a, n) \cap RxSlots(Plus(a, n), m) = {}
  BY <1>2, <1>8 DEF RxSlots
<1>. QED  BY <1>6, <1>7, <1>9

--------------------------------------------------------------------------------
(* What is in a sequence, and how much there is in a set. *)
LEMMA ImageBound ==
  ASSUME NEW S, IsFiniteSet(S), NEW f
  PROVE  IsFiniteSet({f[x] : x \in S}) /\ Cardinality({f[x] : x \in S}) <= Cardinality(S)
<1>. DEFINE T == {f[x] : x \in S}
            g == [x \in S |-> f[x]]
<1>1. g \in Surjection(S, T)
  BY DEF Surjection
<1>. HIDE DEF g, T
<1>2. IsFiniteSet(T) /\ Cardinality(T) <= Cardinality(S)
  BY <1>1, FS_Surjection
<1>. QED  BY <1>2 DEF T

LEMMA UpToCount == ASSUME NEW n \in Nat PROVE IsFiniteSet(1..n) /\ Cardinality(1..n) = n
<1>1. IsFiniteSet(1..n) /\ Cardinality(1..n) = IF 1 > n THEN 0 ELSE n - 1 + 1
  BY FS_Interval
<1>. QED  BY <1>1

LEMMA Members ==
  ASSUME NEW R, NEW s \in Seq(R)
  PROVE  /\ ToSet(s) = {s[i] : i \in 1..Len(s)} /\ ToSet(s) \subseteq R
         /\ IsFiniteSet(ToSet(s)) /\ Cardinality(ToSet(s)) <= Len(s) /\ Len(s) \in Nat
<1>1. Len(s) \in Nat /\ DOMAIN s = 1..Len(s) /\ \A i \in 1..Len(s) : s[i] \in R
  OBVIOUS
<1>2. ToSet(s) = {s[i] : i \in 1..Len(s)}
  BY <1>1 DEF ToSet
<1>3. IsFiniteSet(1..Len(s)) /\ Cardinality(1..Len(s)) = Len(s)
  BY <1>1, UpToCount
<1>4. IsFiniteSet({s[i] : i \in 1..Len(s)}) /\ Cardinality({s[i] : i \in 1..Len(s)}) <= Cardinality(1..Len(s))
  BY <1>3, ImageBound
<1>5. ToSet(s) \subseteq R
  BY <1>1, <1>2
<1>. QED  BY <1>1, <1>2, <1>3, <1>4, <1>5

LEMMA MembersNone == ToSet(<<>>) = {}
  BY DEF ToSet

LEMMA MembersConcat ==
  ASSUME NEW R, NEW s \in Seq(R), NEW u \in Seq(R)
  PROVE  /\ s \o u \in Seq(R) /\ Len(s \o u) = Len(s) + Len(u)
         /\ ToSet(s \o u) = ToSet(s) \cup ToSet(u)
<1>. DEFINE c == s \o u
<1>1. c \in Seq(R) /\ Len(c) = Len(s) + Len(u) /\ Len(s) \in Nat /\ Len(u) \in Nat
      /\ \A i \in 1..Len(s) + Len(u) : c[i] = IF i <= Len(s) THEN s[i] ELSE u[i - Len(s)]
  BY ConcatProperties, LenProperties
<1>. HIDE DEF c
<1>2. ToSet(c) = {c[i] : i \in 1..Len(c)} /\ ToSet(s) = {s[i] : i \in 1..Len(s)}
      /\ ToSet(u) = {u[i] : i \in 1..Len(u)}
  <2>1. ToSet(c) = {c[i] : i \in 1..Len(c)}
    BY <1>1, Members, Zenon
  <2>2. ToSet(s) = {s[i] : i \in 1..Len(s)}
    BY Members, Zenon
  <2>3. ToSet(u) = {u[i] : i \in 1..Len(u)}
    BY Members, Zenon
  <2>. QED  BY <2>1, <2>2, <2>3
<1>3. \A i \in 1..Len(s) : i \in 1..Len(c) /\ c[i] = s[i]
  BY <1>1
<1>4. ASSUME NEW i \in 1..Len(u) PROVE i + Len(s) \in 1..Len(c) /\ c[i + Len(s)] = u[i]
  <2>1. i + Len(s) \in 1..Len(s) + Len(u) /\ ~(i + Len(s) <= Len(s)) /\ (i + Len(s)) - Len(s) = i
    BY <1>1
  <2>. QED  BY <1>1, <2>1
<1>5. \A i \in 1..Len(c) : i \in 1..Len(s) \/ (i - Len(s) \in 1..Len(u) /\ c[i] = u[i - Len(s)])
  BY <1>1
<1>6. ToSet(c) \subseteq ToSet(s) \cup ToSet(u)
  <2>1. SUFFICES ASSUME NEW i \in 1..Len(c) PROVE c[i] \in ToSet(s) \cup ToSet(u)
    BY <1>2
  <2>. QED  BY <1>2, <1>3, <1>5
<1>7. ToSet(s) \cup ToSet(u) \subseteq ToSet(c)
  BY <1>2, <1>3, <1>4
<1>. QED  BY <1>1, <1>6, <1>7 DEF c

LEMMA MembersAppend ==
  ASSUME NEW R, NEW s \in Seq(R), NEW x \in R
  PROVE  /\ Append(s, x) \in Seq(R) /\ Len(Append(s, x)) = Len(s) + 1 /\ Len(s) \in Nat
         /\ ToSet(Append(s, x)) = ToSet(s) \cup {x}
<1>. DEFINE o == <<x>>
<1>1. o \in Seq(R) /\ Len(o) = 1 /\ o[1] = x /\ Append(s, x) = s \o o /\ 1..1 = {1} /\ Len(s) \in Nat
  OBVIOUS
<1>. HIDE DEF o
<1>2. ToSet(o) = {x}
  BY <1>1, Members
<1>. QED  BY <1>1, <1>2, MembersConcat

LEMMA MembersReverse ==
  ASSUME NEW R, NEW s \in Seq(R)
  PROVE  Reverse(s) \in Seq(R) /\ Len(Reverse(s)) = Len(s) /\ ToSet(Reverse(s)) = ToSet(s)
<1>. DEFINE r == Reverse(s)
<1>1. Len(s) \in Nat /\ \A i \in 1..Len(s) : (Len(s) - i) + 1 \in 1..Len(s) /\ s[i] \in R
  OBVIOUS
<1>2. r = [i \in 1..Len(s) |-> s[(Len(s) - i) + 1]]
  BY DEF Reverse
<1>3. r \in Seq(R) /\ Len(r) = Len(s)
  BY <1>1, <1>2
<1>4. \A i \in 1..Len(s) : r[i] = s[(Len(s) - i) + 1] /\ s[i] = r[(Len(s) - i) + 1]
  <2>1. \A i \in 1..Len(s) : (Len(s) - ((Len(s) - i) + 1)) + 1 = i
    BY <1>1
  <2>. QED  BY <1>1, <1>2, <2>1
<1>5. ToSet(r) = {r[i] : i \in 1..Len(s)} /\ ToSet(s) = {s[i] : i \in 1..Len(s)}
  BY <1>3, Members
<1>. HIDE DEF r
<1>6. ToSet(r) = ToSet(s)
  BY <1>1, <1>4, <1>5
<1>. QED  BY <1>3, <1>6 DEF r

(* The first n of a sequence and the others. *)
LEMMA MembersSplit ==
  ASSUME NEW R, NEW s \in Seq(R), NEW n \in 0..Len(s)
  PROVE  LET a == SubSeq(s, 1, n)
             b == SubSeq(s, n + 1, Len(s))
         IN  /\ a \in Seq(R) /\ b \in Seq(R) /\ Len(a) = n /\ Len(b) = Len(s) - n
             /\ \A i \in 1..n : a[i] = s[i]
             /\ \A i \in 1..Len(s) - n : b[i] = s[n + i]
             /\ ToSet(s) = ToSet(a) \cup ToSet(b)
<1>. DEFINE a == SubSeq(s, 1, n)
            b == SubSeq(s, n + 1, Len(s))
<1>1. Len(s) \in Nat /\ n \in Int /\ 1 \in Int /\ n + 1 \in Int /\ Len(s) \in Int
      /\ (\A i \in 1..n : s[i] \in R) /\ (\A i \in n + 1..Len(s) : s[i] \in R)
  OBVIOUS
<1>2. /\ a \in Seq(R) /\ Len(a) = (IF 1 <= n THEN n - 1 + 1 ELSE 0)
      /\ \A i \in 1..n - 1 + 1 : a[i] = s[1 + i - 1]
  BY <1>1, SubSeqProperties
<1>3. /\ b \in Seq(R) /\ Len(b) = (IF n + 1 <= Len(s) THEN Len(s) - (n + 1) + 1 ELSE 0)
      /\ \A i \in 1..Len(s) - (n + 1) + 1 : b[i] = s[n + 1 + i - 1]
  BY <1>1, SubSeqProperties
<1>. HIDE DEF a, b
<1>4. Len(a) = n /\ \A i \in 1..n : a[i] = s[i]
  BY <1>1, <1>2
<1>5. Len(b) = Len(s) - n /\ \A i \in 1..Len(s) - n : b[i] = s[n + i]
  BY <1>1, <1>3
<1>6. ToSet(a) = {a[i] : i \in 1..n} /\ ToSet(b) = {b[i] : i \in 1..Len(s) - n}
      /\ ToSet(s) = {s[i] : i \in 1..Len(s)}
  BY <1>2, <1>3, <1>4, <1>5, Members
<1>7. \A i \in 1..Len(s) : i \in 1..n \/ (i - n \in 1..Len(s) - n /\ n + (i - n) = i)
  BY <1>1
<1>8. \A i \in 1..Len(s) - n : n + i \in 1..Len(s)
  BY <1>1
<1>9. ToSet(s) \subseteq ToSet(a) \cup ToSet(b)
  <2>1. SUFFICES ASSUME NEW i \in 1..Len(s) PROVE s[i] \in ToSet(a) \cup ToSet(b)
    BY <1>6
  <2>2. CASE i \in 1..n
    BY <1>4, <1>6, <2>2
  <2>3. CASE i - n \in 1..Len(s) - n /\ n + (i - n) = i
    BY <1>5, <1>6, <2>3
  <2>. QED  BY <1>7, <2>2, <2>3
<1>10. ToSet(a) \cup ToSet(b) \subseteq ToSet(s)
  BY <1>1, <1>4, <1>5, <1>6, <1>8
<1>. QED  BY <1>2, <1>3, <1>4, <1>5, <1>9, <1>10 DEF a, b

LEMMA TakeFirst ==
  ASSUME NEW R, NEW s \in Seq(R), s # <<>>
  PROVE  /\ Head(s) = s[1] /\ 1 \in 1..Len(s) /\ Tail(s) \in Seq(R) /\ Head(s) \in R
         /\ Len(Tail(s)) = Len(s) - 1 /\ Len(s) \in Nat \ {0}
         /\ \A i \in 1..Len(Tail(s)) : i + 1 \in 1..Len(s) /\ Tail(s)[i] = s[i + 1]
         /\ \A i \in 1..Len(s) : i # 1 => i - 1 \in 1..Len(Tail(s)) /\ Tail(s)[i - 1] = s[i]
  OBVIOUS

--------------------------------------------------------------------------------
(* The slots that requests take. *)
Two(s, k) == {i \in 1..k : s[i].slots = 2}

LEMMA TwoFinite ==
  ASSUME NEW s, NEW k \in Nat
  PROVE  IsFiniteSet(Two(s, k)) /\ Cardinality(Two(s, k)) \in Nat
<1>1. Two(s, k) \in SUBSET (1..k)
  BY DEF Two
<1>. QED  BY <1>1, UpToCount, FS_Subset, FS_CardinalityType

LEMMA WeighTyped ==
  ASSUME NEW s, NEW k \in Nat
  PROVE  /\ Weigh(s, k) = k + Cardinality(Two(s, k)) /\ Weigh(s, k) \in Nat /\ k <= Weigh(s, k)
         /\ Weigh(s, 0) = 0
<1>1. Two(s, 0) = {}
  BY DEF Two
<1>2. Cardinality(Two(s, 0)) = 0
  BY <1>1, FS_EmptySet
<1>3. Weigh(s, k) = k + Cardinality(Two(s, k)) /\ Weigh(s, 0) = 0 + Cardinality(Two(s, 0))
  BY DEF Weigh, Two
<1>. QED  BY <1>2, <1>3, TwoFinite

LEMMA WeighMono ==
  ASSUME NEW s, NEW k \in Nat, NEW j \in 0..k
  PROVE  Weigh(s, j) <= Weigh(s, k)
<1>1. Two(s, j) \in SUBSET Two(s, k) /\ j \in Nat
  BY DEF Two
<1>2. Cardinality(Two(s, j)) <= Cardinality(Two(s, k))
  BY <1>1, TwoFinite, FS_Subset
<1>. QED  BY <1>1, <1>2, TwoFinite, WeighTyped

(* The first k weigh the same whatever is put behind them.                 *)
LEMMA WeighSame ==
  ASSUME NEW s, NEW u, NEW k \in Nat, \A i \in 1..k : u[i].slots = s[i].slots
  PROVE  Weigh(u, k) = Weigh(s, k)
<1>1. Two(u, k) = Two(s, k)
  BY DEF Two
<1>. QED  BY <1>1, WeighTyped

(* One more. *)
LEMMA WeighNext ==
  ASSUME NEW s, NEW k \in Nat, s[k + 1].slots \in 1..2
  PROVE  Weigh(s, k + 1) = Weigh(s, k) + s[k + 1].slots
<1>1. CASE s[k + 1].slots = 2
  <2>1. Two(s, k + 1) = Two(s, k) \cup {k + 1} /\ k + 1 \notin Two(s, k)
    BY <1>1 DEF Two
  <2>2. Cardinality(Two(s, k + 1)) = Cardinality(Two(s, k)) + 1
    BY <2>1, TwoFinite, FS_AddElement
  <2>. QED  BY <1>1, <2>2, TwoFinite, WeighTyped
<1>2. CASE s[k + 1].slots = 1
  <2>1. Two(s, k + 1) = Two(s, k)
    BY <1>2 DEF Two
  <2>. QED  BY <1>2, <2>1, TwoFinite, WeighTyped
<1>. QED  BY <1>1, <1>2

(* From one on, each of one slot. *)
LEMMA WeighOnes ==
  ASSUME NEW s, NEW k \in Nat, NEW j \in 0..k, \A i \in j + 1..k : s[i].slots = 1
  PROVE  Weigh(s, k) = Weigh(s, j) + (k - j)
<1>1. j \in Nat /\ Two(s, k) = Two(s, j)
  BY DEF Two
<1>. QED  BY <1>1, TwoFinite, WeighTyped

(* Without the first. *)
LEMMA WeighTail ==
  ASSUME NEW s \in Seq(Entry), s # <<>>, NEW k \in 1..Len(s)
  PROVE  Weigh(s, k) = Head(s).slots + Weigh(Tail(s), k - 1)
<1>. DEFINE t == Tail(s)
            U == Two(t, k - 1)
            sh == [i \in U |-> i + 1]
            V == {sh[i] : i \in U}
<1>1. /\ Head(s) = s[1] /\ Head(s).slots \in 1..2 /\ Len(t) = Len(s) - 1 /\ Len(s) \in Nat \ {0}
      /\ \A i \in 1..Len(t) : i + 1 \in 1..Len(s) /\ t[i] = s[i + 1]
  <2>1. Head(s) \in Entry
    BY TakeFirst
  <2>2. Head(s).slots \in 1..2
    BY <2>1 DEF Entry
  <2>. QED  BY <2>2, TakeFirst
<1>2. k - 1 \in Nat /\ k \in Nat
  BY <1>1
<1>3. IsFiniteSet(U) /\ Cardinality(U) \in Nat
  BY <1>2, TwoFinite
<1>4. \A i \in U : i \in 1..k - 1 /\ t[i].slots = 2 /\ sh[i] = i + 1
  BY DEF Two
<1>5. sh \in Bijection(U, V)
  <2>1. \A i, j \in U : sh[i] = sh[j] => i = j
    BY <1>4
  <2>2. sh \in [U -> V] /\ DOMAIN sh = U
    OBVIOUS
  <2>. HIDE DEF sh, U
  <2>. QED  BY <2>1, <2>2 DEF Bijection, Injection, Surjection, IsInjective
<1>6. IsFiniteSet(V) /\ Cardinality(V) = Cardinality(U)
  <2>1. ExistsBijection(U, V)
    <3>. HIDE DEF sh, U, V
    <3>. QED  BY <1>5 DEF ExistsBijection
  <2>. QED  BY <1>3, <2>1, FS_Bijection
<1>7. Two(s, k) \ {1} = V
  <2>1. V = {i + 1 : i \in U}
    BY <1>4
  <2>2. \A i \in U : i + 1 \in 2..k /\ s[i + 1].slots = 2
    BY <1>1, <1>4
  <2>3. ASSUME NEW i \in 2..k, s[i].slots = 2 PROVE i - 1 \in U /\ (i - 1) + 1 = i
    <3>1. i - 1 \in 1..k - 1 /\ i - 1 \in 1..Len(t) /\ (i - 1) + 1 = i
      BY <1>1
    <3>. QED  BY <1>1, <2>3, <3>1 DEF Two
  <2>4. \A i \in 1..k : i # 1 => i \in 2..k
    OBVIOUS
  <2>5. Two(s, k) \ {1} \subseteq V
    <3>. HIDE DEF U, V
    <3>. QED  BY <2>1, <2>3, <2>4 DEF Two
  <2>6. V \subseteq Two(s, k) \ {1}
    <3>1. \A i \in 2..k : i \in 1..k /\ i # 1
      OBVIOUS
    <3>. HIDE DEF U, V
    <3>. QED  BY <2>1, <2>2, <3>1 DEF Two
  <2>. QED  BY <2>5, <2>6
<1>. HIDE DEF V, U, sh
<1>8. Cardinality(Two(s, k)) = (IF s[1].slots = 2 THEN 1 ELSE 0) + Cardinality(U)
  <2>1. 1 \in Two(s, k) <=> s[1].slots = 2
    BY <1>2 DEF Two
  <2>2. Cardinality(Two(s, k) \ {1}) = IF 1 \in Two(s, k) THEN Cardinality(Two(s, k)) - 1 ELSE Cardinality(Two(s, k))
    BY <1>2, TwoFinite, FS_RemoveElement
  <2>3. Cardinality(Two(s, k)) \in Nat
    BY <1>2, TwoFinite
  <2>6. Cardinality(Two(s, k) \ {1}) = Cardinality(V)
    BY <1>7
  <2>4. CASE s[1].slots = 2
    BY <1>3, <1>6, <2>1, <2>2, <2>3, <2>4, <2>6
  <2>5. CASE s[1].slots # 2
    BY <1>3, <1>6, <2>1, <2>2, <2>3, <2>5, <2>6
  <2>. QED  BY <2>4, <2>5
<1>9. Weigh(s, k) = k + Cardinality(Two(s, k)) /\ Weigh(t, k - 1) = k - 1 + Cardinality(U)
  BY <1>2, WeighTyped DEF U
<1>. QED  BY <1>1, <1>2, <1>3, <1>8, <1>9 DEF t

LEMMA EntriesFinite == \A S \in SUBSET Entry : IsFiniteSet(S)
<1>. DEFINE f == [p \in Ids \X (1..2) |-> [id |-> p[1], slots |-> p[2]]]
            T == {f[p] : p \in Ids \X (1..2)}
<1>1. IsFiniteSet(Ids \X (1..2))
  <2>1. IsFiniteSet(Ids) /\ IsFiniteSet(1..2)
    BY UpToCount, Constants DEF Ids
  <2>. QED  BY <2>1, FS_Product
<1>2. IsFiniteSet(T)
  <2>. HIDE DEF f
  <2>. QED  BY <1>1, ImageBound
<1>3. Entry \subseteq T
  <2>1. ASSUME NEW e \in Entry PROVE e \in T
    <3>1. e.id \in Ids /\ e.slots \in 1..2 /\ e = [id |-> e.id, slots |-> e.slots]
      BY DEF Entry
    <3>2. <<e.id, e.slots>> \in Ids \X (1..2) /\ f[<<e.id, e.slots>>] = e
      BY <3>1
    <3>. QED  BY <3>2
  <2>. QED  BY <2>1
<1>. HIDE DEF T
<1>. QED  BY <1>2, <1>3, FS_Subset

(* What a set of requests weighs, with one more or one less.               *)
LEMMA WeighSetTyped ==
  ASSUME NEW S \in SUBSET Entry
  PROVE  /\ IsFiniteSet(S) /\ Cardinality(S) \in Nat
         /\ WeighSet(S) \in Nat /\ Cardinality(S) <= WeighSet(S)
         /\ IsFiniteSet({e \in S : e.slots = 2}) /\ Cardinality({e \in S : e.slots = 2}) \in Nat
<1>1. {e \in S : e.slots = 2} \in SUBSET Entry
  OBVIOUS
<1>. QED  BY <1>1, EntriesFinite, FS_CardinalityType DEF WeighSet

LEMMA WeighSetNone == WeighSet({}) = 0 /\ Cardinality({}) = 0
<1>1. {e \in {} : e.slots = 2} = {}
  OBVIOUS
<1>. QED  BY <1>1, FS_EmptySet DEF WeighSet

LEMMA WeighSetAdd ==
  ASSUME NEW S \in SUBSET Entry, NEW e \in Entry, e \notin S
  PROVE  /\ WeighSet(S \cup {e}) = WeighSet(S) + e.slots
         /\ Cardinality(S \cup {e}) = Cardinality(S) + 1
<1>. DEFINE A == {x \in S : x.slots = 2}
            B == {x \in S \cup {e} : x.slots = 2}
<1>1. Cardinality(S \cup {e}) = Cardinality(S) + 1
  BY WeighSetTyped, FS_AddElement
<1>2. e.slots \in 1..2
  BY DEF Entry
<1>3. IsFiniteSet(A) /\ Cardinality(A) \in Nat /\ Cardinality(S) \in Nat
  BY WeighSetTyped
<1>6. WeighSet(S) = Cardinality(S) + Cardinality(A)
      /\ WeighSet(S \cup {e}) = Cardinality(S \cup {e}) + Cardinality(B)
  BY DEF WeighSet
<1>4. CASE e.slots = 2
  <2>1. B = A \cup {e} /\ e \notin A
    BY <1>4
  <2>2. Cardinality(B) = Cardinality(A) + 1
    <3>. HIDE DEF A, B
    <3>. QED  BY <1>3, <2>1, FS_AddElement
  <2>. HIDE DEF A, B
  <2>. QED  BY <1>1, <1>3, <1>4, <1>6, <2>2
<1>5. CASE e.slots = 1
  <2>1. B = A
    BY <1>5
  <2>. HIDE DEF A, B
  <2>. QED  BY <1>1, <1>3, <1>5, <1>6, <2>1
<1>. QED  BY <1>1, <1>2, <1>4, <1>5

LEMMA WeighSetRemove ==
  ASSUME NEW S \in SUBSET Entry, NEW e \in S
  PROVE  /\ WeighSet(S \ {e}) = WeighSet(S) - e.slots
         /\ Cardinality(S \ {e}) = Cardinality(S) - 1
<1>1. S \ {e} \in SUBSET Entry /\ e \in Entry /\ e \notin S \ {e} /\ (S \ {e}) \cup {e} = S
      /\ e.slots \in Nat
  BY DEF Entry
<1>. DEFINE T == S \ {e}
<1>. HIDE DEF T
<1>2. WeighSet(T \cup {e}) = WeighSet(T) + e.slots /\ Cardinality(T \cup {e}) = Cardinality(T) + 1
  BY <1>1, WeighSetAdd DEF T
<1>3. WeighSet(T) \in Nat /\ Cardinality(T) \in Nat /\ T \cup {e} = S
  BY <1>1, WeighSetTyped DEF T
<1>4. WeighSet(S) = WeighSet(T) + e.slots /\ Cardinality(S) = Cardinality(T) + 1
  BY <1>2, <1>3
<1>5. WeighSet(T) = WeighSet(S) - e.slots /\ Cardinality(T) = Cardinality(S) - 1
  <2>. DEFINE w == WeighSet(T)  v == WeighSet(S)  c == Cardinality(T)  d == Cardinality(S)  n == e.slots
  <2>1. w \in Nat /\ c \in Nat /\ n \in Nat /\ v = w + n /\ d = c + 1
    BY <1>1, <1>3, <1>4
  <2>. HIDE DEF w, v, c, d, n
  <2>2. w = v - n /\ c = d - 1
    BY <2>1
  <2>. QED  BY <2>2 DEF w, v, c, d, n
<1>. QED  BY <1>5 DEF T

--------------------------------------------------------------------------------
(* The transmit ids. *)
LEMMA IdsCount == IsFiniteSet(Ids) /\ Cardinality(Ids) = RingSize
  BY UpToCount, Constants DEF Ids

LEMMA ReqIdsBound ==
  ASSUME NEW s \in Seq(Entry)
  PROVE  /\ IsFiniteSet(ReqIds(s)) /\ Cardinality(ReqIds(s)) <= Len(s) /\ Len(s) \in Nat
         /\ Cardinality(ReqIds(s)) \in Nat
<1>. DEFINE f == [i \in 1..Len(s) |-> s[i].id]
<1>1. Len(s) \in Nat /\ ReqIds(s) = {f[i] : i \in 1..Len(s)}
  BY LenProperties DEF ReqIds
<1>2. IsFiniteSet(1..Len(s)) /\ Cardinality(1..Len(s)) = Len(s)
  BY <1>1, UpToCount
<1>. HIDE DEF f
<1>3. IsFiniteSet({f[i] : i \in 1..Len(s)}) /\ Cardinality({f[i] : i \in 1..Len(s)}) <= Len(s)
  BY <1>2, ImageBound
<1>. QED  BY <1>1, <1>3, FS_CardinalityType

LEMMA TakenIdsBound ==
  ASSUME NEW S \in SUBSET Entry
  PROVE  /\ IsFiniteSet(TakenIds(S)) /\ Cardinality(TakenIds(S)) <= Cardinality(S)
         /\ Cardinality(S) \in Nat /\ Cardinality(TakenIds(S)) \in Nat
<1>. DEFINE f == [e \in S |-> e.id]
<1>1. TakenIds(S) = {f[e] : e \in S}
  BY DEF TakenIds
<1>2. IsFiniteSet(S) /\ Cardinality(S) \in Nat
  BY WeighSetTyped
<1>. HIDE DEF f
<1>3. IsFiniteSet({f[e] : e \in S}) /\ Cardinality({f[e] : e \in S}) <= Cardinality(S)
  BY <1>2, ImageBound
<1>. QED  BY <1>1, <1>2, <1>3, FS_CardinalityType

LEMMA UnionBound ==
  ASSUME NEW S, NEW T, IsFiniteSet(S), IsFiniteSet(T)
  PROVE  /\ IsFiniteSet(S \cup T) /\ Cardinality(S \cup T) \in Nat
         /\ Cardinality(S \cup T) <= Cardinality(S) + Cardinality(T)
<1>1. /\ IsFiniteSet(S \cup T)
      /\ Cardinality(S \cup T) = Cardinality(S) + Cardinality(T) - Cardinality(S \cap T)
  BY FS_Union
<1>2. IsFiniteSet(S \cap T)
  BY FS_Intersection
<1>. QED  BY <1>1, <1>2, FS_CardinalityType

(* There are no more ids than places. *)
LEMMA OwnedBound ==
  ASSUME NEW free \in Seq(Ids), NEW reqs \in Seq(Entry), NEW taken \in SUBSET Entry, NEW rsps \in Seq(Ids)
  PROVE  /\ Cardinality(Owned(free, reqs, taken, rsps))
              <= Cardinality(ToSet(free)) + Len(reqs) + Cardinality(TakenIds(taken)) + Len(rsps)
         /\ Cardinality(ToSet(free)) <= Len(free) /\ Cardinality(TakenIds(taken)) <= Cardinality(taken)
         /\ Cardinality(ToSet(free)) \in Nat /\ Cardinality(TakenIds(taken)) \in Nat
         /\ Len(free) \in Nat /\ Len(reqs) \in Nat /\ Len(rsps) \in Nat /\ Cardinality(taken) \in Nat
         /\ Cardinality(Owned(free, reqs, taken, rsps)) \in Nat
<1>. DEFINE A == ToSet(free)  B == ReqIds(reqs)  C == TakenIds(taken)  D == ToSet(rsps)
<1>1. /\ IsFiniteSet(A) /\ Cardinality(A) <= Len(free) /\ Len(free) \in Nat /\ Cardinality(A) \in Nat
      /\ IsFiniteSet(D) /\ Cardinality(D) <= Len(rsps) /\ Len(rsps) \in Nat /\ Cardinality(D) \in Nat
  BY Members, FS_CardinalityType
<1>2. /\ IsFiniteSet(B) /\ Cardinality(B) <= Len(reqs) /\ Len(reqs) \in Nat /\ Cardinality(B) \in Nat
  BY ReqIdsBound
<1>3. /\ IsFiniteSet(C) /\ Cardinality(C) <= Cardinality(taken) /\ Cardinality(taken) \in Nat
      /\ Cardinality(C) \in Nat
  BY TakenIdsBound
<1>. HIDE DEF A, B, C, D
<1>4. IsFiniteSet(A \cup B) /\ Cardinality(A \cup B) <= Cardinality(A) + Cardinality(B)
      /\ Cardinality(A \cup B) \in Nat
  BY <1>1, <1>2, UnionBound
<1>5. /\ IsFiniteSet(A \cup B \cup C) /\ Cardinality(A \cup B \cup C) <= Cardinality(A \cup B) + Cardinality(C)
      /\ Cardinality(A \cup B \cup C) \in Nat
  BY <1>3, <1>4, UnionBound
<1>6. /\ Cardinality(A \cup B \cup C \cup D) <= Cardinality(A \cup B \cup C) + Cardinality(D)
      /\ Cardinality(A \cup B \cup C \cup D) \in Nat
  BY <1>1, <1>5, UnionBound
<1>7. Cardinality(A \cup B \cup C \cup D) <= Cardinality(A) + Len(reqs) + Cardinality(C) + Len(rsps)
  <2>. DEFINE a == Cardinality(A)  b == Cardinality(B)  c == Cardinality(C)  d == Cardinality(D)
              k == Len(reqs)  m == Len(rsps)  x == Cardinality(A \cup B)
              y == Cardinality(A \cup B \cup C)  z == Cardinality(A \cup B \cup C \cup D)
  <2>1. /\ a \in Nat /\ b \in Nat /\ c \in Nat /\ d \in Nat /\ k \in Nat /\ m \in Nat
        /\ x \in Nat /\ y \in Nat /\ z \in Nat
    BY Zenon, <1>1, <1>2, <1>3, <1>4, <1>5, <1>6
  <2>2. b <= k /\ d <= m /\ x <= a + b /\ y <= x + c /\ z <= y + d
    BY Zenon, <1>1, <1>2, <1>4, <1>5, <1>6
  <2>. HIDE DEF a, b, c, d, k, m, x, y, z
  <2>3. z <= a + k + c + m
    BY <2>1, <2>2
  <2>. QED  BY <2>3 DEF a, c, k, m, z
<1>8. Owned(free, reqs, taken, rsps) = A \cup B \cup C \cup D
  BY DEF Owned, A, B, C, D
<1>. QED  BY <1>1, <1>2, <1>3, <1>6, <1>7, <1>8 DEF A, C

(* So each is in its place once. *)
LEMMA OwnedOnce ==
  ASSUME NEW free \in Seq(Ids), NEW reqs \in Seq(Entry), NEW taken \in SUBSET Entry, NEW rsps \in Seq(Ids),
         Accounted(free, reqs, taken, rsps)
  PROVE  Cardinality(ToSet(free)) = Len(free) /\ Cardinality(TakenIds(taken)) = Cardinality(taken)
<1>1. Cardinality(Owned(free, reqs, taken, rsps)) = RingSize
      /\ Len(free) + Len(reqs) + Cardinality(taken) + Len(rsps) = RingSize
  BY IdsCount DEF Accounted
<1>2. /\ Cardinality(Owned(free, reqs, taken, rsps))
              <= Cardinality(ToSet(free)) + Len(reqs) + Cardinality(TakenIds(taken)) + Len(rsps)
      /\ Cardinality(ToSet(free)) <= Len(free) /\ Cardinality(TakenIds(taken)) <= Cardinality(taken)
      /\ Cardinality(ToSet(free)) \in Nat /\ Cardinality(TakenIds(taken)) \in Nat
      /\ Len(free) \in Nat /\ Len(reqs) \in Nat /\ Len(rsps) \in Nat /\ Cardinality(taken) \in Nat
  BY OwnedBound
<1>. QED  BY <1>1, <1>2

LEMMA AccountTypes ==
  ASSUME NEW free \in Seq(Ids), NEW reqs \in Seq(Entry), NEW taken \in SUBSET Entry, NEW rsps \in Seq(Ids),
         Accounted(free, reqs, taken, rsps)
  PROVE  /\ Len(free) \in Nat /\ Len(reqs) \in Nat /\ Len(rsps) \in Nat /\ Cardinality(taken) \in Nat
         /\ Len(free) + Len(reqs) + Cardinality(taken) + Len(rsps) = RingSize
<1>1. Len(free) \in Nat /\ Len(reqs) \in Nat /\ Len(rsps) \in Nat /\ Cardinality(taken) \in Nat
  BY OwnedBound
<1>. QED  BY <1>1 DEF Accounted

(* From free to the ring, to the back end, answered, and free again.       *)
LEMMA ReqIdsConcat ==
  ASSUME NEW s \in Seq(Entry), NEW u \in Seq(Entry)
  PROVE  ReqIds(s \o u) = ReqIds(s) \cup ReqIds(u)
<1>. DEFINE c == s \o u
<1>1. Len(s) \in Nat /\ Len(u) \in Nat /\ Len(c) = Len(s) + Len(u)
      /\ \A i \in 1..Len(s) + Len(u) : c[i] = IF i <= Len(s) THEN s[i] ELSE u[i - Len(s)]
  BY ConcatProperties, LenProperties
<1>. HIDE DEF c
<1>2. \A i \in 1..Len(s) : i \in 1..Len(c) /\ c[i] = s[i]
  BY <1>1
<1>3. ASSUME NEW i \in 1..Len(u) PROVE i + Len(s) \in 1..Len(c) /\ c[i + Len(s)] = u[i]
  <2>1. i + Len(s) \in 1..Len(s) + Len(u) /\ ~(i + Len(s) <= Len(s)) /\ (i + Len(s)) - Len(s) = i
    BY <1>1
  <2>. QED  BY <1>1, <2>1
<1>4. \A i \in 1..Len(c) : i \in 1..Len(s) \/ (i - Len(s) \in 1..Len(u) /\ c[i] = u[i - Len(s)])
  BY <1>1
<1>5. ReqIds(c) \subseteq ReqIds(s) \cup ReqIds(u)
  <2>1. SUFFICES ASSUME NEW i \in 1..Len(c) PROVE c[i].id \in ReqIds(s) \cup ReqIds(u)
    BY DEF ReqIds
  <2>. QED  BY <1>2, <1>4 DEF ReqIds
<1>6. ReqIds(s) \cup ReqIds(u) \subseteq ReqIds(c)
  <2>1. \A i \in 1..Len(s) : s[i].id \in ReqIds(c)
    BY <1>2 DEF ReqIds
  <2>2. \A i \in 1..Len(u) : u[i].id \in ReqIds(c)
    BY <1>3 DEF ReqIds
  <2>. QED  BY <2>1, <2>2 DEF ReqIds
<1>. QED  BY <1>5, <1>6 DEF c

LEMMA ReqIdsTail ==
  ASSUME NEW s \in Seq(Entry), s # <<>>
  PROVE  ReqIds(s) = {Head(s).id} \cup ReqIds(Tail(s))
<1>. DEFINE t == Tail(s)
<1>1. /\ Head(s) = s[1] /\ 1 \in 1..Len(s) 
      /\ \A i \in 1..Len(t) : i + 1 \in 1..Len(s) /\ t[i] = s[i + 1]
      /\ \A i \in 1..Len(s) : i # 1 => i - 1 \in 1..Len(t) /\ t[i - 1] = s[i]
  BY TakeFirst
<1>. HIDE DEF t
<1>2. \A i \in 1..Len(t) : t[i].id \in ReqIds(s)
  BY <1>1 DEF ReqIds
<1>3. Head(s).id \in ReqIds(s)
  BY <1>1 DEF ReqIds
<1>4. ASSUME NEW i \in 1..Len(s) PROVE s[i].id \in {Head(s).id} \cup ReqIds(t)
  BY <1>1 DEF ReqIds
<1>. QED  BY <1>2, <1>3, <1>4 DEF ReqIds, t

LEMMA EntriesTyped ==
  ASSUME NEW ids \in Seq(Ids), NEW extra \in BOOLEAN
  PROVE  LET es == Entries(ids, extra)
         IN  /\ es \in Seq(Entry) /\ Len(es) = Len(ids) /\ ReqIds(es) = ToSet(ids)
             /\ \A k \in 1..Len(ids) : es[k].slots = IF k = 1 /\ extra THEN 2 ELSE 1
<1>. DEFINE es == Entries(ids, extra)
<1>1. Len(ids) \in Nat /\ \A k \in 1..Len(ids) : ids[k] \in Ids
  OBVIOUS
<1>2. es = [k \in 1..Len(ids) |-> [id |-> ids[k], slots |-> IF k = 1 /\ extra THEN 2 ELSE 1]]
  BY DEF Entries
<1>3. \A k \in 1..Len(ids) : es[k] \in Entry /\ es[k].id = ids[k]
                             /\ es[k].slots = IF k = 1 /\ extra THEN 2 ELSE 1
  BY <1>1, <1>2 DEF Entry
<1>4. es \in Seq(Entry) /\ Len(es) = Len(ids)
  BY <1>1, <1>2, <1>3
<1>5. ToSet(ids) = {ids[k] : k \in 1..Len(ids)}
  BY Members
<1>. HIDE DEF es
<1>6. ReqIds(es) = ToSet(ids)
  BY <1>3, <1>4, <1>5 DEF ReqIds
<1>. QED  BY <1>3, <1>4, <1>6 DEF es

LEMMA AccountXmit ==
  ASSUME NEW free \in Seq(Ids), NEW reqs \in Seq(Entry), NEW taken \in SUBSET Entry, NEW rsps \in Seq(Ids),
         Accounted(free, reqs, taken, rsps),
         NEW rest \in Seq(Ids), NEW es \in Seq(Entry),
         Len(free) = Len(es) + Len(rest), ToSet(free) = ReqIds(es) \cup ToSet(rest)
  PROVE  /\ reqs \o es \in Seq(Entry) /\ Len(reqs \o es) = Len(reqs) + Len(es)
         /\ Accounted(rest, reqs \o es, taken, rsps)
<1>. DEFINE rq == reqs \o es
<1>1. rq \in Seq(Entry) /\ Len(rq) = Len(reqs) + Len(es)
  BY ConcatProperties
<1>2. ReqIds(rq) = ReqIds(reqs) \cup ReqIds(es)
  BY ReqIdsConcat
<1>. HIDE DEF rq
<1>3. Owned(rest, rq, taken, rsps) = Owned(free, reqs, taken, rsps)
  BY <1>2 DEF Owned
<1>4. Len(rest) + Len(rq) + Cardinality(taken) + Len(rsps) = RingSize
  <2>. DEFINE f == Len(free)  q == Len(reqs)  x == Cardinality(taken)  y == Len(rsps)
              n == Len(es)  g == Len(rest)
  <2>1. /\ f \in Nat /\ q \in Nat /\ x \in Nat /\ y \in Nat /\ f + q + x + y = RingSize
        /\ n \in Nat /\ g \in Nat /\ f = n + g
    BY AccountTypes, LenProperties
  <2>2. Len(rest) = g /\ Len(rq) = q + n
    BY <1>1
  <2>. HIDE DEF f, q, x, y, n, g
  <2>3. g + (q + n) + x + y = RingSize
    BY <2>1
  <2>. QED  BY <2>2, <2>3 DEF x, y
<1>. QED  BY <1>1, <1>3, <1>4 DEF Accounted, rq

LEMMA AccountTake ==
  ASSUME NEW free \in Seq(Ids), NEW reqs \in Seq(Entry), NEW taken \in SUBSET Entry, NEW rsps \in Seq(Ids),
         Accounted(free, reqs, taken, rsps), reqs # <<>>
  PROVE  /\ Head(reqs) \in Entry /\ Head(reqs) \notin taken
         /\ Accounted(free, Tail(reqs), taken \cup {Head(reqs)}, rsps)
<1>. DEFINE e == Head(reqs)
            q == Tail(reqs)
            s == taken \cup {e}
<1>1. e \in Entry /\ q \in Seq(Entry) /\ Len(q) = Len(reqs) - 1 /\ Len(reqs) \in Nat \ {0}
  BY TakeFirst
<1>2. s \in SUBSET Entry
  BY <1>1
<1>3. TakenIds(s) = TakenIds(taken) \cup {e.id}
  BY DEF TakenIds
<1>4. ReqIds(reqs) = {e.id} \cup ReqIds(q)
  BY ReqIdsTail
<1>5. Owned(free, q, s, rsps) = Ids
  <2>. HIDE DEF e, q, s
  <2>. QED  BY <1>3, <1>4 DEF Owned, Accounted
<1>. HIDE DEF e, q, s
<1>6. RingSize <= Len(free) + Len(q) + Cardinality(s) + Len(rsps)
  <2>1. /\ Cardinality(Owned(free, q, s, rsps))
              <= Cardinality(ToSet(free)) + Len(q) + Cardinality(TakenIds(s)) + Len(rsps)
        /\ Cardinality(ToSet(free)) <= Len(free) /\ Cardinality(TakenIds(s)) <= Cardinality(s)
        /\ Cardinality(ToSet(free)) \in Nat /\ Cardinality(TakenIds(s)) \in Nat
        /\ Len(free) \in Nat /\ Len(q) \in Nat /\ Len(rsps) \in Nat /\ Cardinality(s) \in Nat
    BY <1>1, <1>2, OwnedBound
  <2>2. Cardinality(Owned(free, q, s, rsps)) = RingSize /\ RingSize \in Nat
    BY <1>5, IdsCount, Constants
  <2>. QED  BY <2>1, <2>2
<1>7. /\ Len(free) + Len(reqs) + Cardinality(taken) + Len(rsps) = RingSize
      /\ Len(free) \in Nat /\ Len(reqs) \in Nat /\ Len(rsps) \in Nat /\ Cardinality(taken) \in Nat
  BY AccountTypes
<1>8. e \notin taken
  <2>1. SUFFICES ASSUME e \in taken PROVE FALSE
    OBVIOUS
  <2>2. s = taken
    BY <2>1 DEF s
  <2>. QED  BY <1>1, <1>6, <1>7, <2>2
<1>9. Cardinality(s) = Cardinality(taken) + 1
  BY <1>1, <1>8, WeighSetAdd DEF s
<1>10. Len(free) + Len(q) + Cardinality(s) + Len(rsps) = RingSize
  BY <1>1, <1>7, <1>9
<1>. QED  BY <1>1, <1>5, <1>8, <1>10 DEF Accounted, e, q, s

LEMMA AccountAnswer ==
  ASSUME NEW free \in Seq(Ids), NEW reqs \in Seq(Entry), NEW taken \in SUBSET Entry, NEW rsps \in Seq(Ids),
         Accounted(free, reqs, taken, rsps), NEW e \in taken
  PROVE  /\ Append(rsps, e.id) \in Seq(Ids) /\ Len(Append(rsps, e.id)) = Len(rsps) + 1
         /\ Accounted(free, reqs, taken \ {e}, Append(rsps, e.id))
<1>. DEFINE s == taken \ {e}
            a == Append(rsps, e.id)
<1>1. e.id \in Ids
  BY DEF Entry
<1>2. a \in Seq(Ids) /\ Len(a) = Len(rsps) + 1 /\ ToSet(a) = ToSet(rsps) \cup {e.id}
  BY <1>1, MembersAppend
<1>3. TakenIds(taken) = TakenIds(s) \cup {e.id}
  BY DEF TakenIds
<1>4. Cardinality(s) = Cardinality(taken) - 1
  BY WeighSetRemove
<1>. HIDE DEF s, a
<1>5. Owned(free, reqs, s, a) = Ids
  BY <1>2, <1>3 DEF Owned, Accounted
<1>6. Len(free) + Len(reqs) + Cardinality(s) + Len(a) = RingSize
  <2>1. /\ Len(free) + Len(reqs) + Cardinality(taken) + Len(rsps) = RingSize
        /\ Len(free) \in Nat /\ Len(reqs) \in Nat /\ Len(rsps) \in Nat /\ Cardinality(taken) \in Nat
    BY AccountTypes
  <2>. QED  BY <1>2, <1>4, <2>1
<1>. QED  BY <1>2, <1>5, <1>6 DEF Accounted, s, a

LEMMA AccountReclaim ==
  ASSUME NEW free \in Seq(Ids), NEW reqs \in Seq(Entry), NEW taken \in SUBSET Entry, NEW rsps \in Seq(Ids),
         Accounted(free, reqs, taken, rsps)
  PROVE  /\ Reverse(rsps) \o free \in Seq(Ids) /\ Len(Reverse(rsps) \o free) = Len(rsps) + Len(free)
         /\ Accounted(Reverse(rsps) \o free, reqs, taken, <<>>)
<1>. DEFINE r == Reverse(rsps)
            a == r \o free
<1>1. r \in Seq(Ids) /\ Len(r) = Len(rsps) /\ ToSet(r) = ToSet(rsps)
  BY MembersReverse
<1>. HIDE DEF r
<1>2. a \in Seq(Ids) /\ Len(a) = Len(r) + Len(free) /\ ToSet(a) = ToSet(r) \cup ToSet(free)
  <2>1. \A s \in Seq(Ids) : /\ s \o free \in Seq(Ids) /\ Len(s \o free) = Len(s) + Len(free)
                            /\ ToSet(s \o free) = ToSet(s) \cup ToSet(free)
    BY MembersConcat
  <2>. QED  BY <1>1, <2>1, Zenon
<1>. HIDE DEF a
<1>3. Owned(a, reqs, taken, <<>>) = Ids
  BY <1>1, <1>2, MembersNone DEF Owned, Accounted
<1>4. Len(a) + Len(reqs) + Cardinality(taken) + 0 = RingSize
  <2>1. /\ Len(free) + Len(reqs) + Cardinality(taken) + Len(rsps) = RingSize
        /\ Len(free) \in Nat /\ Len(reqs) \in Nat /\ Len(rsps) \in Nat /\ Cardinality(taken) \in Nat
    BY AccountTypes
  <2>. QED  BY <1>1, <1>2, <2>1
<1>5. Len(<<>>) = 0
  OBVIOUS
<1>. QED  BY <1>1, <1>2, <1>3, <1>4, <1>5 DEF Accounted, a, r

--------------------------------------------------------------------------------
(* What each step does to the transmit ring. *)
LEMMA TxTyped ==
  ASSUME NEW t \in TxRings
  PROVE  /\ t.pvt \in Index /\ t.cons \in Index /\ t.req_prod \in Index /\ t.req_event \in Index
         /\ t.rsp_prod \in Index /\ t.rsp_event \in Index /\ t.free \in Seq(Ids) /\ t.grefs \in Nat
         /\ t.reqs \in Seq(Entry) /\ t.taken \in SUBSET Entry /\ t.rsps \in Seq(Ids)
  BY DEF TxRings

(* The distances between the indices, and the ids that are out.            *)
LEMMA TxMeasures ==
  ASSUME NEW t, NEW c, TxOk(t, c)
  PROVE  /\ Minus(t.rsp_prod, t.cons) \in Nat /\ Minus(c, t.cons) \in Nat
         /\ Minus(t.req_prod, t.cons) \in Nat /\ Outstanding(t) \in Nat
         /\ Len(t.rsps) <= Minus(t.rsp_prod, t.cons)
         /\ Minus(t.rsp_prod, t.cons) <= Minus(c, t.cons)
         /\ Minus(c, t.cons) <= Minus(t.req_prod, t.cons)
         /\ Minus(t.req_prod, t.cons) <= Outstanding(t)
         /\ Outstanding(t) <= RingSize
         /\ RingSize - Outstanding(t) <= Len(t.free)
         /\ Minus(t.req_prod, c) = Minus(t.req_prod, t.cons) - Minus(c, t.cons)
         /\ Minus(t.pvt, c) = Outstanding(t) - Minus(c, t.cons)
         /\ Minus(t.pvt, t.req_prod) = Outstanding(t) - Minus(t.req_prod, t.cons)
         /\ Minus(c, t.rsp_prod) = Minus(c, t.cons) - Minus(t.rsp_prod, t.cons)
<1>. DEFINE A == Minus(t.rsp_prod, t.cons)  C == Minus(c, t.cons)
            P == Minus(t.req_prod, t.cons)  O == Minus(t.pvt, t.cons)
            S == WeighSet(t.taken)  N == Weigh(t.reqs, Len(t.reqs))
            f == Len(t.free)  q == Len(t.reqs)  x == Cardinality(t.taken)  y == Len(t.rsps)
<1>1. /\ t.pvt \in Index /\ t.cons \in Index /\ t.req_prod \in Index /\ t.rsp_prod \in Index
      /\ t.reqs \in Seq(Entry) /\ t.taken \in SUBSET Entry /\ t.rsps \in Seq(Ids) /\ t.free \in Seq(Ids)
      /\ c \in Index /\ IndexOk(t, c) /\ IdsOk(t)
  BY TxTyped DEF TxOk
<1>2. A \in Nat /\ C \in Nat /\ P \in Nat /\ O \in Nat
  BY <1>1, MinusType
<1>3. \E k \in 0..q : P = C + Weigh(t.reqs, k)
  BY <1>1 DEF IndexOk
<1>4. q \in Nat
  BY <1>1, LenProperties
<1>5. N \in Nat /\ q <= N
  BY <1>4, WeighTyped
<1>6. \A k \in 0..q : Weigh(t.reqs, k) \in Nat /\ Weigh(t.reqs, k) <= N
  <2>1. SUFFICES ASSUME NEW k \in 0..q PROVE Weigh(t.reqs, k) \in Nat /\ Weigh(t.reqs, k) <= N
    OBVIOUS
  <2>2. k \in Nat
    BY <1>4
  <2>. QED  BY <1>4, <2>2, WeighTyped, WeighMono
<1>7. S \in Nat /\ x <= S
  BY <1>1, WeighSetTyped
<1>8. y <= A /\ C = A + S /\ O = C + N /\ O <= RingSize
  BY <1>1 DEF IndexOk, Outstanding
<1>9. f + q + x + y = RingSize /\ f \in Nat /\ y \in Nat /\ x \in Nat
  BY <1>1, AccountTypes DEF IdsOk
<1>10. RingSize \in Nat
  BY Sizes
<1>11. C <= P /\ P <= O
  <2>. HIDE DEF A, C, P, O, S, N, f, q, x, y
  <2>1. PICK k \in 0..q : P = C + Weigh(t.reqs, k)
    BY <1>3
  <2>2. PICK n \in Nat : n = Weigh(t.reqs, k) /\ n <= N
    BY <1>6
  <2>. QED  BY <1>2, <1>5, <1>8, <2>1, <2>2
<1>12. A <= C /\ C <= O /\ RingSize - O <= f
  <2>. HIDE DEF A, C, P, O, S, N, f, q, x, y
  <2>. QED  BY <1>2, <1>4, <1>5, <1>7, <1>8, <1>9, <1>10
<1>13. Minus(t.req_prod, c) = P - C
  BY <1>1, <1>11, MinusMinus
<1>14. Minus(t.pvt, c) = O - C
  BY <1>1, <1>12, MinusMinus
<1>15. Minus(t.pvt, t.req_prod) = O - P
  BY <1>1, <1>11, MinusMinus
<1>16. Minus(c, t.rsp_prod) = C - A
  BY <1>1, <1>12, MinusMinus
<1>17. Outstanding(t) = O
  BY DEF Outstanding
<1>. HIDE DEF A, C, P, O, S, N, f, q, x, y
<1>18. /\ A \in Nat /\ C \in Nat /\ P \in Nat /\ O \in Nat /\ y <= A /\ A <= C /\ C <= P /\ P <= O
       /\ O <= RingSize /\ RingSize - O <= f
       /\ Minus(t.req_prod, c) = P - C /\ Minus(t.pvt, c) = O - C
       /\ Minus(t.pvt, t.req_prod) = O - P /\ Minus(c, t.rsp_prod) = C - A
  BY <1>2, <1>8, <1>11, <1>12, <1>13, <1>14, <1>15, <1>16
<1>. QED  BY <1>17, <1>18 DEF A, C, P, O, S, N, f, q, x, y

(* network_start_xmit: an open queue leaves room for the largest packet.   *)
Sent(t, n, extra) ==
    [t EXCEPT !.free = SubSeq(@, n + 1, Len(@)), !.grefs = @ - n,
              !.reqs = @ \o Entries(SubSeq(t.free, 1, n), extra),
              !.pvt = Plus(@, IF extra THEN n + 1 ELSE n)]

LEMMA XmitTx ==
  ASSUME NEW t, NEW c, TxOk(t, c), SlotAvailable(t),
         NEW n \in 1..MaxFrags + 1, NEW extra \in BOOLEAN,
         NEW u, u = Sent(t, n, extra)
  PROVE  /\ n <= Len(t.free) /\ n <= t.grefs
         /\ TxOk(u, c) /\ Outstanding(t) <= Outstanding(u)
         /\ u.cons = t.cons /\ u.req_prod = t.req_prod /\ u.req_event = t.req_event
         /\ u.rsp_prod = t.rsp_prod /\ u.rsp_event = t.rsp_event
<1>. DEFINE es == Entries(SubSeq(t.free, 1, n), extra)
            w == IF extra THEN n + 1 ELSE n
            rest == SubSeq(t.free, n + 1, Len(t.free))
            rq == t.reqs \o es
<1>1. /\ t \in TxRings /\ t.pvt \in Index /\ t.cons \in Index /\ t.req_prod \in Index /\ t.rsp_prod \in Index
      /\ t.reqs \in Seq(Entry) /\ t.taken \in SUBSET Entry /\ t.rsps \in Seq(Ids) /\ t.free \in Seq(Ids)
      /\ c \in Index /\ IndexOk(t, c) /\ t.grefs = Len(t.free) /\ t.grefs \in Nat
      /\ Accounted(t.free, t.reqs, t.taken, t.rsps)
  BY TxTyped DEF TxOk, IdsOk
<1>2. /\ RingSize - Outstanding(t) <= Len(t.free) /\ Outstanding(t) \in Nat
      /\ Outstanding(t) < RingSize - MaxFrags - 2 /\ Len(t.free) \in Nat
  BY <1>1, TxMeasures, LenProperties, Constants DEF SlotAvailable
<1>3. n \in 0..Len(t.free) /\ n <= t.grefs /\ n \in Nat /\ w \in Nat /\ w \in 1..MaxFrags + 2
  <2>. DEFINE L == Len(t.free)  O == Outstanding(t)
  <2>1. /\ MaxFrags \in Nat /\ RingSize \in Nat /\ L \in Nat /\ O \in Nat
        /\ RingSize - O <= L /\ O < RingSize - MaxFrags - 2 /\ t.grefs = L
    BY <1>1, <1>2, Sizes
  <2>2. n \in Nat /\ n <= MaxFrags + 1 /\ n >= 1
    BY <2>1
  <2>3. w \in Nat /\ w \in 1..MaxFrags + 2
    BY <2>1, <2>2
  <2>. HIDE DEF L, O
  <2>4. n <= L
    BY <2>1, <2>2
  <2>. QED  BY <2>1, <2>2, <2>3, <2>4 DEF L
<1>4. /\ rest \in Seq(Ids) /\ Len(rest) = Len(t.free) - n /\ es \in Seq(Entry) /\ Len(es) = n
      /\ rq \in Seq(Entry) /\ Len(rq) = Len(t.reqs) + n
      /\ Accounted(rest, rq, t.taken, t.rsps)
  <2>. DEFINE a == SubSeq(t.free, 1, n)
  <2>1. /\ a \in Seq(Ids) /\ Len(a) = n /\ rest \in Seq(Ids) /\ Len(rest) = Len(t.free) - n
        /\ ToSet(t.free) = ToSet(a) \cup ToSet(rest)
    BY <1>1, <1>3, MembersSplit
  <2>2. es \in Seq(Entry) /\ Len(es) = n /\ ReqIds(es) = ToSet(a)
    BY <2>1, EntriesTyped
  <2>. HIDE DEF es, a, rest
  <2>3. Len(t.free) = Len(es) + Len(rest) /\ ToSet(t.free) = ReqIds(es) \cup ToSet(rest)
    BY <1>3, <2>1, <2>2
  <2>4. rq \in Seq(Entry) /\ Len(rq) = Len(t.reqs) + Len(es) /\ Accounted(rest, rq, t.taken, t.rsps)
    BY <1>1, <2>1, <2>2, <2>3, AccountXmit
  <2>. QED  BY <2>1, <2>2, <2>4
<1>5. /\ Plus(t.pvt, w) \in Index /\ Minus(Plus(t.pvt, w), t.cons) = Minus(t.pvt, t.cons) + w
      /\ Minus(t.pvt, t.cons) + w <= RingSize
  <2>. DEFINE O == Minus(t.pvt, t.cons)
  <2>1. O \in Nat /\ O < RingSize - MaxFrags - 2
    BY <1>2 DEF Outstanding
  <2>2. w \in Nat /\ w <= MaxFrags + 2
    <3>. HIDE DEF w
    <3>. QED  BY <1>3, Sizes
  <2>. HIDE DEF O, w
  <2>3. O + w <= RingSize /\ O + w <= RingSize + 1
    BY <2>1, <2>2, Sizes
  <2>4. Plus(t.pvt, w) \in Index /\ Minus(Plus(t.pvt, w), t.cons) = Minus(t.pvt, t.cons) + w
    BY <1>1, <2>2, <2>3, PlusAhead DEF O
  <2>. QED  BY <2>3, <2>4 DEF O
<1>6. Weigh(rq, Len(t.reqs) + n) = Weigh(t.reqs, Len(t.reqs)) + w
      /\ \A k \in 0..Len(t.reqs) : Weigh(rq, k) = Weigh(t.reqs, k)
  <2>1. SubSeq(t.free, 1, n) \in Seq(Ids) /\ Len(SubSeq(t.free, 1, n)) = n
    BY <1>1, <1>3, MembersSplit
  <2>2. \A k \in 1..n : es[k].slots = IF k = 1 /\ extra THEN 2 ELSE 1
    BY <2>1, EntriesTyped
  <2>3. Len(t.reqs) \in Nat /\ \A i \in 1..Len(t.reqs) + n : rq[i] = IF i <= Len(t.reqs) THEN t.reqs[i] ELSE es[i - Len(t.reqs)]
    <3>. HIDE DEF es
    <3>1. Len(t.reqs) \in Nat
      BY <1>1, LenProperties
    <3>2. \A i \in 1..Len(t.reqs) + Len(es) : rq[i] = IF i <= Len(t.reqs) THEN t.reqs[i] ELSE es[i - Len(t.reqs)]
      BY <1>1, <1>4, ConcatProperties
    <3>. QED  BY <1>4, <3>1, <3>2
  <2>. HIDE DEF es, rq
  <2>4. \A i \in 1..Len(t.reqs) : rq[i] = t.reqs[i]
    BY <1>3, <2>3
  <2>5. \A k \in 0..Len(t.reqs) : Weigh(rq, k) = Weigh(t.reqs, k)
    <3>1. SUFFICES ASSUME NEW k \in 0..Len(t.reqs) PROVE Weigh(rq, k) = Weigh(t.reqs, k)
      OBVIOUS
    <3>2. k \in Nat /\ \A i \in 1..k : i \in 1..Len(t.reqs)
      BY <2>3
    <3>. QED  BY <2>4, <3>2, WeighSame
  <2>6. rq[Len(t.reqs) + 1] = es[1] /\ 1 \in 1..n
    <3>1. Len(t.reqs) + 1 \in 1..Len(t.reqs) + n /\ ~(Len(t.reqs) + 1 <= Len(t.reqs))
          /\ (Len(t.reqs) + 1) - Len(t.reqs) = 1
      BY <1>3, <2>3
    <3>. QED  BY <1>3, <2>3, <3>1
  <2>7. rq[Len(t.reqs) + 1].slots = (IF extra THEN 2 ELSE 1)
    BY <2>2, <2>6
  <2>8. Weigh(rq, Len(t.reqs) + 1) = Weigh(t.reqs, Len(t.reqs)) + (IF extra THEN 2 ELSE 1)
    <3>1. Weigh(rq, Len(t.reqs) + 1) = Weigh(rq, Len(t.reqs)) + rq[Len(t.reqs) + 1].slots
      <4>1. rq[Len(t.reqs) + 1].slots \in 1..2
        BY <2>7
      <4>. QED  BY <2>3, <4>1, WeighNext
    <3>2. Weigh(rq, Len(t.reqs)) = Weigh(t.reqs, Len(t.reqs))
      BY <2>3, <2>5
    <3>. QED  BY <2>7, <3>1, <3>2
  <2>9. \A i \in (Len(t.reqs) + 1) + 1..Len(t.reqs) + n : rq[i].slots = 1
    <3>1. SUFFICES ASSUME NEW i \in (Len(t.reqs) + 1) + 1..Len(t.reqs) + n PROVE rq[i].slots = 1
      OBVIOUS
    <3>2. i \in 1..Len(t.reqs) + n /\ ~(i <= Len(t.reqs)) /\ i - Len(t.reqs) \in 1..n /\ i - Len(t.reqs) # 1
      BY <1>3, <2>3
    <3>. QED  BY <2>2, <2>3, <3>2
  <2>10. Weigh(rq, Len(t.reqs) + n) = Weigh(rq, Len(t.reqs) + 1) + ((Len(t.reqs) + n) - (Len(t.reqs) + 1))
    <3>1. Len(t.reqs) + n \in Nat /\ Len(t.reqs) + 1 \in 0..Len(t.reqs) + n
      BY <1>3, <2>3
    <3>. QED  BY <2>9, <3>1, WeighOnes
  <2>11. Weigh(t.reqs, Len(t.reqs)) \in Nat
    BY <2>3, WeighTyped
  <2>. QED  BY <1>3, <2>3, <2>5, <2>8, <2>10, <2>11
<1>7. /\ u \in TxRings /\ u.cons = t.cons /\ u.req_prod = t.req_prod /\ u.req_event = t.req_event
      /\ u.rsp_prod = t.rsp_prod /\ u.rsp_event = t.rsp_event /\ u.free = rest /\ u.grefs = t.grefs - n
      /\ u.reqs = rq /\ u.taken = t.taken /\ u.rsps = t.rsps /\ u.pvt = Plus(t.pvt, w)
  <2>1. u = [t EXCEPT !.free = rest, !.grefs = @ - n, !.reqs = rq, !.pvt = Plus(@, w)]
    BY <1>1 DEF TxRings, Sent
  <2>2. t.grefs - n \in Nat
    BY <1>1, <1>3
  <2>. HIDE DEF rest, rq, w, es
  <2>. QED  BY <1>1, <1>4, <1>5, <2>1, <2>2 DEF TxRings
<1>. HIDE DEF rest, rq, w, es
<1>8. IdsOk(u)
  BY <1>1, <1>4, <1>7 DEF IdsOk
<1>9. IndexOk(u, c)
  <2>1. PICK k \in 0..Len(t.reqs) : Minus(t.req_prod, t.cons) = Minus(c, t.cons) + Weigh(t.reqs, k)
    BY <1>1 DEF IndexOk
  <2>2. k \in 0..Len(u.reqs) /\ Minus(u.req_prod, u.cons) = Minus(c, u.cons) + Weigh(u.reqs, k)
    <3>1. Len(t.reqs) \in Nat /\ k \in 0..Len(t.reqs) + n
      BY <1>1, <1>3, LenProperties
    <3>. QED  BY <1>4, <1>6, <1>7, <2>1, <3>1
  <2>3. Weigh(t.reqs, Len(t.reqs)) \in Nat
    BY <1>1, WeighTyped, LenProperties
  <2>4. Outstanding(u) = Minus(c, u.cons) + Weigh(u.reqs, Len(u.reqs)) /\ Outstanding(u) <= RingSize
    <3>1. Minus(t.pvt, t.cons) = Minus(c, t.cons) + Weigh(t.reqs, Len(t.reqs)) /\ Minus(c, t.cons) \in Nat
      BY <1>1, MinusType DEF IndexOk, Outstanding
    <3>2. Outstanding(u) = Minus(t.pvt, t.cons) + w /\ Weigh(u.reqs, Len(u.reqs)) = Weigh(t.reqs, Len(t.reqs)) + w
      BY <1>4, <1>5, <1>6, <1>7 DEF Outstanding
    <3>3. u.cons = t.cons /\ Minus(t.pvt, t.cons) + w <= RingSize /\ w \in Nat
      BY <1>3, <1>5, <1>7
    <3>4. Outstanding(u) <= RingSize
      BY <3>2, <3>3
    <3>. DEFINE O == Minus(t.pvt, t.cons)  C == Minus(c, t.cons)  N == Weigh(t.reqs, Len(t.reqs))
    <3>5. O = C + N /\ C \in Nat /\ N \in Nat /\ w \in Nat
      BY <2>3, <3>1, <3>3
    <3>6. Outstanding(u) = O + w /\ Weigh(u.reqs, Len(u.reqs)) = N + w /\ Minus(c, u.cons) = C
      BY <3>2, <3>3
    <3>. HIDE DEF O, C, N
    <3>7. O + w = C + (N + w)
      BY <3>5
    <3>. QED  BY <3>4, <3>6, <3>7
  <2>. QED  BY <1>1, <1>7, <2>2, <2>4 DEF IndexOk
<1>10. Outstanding(t) <= Outstanding(u)
  BY <1>2, <1>3, <1>5, <1>7 DEF Outstanding
<1>. QED  BY <1>1, <1>3, <1>7, <1>8, <1>9, <1>10 DEF TxOk

(* What does not move the private indices. *)
LEMMA SameTx ==
  ASSUME NEW t, NEW c, TxOk(t, c), NEW u \in TxRings,
         u.pvt = t.pvt, u.cons = t.cons, u.req_prod = t.req_prod, u.rsp_prod = t.rsp_prod,
         u.free = t.free, u.grefs = t.grefs, u.reqs = t.reqs, u.taken = t.taken, u.rsps = t.rsps
  PROVE  TxOk(u, c) /\ Outstanding(u) = Outstanding(t)
  BY DEF TxOk, IdsOk, IndexOk, Outstanding

LEMMA EventTx ==
  ASSUME NEW t, NEW c, TxOk(t, c), NEW e \in Index, NEW u,
         u = [t EXCEPT !.rsp_event = e] \/ u = [t EXCEPT !.req_event = e]
  PROVE  /\ TxOk(u, c) /\ Outstanding(u) = Outstanding(t)
         /\ u.pvt = t.pvt /\ u.cons = t.cons /\ u.req_prod = t.req_prod /\ u.rsp_prod = t.rsp_prod
         /\ u = [t EXCEPT !.rsp_event = e] => u.rsp_event = e /\ u.req_event = t.req_event
         /\ u = [t EXCEPT !.req_event = e] => u.req_event = e /\ u.rsp_event = t.rsp_event
         /\ u.reqs = t.reqs /\ u.taken = t.taken /\ u.rsps = t.rsps
<1>1. t \in TxRings
  BY DEF TxOk
<1>2. /\ u \in TxRings /\ u.pvt = t.pvt /\ u.cons = t.cons /\ u.req_prod = t.req_prod
      /\ u.rsp_prod = t.rsp_prod /\ u.free = t.free /\ u.grefs = t.grefs /\ u.reqs = t.reqs
      /\ u.taken = t.taken /\ u.rsps = t.rsps
  BY <1>1 DEF TxRings
<1>3. /\ u = [t EXCEPT !.rsp_event = e] => u.rsp_event = e /\ u.req_event = t.req_event
      /\ u = [t EXCEPT !.req_event = e] => u.req_event = e /\ u.rsp_event = t.rsp_event
  BY <1>1 DEF TxRings
<1>. QED  BY <1>2, <1>3, SameTx

(* The push shows all that has been written. *)
LEMMA PushTx ==
  ASSUME NEW t, NEW c, TxOk(t, c), NEW u, u = [t EXCEPT !.req_prod = t.pvt]
  PROVE  /\ TxOk(u, c) /\ Outstanding(u) = Outstanding(t)
         /\ u.pvt = t.pvt /\ u.cons = t.cons /\ u.req_prod = t.pvt /\ u.req_event = t.req_event
         /\ u.rsp_prod = t.rsp_prod /\ u.rsp_event = t.rsp_event
         /\ u.reqs = t.reqs /\ u.taken = t.taken /\ u.rsps = t.rsps
<1>1. t \in TxRings /\ IdsOk(t) /\ IndexOk(t, c) /\ c \in Index
  BY DEF TxOk
<1>2. /\ u \in TxRings /\ u.pvt = t.pvt /\ u.cons = t.cons /\ u.req_prod = t.pvt
      /\ u.rsp_prod = t.rsp_prod /\ u.free = t.free /\ u.grefs = t.grefs /\ u.reqs = t.reqs
      /\ u.taken = t.taken /\ u.rsps = t.rsps /\ u.req_event = t.req_event /\ u.rsp_event = t.rsp_event
  BY <1>1 DEF TxRings
<1>3. Len(t.reqs) \in 0..Len(t.reqs)
  BY <1>1, TxTyped, LenProperties
<1>4. \E k \in 0..Len(u.reqs) : Minus(u.req_prod, u.cons) = Minus(c, u.cons) + Weigh(u.reqs, k)
  <2>1. Minus(t.pvt, t.cons) = Minus(c, t.cons) + Weigh(t.reqs, Len(t.reqs))
    BY <1>1 DEF IndexOk, Outstanding
  <2>. QED  BY <1>2, <1>3, <2>1
<1>5. IdsOk(u)
  BY <1>1, <1>2 DEF IdsOk
<1>6. IndexOk(u, c)
  BY <1>1, <1>2, <1>4 DEF IndexOk, Outstanding
<1>. QED  BY <1>1, <1>2, <1>5, <1>6 DEF TxOk, Outstanding

(* The back end takes a request it has been shown. *)
Took(t) == [t EXCEPT !.reqs = Tail(@), !.taken = @ \cup {Head(t.reqs)}]

LEMMA TakeTx ==
  ASSUME NEW t, NEW c, TxOk(t, c), c # t.req_prod, NEW u,
         u = Took(t)
  PROVE  /\ TxOk(u, Plus(c, Head(t.reqs).slots)) /\ Outstanding(u) = Outstanding(t)
         /\ u.pvt = t.pvt /\ u.cons = t.cons /\ u.req_prod = t.req_prod /\ u.req_event = t.req_event
         /\ u.rsp_prod = t.rsp_prod /\ u.rsp_event = t.rsp_event
         /\ Head(t.reqs).slots \in 1..2 /\ Head(t.reqs).slots <= Minus(t.req_prod, c)
<1>. DEFINE e == Head(t.reqs)  q == Tail(t.reqs)  s == t.taken \cup {e}
            A == Minus(t.rsp_prod, t.cons)  C == Minus(c, t.cons)
            P == Minus(t.req_prod, t.cons)  O == Outstanding(t)
            S == WeighSet(t.taken)  N == Weigh(t.reqs, Len(t.reqs))  h == e.slots
            d == Plus(c, h)
<1>1. /\ t \in TxRings /\ t.pvt \in Index /\ t.cons \in Index /\ t.req_prod \in Index /\ t.rsp_prod \in Index
      /\ t.reqs \in Seq(Entry) /\ t.taken \in SUBSET Entry /\ t.rsps \in Seq(Ids) /\ t.free \in Seq(Ids)
      /\ c \in Index /\ t.grefs = Len(t.free) /\ IndexOk(t, c) /\ Accounted(t.free, t.reqs, t.taken, t.rsps)
  BY TxTyped DEF TxOk, IdsOk
<1>2. /\ A \in Nat /\ C \in Nat /\ P \in Nat /\ O \in Nat /\ P <= O /\ O <= RingSize
      /\ Minus(t.req_prod, c) = P - C
  BY TxMeasures
<1>3. Len(t.rsps) <= A /\ C = A + S /\ O = C + N
  BY <1>1 DEF IndexOk
<1>4. PICK k \in 0..Len(t.reqs) : P = C + Weigh(t.reqs, k)
  BY <1>1 DEF IndexOk
<1>5. P # C
  <2>1. Plus(t.cons, P) = t.req_prod /\ Plus(t.cons, C) = c
    BY <1>1, MinusType
  <2>. HIDE DEF P, C
  <2>. QED  BY <2>1
<1>6. Len(t.reqs) \in Nat
  BY <1>1, LenProperties
<1>7. k # 0
  <2>1. Weigh(t.reqs, 0) = 0
    BY WeighTyped
  <2>. HIDE DEF P, C
  <2>. QED  BY <1>2, <1>4, <1>5, <2>1
<1>8. k \in 1..Len(t.reqs) /\ Len(t.reqs) \in 1..Len(t.reqs) /\ t.reqs # <<>>
  BY <1>1, <1>6, <1>7
<1>9. e \in Entry /\ q \in Seq(Entry) /\ Len(q) = Len(t.reqs) - 1
  BY <1>1, <1>8, TakeFirst
<1>10. h \in 1..2
  BY <1>9 DEF Entry
<1>11. e \notin t.taken /\ Accounted(t.free, q, s, t.rsps)
  BY <1>1, <1>8, AccountTake
<1>12. s \in SUBSET Entry /\ WeighSet(s) = S + h
  BY <1>1, <1>9, <1>11, WeighSetAdd
<1>13. Weigh(t.reqs, k) = h + Weigh(q, k - 1) /\ k - 1 \in 0..Len(q)
  <2>1. Weigh(t.reqs, k) = h + Weigh(q, k - 1)
    BY <1>1, <1>8, WeighTail
  <2>2. k - 1 \in 0..Len(q)
    <3>. HIDE DEF q
    <3>. QED  BY <1>6, <1>8, <1>9
  <2>. QED  BY <2>1, <2>2
<1>14. N = h + Weigh(q, Len(q))
  <2>1. N = h + Weigh(q, Len(t.reqs) - 1)
    BY <1>1, <1>8, WeighTail
  <2>. QED  BY <1>9, <2>1
<1>15. Weigh(q, k - 1) \in Nat /\ Weigh(q, Len(q)) \in Nat
  BY <1>9, <1>13, LenProperties, WeighTyped
<1>16. u \in TxRings /\ u.pvt = t.pvt /\ u.cons = t.cons /\ u.req_prod = t.req_prod
      /\ u.req_event = t.req_event /\ u.rsp_prod = t.rsp_prod /\ u.rsp_event = t.rsp_event
      /\ u.free = t.free /\ u.grefs = t.grefs /\ u.reqs = q /\ u.taken = s /\ u.rsps = t.rsps
  <2>1. u = [t EXCEPT !.reqs = q, !.taken = s]
    BY <1>1 DEF TxRings, Took
  <2>. HIDE DEF q, s
  <2>. QED  BY <1>1, <1>9, <1>12, <2>1 DEF TxRings
<1>. HIDE DEF e, q, s, A, C, P, O, S, N, h
<1>17. C + h <= RingSize + 1 /\ h \in Nat /\ h <= P - C
  <2>. DEFINE v == Weigh(q, k - 1)
  <2>1. P = C + (h + v) /\ v \in Nat
    BY <1>4, <1>13, <1>15
  <2>. HIDE DEF v
  <2>. QED  BY <1>2, <1>10, <2>1, Sizes
<1>18. d \in Index /\ Minus(d, t.cons) = C + h
  <2>1. Minus(c, t.cons) + h <= RingSize + 1
    BY <1>17 DEF C
  <2>. QED  BY <1>1, <1>17, <2>1, PlusAhead DEF C
<1>. HIDE DEF d
<1>19. IdsOk(u)
  BY <1>1, <1>11, <1>16 DEF IdsOk
<1>20. Minus(d, u.cons) = Minus(u.rsp_prod, u.cons) + WeighSet(u.taken)
  <2>1. (C + h) = A + (S + h)
    <3>1. S \in Nat
      BY <1>1, WeighSetTyped DEF S
    <3>. QED  BY <1>2, <1>3, <1>10, <3>1
  <2>. QED  BY <1>12, <1>16, <1>18, <2>1 DEF A
<1>21. Outstanding(u) = Minus(d, u.cons) + Weigh(u.reqs, Len(u.reqs)) /\ Outstanding(u) = Outstanding(t)
  <2>. DEFINE v == Weigh(q, Len(q))
  <2>1. O = (C + h) + v
    <3>1. v \in Nat /\ O = C + (h + v)
      BY <1>3, <1>14, <1>15
    <3>. HIDE DEF v
    <3>. QED  BY <1>2, <1>10, <3>1
  <2>2. Outstanding(u) = O
    BY <1>16 DEF Outstanding, O
  <2>3. Outstanding(t) = O
    BY DEF O
  <2>4. Minus(d, u.cons) = C + h /\ Weigh(u.reqs, Len(u.reqs)) = v
    BY <1>16, <1>18
  <2>. HIDE DEF v
  <2>. QED  BY <2>1, <2>2, <2>3, <2>4
<1>22. \E j \in 0..Len(u.reqs) : Minus(u.req_prod, u.cons) = Minus(d, u.cons) + Weigh(u.reqs, j)
  <2>. DEFINE v == Weigh(q, k - 1)
  <2>1. P = (C + h) + v
    <3>1. v \in Nat /\ P = C + (h + v)
      BY <1>4, <1>13, <1>15
    <3>. HIDE DEF v
    <3>. QED  BY <1>2, <1>10, <3>1
  <2>2. Minus(u.req_prod, u.cons) = Minus(d, u.cons) + Weigh(u.reqs, k - 1)
    BY <1>16, <1>18, <2>1 DEF P
  <2>. QED  BY <1>13, <1>16, <2>2
<1>23. IndexOk(u, d)
  <2>1. Len(u.rsps) <= Minus(u.rsp_prod, u.cons) /\ Outstanding(u) <= RingSize
    BY <1>2, <1>3, <1>16, <1>21 DEF A, O
  <2>. QED  BY <1>20, <1>21, <1>22, <2>1 DEF IndexOk
<1>24. TxOk(u, d)
  BY <1>16, <1>18, <1>19, <1>23 DEF TxOk
<1>. QED  BY <1>2, <1>10, <1>16, <1>17, <1>21, <1>24 DEF d, h, e

(* The back end answers a request it has taken. *)
Answered(t, e) == [t EXCEPT !.taken = @ \ {e}, !.rsps = Append(@, e.id), !.rsp_prod = Plus(@, e.slots)]

LEMMA AnswerTx ==
  ASSUME NEW t, NEW c, TxOk(t, c), NEW e \in t.taken, NEW u,
         u = Answered(t, e)
  PROVE  /\ TxOk(u, c) /\ Outstanding(u) = Outstanding(t)
         /\ u.pvt = t.pvt /\ u.cons = t.cons /\ u.req_prod = t.req_prod /\ u.req_event = t.req_event
         /\ u.rsp_prod = Plus(t.rsp_prod, e.slots) /\ u.rsp_event = t.rsp_event
         /\ e.slots \in 1..2 /\ Minus(t.rsp_prod, t.cons) + e.slots <= RingSize
<1>. DEFINE s == t.taken \ {e}  a == Append(t.rsps, e.id)  d == Plus(t.rsp_prod, e.slots)
            A == Minus(t.rsp_prod, t.cons)  C == Minus(c, t.cons)  O == Outstanding(t)
            S == WeighSet(t.taken)  h == e.slots
<1>1. /\ t \in TxRings /\ t.pvt \in Index /\ t.cons \in Index /\ t.req_prod \in Index /\ t.rsp_prod \in Index
      /\ t.reqs \in Seq(Entry) /\ t.taken \in SUBSET Entry /\ t.rsps \in Seq(Ids) /\ t.free \in Seq(Ids)
      /\ c \in Index /\ t.grefs = Len(t.free) /\ IndexOk(t, c) /\ Accounted(t.free, t.reqs, t.taken, t.rsps)
  BY TxTyped DEF TxOk, IdsOk
<1>2. /\ A \in Nat /\ C \in Nat /\ O \in Nat /\ C <= O /\ O <= RingSize
  <2>1. /\ A \in Nat /\ C \in Nat /\ O \in Nat /\ C <= Minus(t.req_prod, t.cons)
        /\ Minus(t.req_prod, t.cons) <= O /\ O <= RingSize /\ Minus(t.req_prod, t.cons) \in Nat
    BY TxMeasures
  <2>. DEFINE P == Minus(t.req_prod, t.cons)
  <2>. HIDE DEF A, C, O, P
  <2>2. C <= P /\ P <= O /\ P \in Nat
    BY <2>1 DEF P
  <2>. QED  BY <2>1, <2>2, Sizes
<1>3. Len(t.rsps) <= A /\ C = A + S
  BY <1>1 DEF IndexOk
<1>4. e \in Entry /\ h \in 1..2
  BY <1>1 DEF Entry
<1>5. S \in Nat /\ WeighSet(s) = S - h /\ s \in SUBSET Entry /\ WeighSet(s) \in Nat
  BY <1>1, WeighSetTyped, WeighSetRemove
<1>6. a \in Seq(Ids) /\ Len(a) = Len(t.rsps) + 1 /\ Accounted(t.free, t.reqs, s, a)
  BY <1>1, AccountAnswer
<1>7. Len(t.rsps) \in Nat
  BY <1>1, LenProperties
<1>8. A + h <= RingSize /\ h \in Nat /\ A + h <= RingSize + 1
  <2>. DEFINE v == WeighSet(s)
  <2>1. v = S - h /\ v \in Nat
    BY <1>5
  <2>. HIDE DEF A, C, O, S, h, v
  <2>2. A + h = C - v
    BY <1>2, <1>3, <1>4, <1>5, <2>1
  <2>. QED  BY <1>2, <1>4, <2>1, <2>2, Sizes
<1>9. d \in Index /\ Minus(d, t.cons) = A + h
  BY <1>1, <1>8, PlusAhead
<1>10. /\ u \in TxRings /\ u.pvt = t.pvt /\ u.cons = t.cons /\ u.req_prod = t.req_prod
       /\ u.req_event = t.req_event /\ u.rsp_prod = d /\ u.rsp_event = t.rsp_event
       /\ u.free = t.free /\ u.grefs = t.grefs /\ u.reqs = t.reqs /\ u.taken = s /\ u.rsps = a
  <2>1. u = [t EXCEPT !.taken = s, !.rsps = a, !.rsp_prod = d]
    BY <1>1 DEF TxRings, Answered
  <2>. HIDE DEF s, a, d
  <2>. QED  BY <1>1, <1>5, <1>6, <1>9, <2>1 DEF TxRings
<1>. HIDE DEF s, a, d, A, C, O, S, h
<1>11. IdsOk(u)
  BY <1>1, <1>6, <1>10 DEF IdsOk
<1>12. Len(a) <= A + h
  BY <1>2, <1>3, <1>4, <1>6, <1>7
<1>13. C = (A + h) + WeighSet(s)
  BY <1>2, <1>3, <1>4, <1>5
<1>14. Outstanding(u) = Outstanding(t)
  BY <1>10 DEF Outstanding
<1>15. Len(u.rsps) <= Minus(u.rsp_prod, u.cons) /\ Minus(c, u.cons) = Minus(u.rsp_prod, u.cons) + WeighSet(u.taken)
  BY <1>9, <1>10, <1>12, <1>13 DEF C
<1>16. IndexOk(u, c)
  BY <1>1, <1>10, <1>14, <1>15 DEF IndexOk
<1>17. TxOk(u, c)
  BY <1>1, <1>10, <1>11, <1>16 DEF TxOk
<1>. QED  BY <1>4, <1>8, <1>10, <1>14, <1>17 DEF d, h, A

(* network_tx_buf_gc takes every answer there is. *)
LEMMA ReclaimTx ==
  ASSUME NEW t, NEW c, TxOk(t, c), NEW u, u = Reclaim(t)
  PROVE  /\ TxOk(u, c) /\ Outstanding(u) = Outstanding(t) - Minus(t.rsp_prod, t.cons)
         /\ u.pvt = t.pvt /\ u.cons = t.rsp_prod /\ u.req_prod = t.req_prod /\ u.req_event = t.req_event
         /\ u.rsp_prod = t.rsp_prod /\ u.rsp_event = t.rsp_event
<1>. DEFINE A == Minus(t.rsp_prod, t.cons)  C == Minus(c, t.cons)  O == Outstanding(t)
            P == Minus(t.req_prod, t.cons)  f == Reverse(t.rsps) \o t.free
            S == WeighSet(t.taken)  N == Weigh(t.reqs, Len(t.reqs))
<1>1. /\ t \in TxRings /\ t.pvt \in Index /\ t.cons \in Index /\ t.req_prod \in Index /\ t.rsp_prod \in Index
      /\ t.reqs \in Seq(Entry) /\ t.taken \in SUBSET Entry /\ t.rsps \in Seq(Ids) /\ t.free \in Seq(Ids)
      /\ c \in Index /\ t.grefs = Len(t.free) /\ IndexOk(t, c) /\ Accounted(t.free, t.reqs, t.taken, t.rsps)
  BY TxTyped DEF TxOk, IdsOk
<1>2. /\ A \in Nat /\ C \in Nat /\ P \in Nat /\ O \in Nat /\ A <= C /\ C <= P /\ P <= O /\ O <= RingSize
  BY TxMeasures
<1>3. C = A + S /\ O = C + N
  BY <1>1 DEF IndexOk
<1>4. PICK k \in 0..Len(t.reqs) : P = C + Weigh(t.reqs, k)
  BY <1>1 DEF IndexOk
<1>5. S \in Nat /\ N \in Nat /\ Weigh(t.reqs, k) \in Nat
  <2>1. Len(t.reqs) \in Nat /\ k \in Nat
    BY <1>1, LenProperties
  <2>. QED  BY <1>1, <2>1, WeighSetTyped, WeighTyped
<1>6. /\ f \in Seq(Ids) /\ Len(f) = Len(t.rsps) + Len(t.free)
      /\ Accounted(f, t.reqs, t.taken, <<>>)
  BY <1>1, AccountReclaim
<1>7. /\ Minus(t.pvt, t.rsp_prod) = O - A /\ Minus(c, t.rsp_prod) = C - A
      /\ Minus(t.req_prod, t.rsp_prod) = P - A /\ Minus(t.rsp_prod, t.rsp_prod) = 0
  <2>1. A <= O /\ A <= P
    <3>. HIDE DEF A, C, O, P
    <3>. QED  BY <1>2
  <2>2. Minus(t.pvt, t.rsp_prod) = O - A
    BY <1>1, <2>1, MinusMinus DEF Outstanding
  <2>3. Minus(c, t.rsp_prod) = C - A
    BY <1>1, <1>2, MinusMinus
  <2>4. Minus(t.req_prod, t.rsp_prod) = P - A
    BY <1>1, <2>1, MinusMinus
  <2>. QED  BY <1>1, <2>2, <2>3, <2>4, MinusSelf
<1>8. /\ u \in TxRings /\ u.pvt = t.pvt /\ u.cons = t.rsp_prod /\ u.req_prod = t.req_prod
       /\ u.req_event = t.req_event /\ u.rsp_prod = t.rsp_prod /\ u.rsp_event = t.rsp_event
       /\ u.free = f /\ u.grefs = t.grefs + Len(t.rsps) /\ u.reqs = t.reqs /\ u.taken = t.taken /\ u.rsps = <<>>
  <2>1. u = [t EXCEPT !.free = f, !.grefs = t.grefs + Len(t.rsps), !.rsps = <<>>, !.cons = t.rsp_prod]
    BY <1>1 DEF TxRings, Reclaim
  <2>2. t.grefs + Len(t.rsps) \in Nat /\ <<>> \in Seq(Ids)
    <3>1. Len(t.rsps) \in Nat /\ t.grefs \in Nat
      BY <1>1, LenProperties, TxTyped
    <3>2. <<>> \in Seq(Ids)
      OBVIOUS
    <3>. QED  BY <3>1, <3>2
  <2>. HIDE DEF f
  <2>. QED  BY <1>1, <1>6, <2>1, <2>2 DEF TxRings
<1>. HIDE DEF f, A, C, O, P, S, N
<1>9. IdsOk(u)
  <2>1. Len(t.rsps) \in Nat /\ Len(t.free) \in Nat
    BY <1>1, LenProperties
  <2>. DEFINE y == Len(t.rsps)  g == Len(t.free)
  <2>2. y \in Nat /\ g \in Nat /\ Len(f) = y + g /\ u.grefs = g + y
    BY <1>1, <1>6, <1>8, <2>1
  <2>. HIDE DEF y, g
  <2>3. u.grefs = Len(f)
    BY <2>2
  <2>. QED  BY <1>6, <1>8, <2>3 DEF IdsOk
<1>10. Outstanding(u) = O - A
  BY <1>7, <1>8 DEF Outstanding
<1>11. C - A = 0 + S /\ O - A = (C - A) + N /\ P - A = (C - A) + Weigh(t.reqs, k) /\ O - A <= RingSize
  <2>. DEFINE v == Weigh(t.reqs, k)
  <2>1. P = C + v /\ v \in Nat
    BY <1>4, <1>5
  <2>. HIDE DEF v
  <2>2. C - A = 0 + S /\ O - A = (C - A) + N /\ P - A = (C - A) + v /\ O - A <= RingSize
    BY <1>2, <1>3, <1>5, <2>1, Sizes
  <2>. QED  BY <2>2 DEF v
<1>12. /\ Minus(c, u.cons) = Minus(u.rsp_prod, u.cons) + WeighSet(u.taken)
       /\ Outstanding(u) = Minus(c, u.cons) + Weigh(u.reqs, Len(u.reqs))
       /\ Minus(u.req_prod, u.cons) = Minus(c, u.cons) + Weigh(u.reqs, k) /\ k \in 0..Len(u.reqs)
       /\ Outstanding(u) <= RingSize
  BY <1>7, <1>8, <1>10, <1>11 DEF S, N
<1>13. Len(u.rsps) <= Minus(u.rsp_prod, u.cons)
  <2>1. Len(<<>>) = 0 /\ 0 <= 0
    OBVIOUS
  <2>. QED  BY <1>7, <1>8, <2>1
<1>14. IndexOk(u, c)
  BY <1>12, <1>13 DEF IndexOk
<1>15. TxOk(u, c)
  BY <1>1, <1>8, <1>9, <1>14 DEF TxOk
<1>. QED  BY <1>8, <1>10, <1>15 DEF O, A

(* netif_release_tx_bufs: one by one, every id that is not free is freed.  *)
ReleaseStep(free) ==
    [p \in Seq(Ids) \X Ids |-> IF p[2] \in ToSet(free) THEN p[1] ELSE <<p[2]>> \o p[1]]
Released(free, i) ==
    {s \in Seq(Ids) : /\ ToSet(s) = ToSet(free) \cup (1..i)
                      /\ Len(s) = Len(free) + Cardinality((1..i) \ ToSet(free))}

LEMMA ReleaseKeeps ==
  ASSUME NEW free \in Seq(Ids), NEW i \in Ids, NEW s \in Released(free, i - 1)
  PROVE  ReleaseStep(free)[<<s, i>>] \in Released(free, i)
<1>. DEFINE F == ToSet(free)
<1>1. s \in Seq(Ids) /\ ToSet(s) = F \cup (1..i - 1) /\ Len(s) = Len(free) + Cardinality((1..i - 1) \ F)
  BY DEF Released
<1>2. i \in Nat \ {0} /\ 1..i = (1..i - 1) \cup {i} /\ i \notin 1..i - 1
  BY DEF Ids
<1>3. ReleaseStep(free)[<<s, i>>] = IF i \in F THEN s ELSE <<i>> \o s
  BY <1>1 DEF ReleaseStep
<1>. HIDE DEF F
<1>4. CASE i \in F
  <2>1. (1..i) \ F = (1..i - 1) \ F /\ F \cup (1..i) = F \cup (1..i - 1)
    BY <1>2, <1>4
  <2>2. s \in Released(free, i)
    BY <1>1, <2>1 DEF Released, F
  <2>. QED  BY <1>3, <1>4, <2>2
<1>5. CASE i \notin F
  <2>. DEFINE a == <<i>>  u == a \o s
  <2>1. a \in Seq(Ids) /\ Len(a) = 1 /\ a[1] = i /\ 1..1 = {1}
    OBVIOUS
  <2>2. ToSet(a) = {i}
    <3>1. ToSet(a) = {a[k] : k \in 1..Len(a)}
      BY <2>1, Members
    <3>. HIDE DEF a
    <3>. QED  BY <2>1, <3>1
  <2>. HIDE DEF a
  <2>3. u \in Seq(Ids) /\ Len(u) = 1 + Len(s) /\ ToSet(u) = {i} \cup ToSet(s)
    <3>1. u \in Seq(Ids) /\ Len(u) = Len(a) + Len(s) /\ ToSet(u) = ToSet(a) \cup ToSet(s)
      <4>1. \A b \in Seq(Ids) : /\ b \o s \in Seq(Ids) /\ Len(b \o s) = Len(b) + Len(s)
                                /\ ToSet(b \o s) = ToSet(b) \cup ToSet(s)
        BY <1>1, MembersConcat
      <4>. QED  BY <2>1, <4>1, Zenon
    <3>. QED  BY <2>1, <2>2, <3>1
  <2>4. (1..i) \ F = ((1..i - 1) \ F) \cup {i} /\ F \cup (1..i) = {i} \cup (F \cup (1..i - 1))
    BY <1>2, <1>5
  <2>5. Cardinality((1..i) \ F) = Cardinality((1..i - 1) \ F) + 1 /\ Cardinality((1..i - 1) \ F) \in Nat
    <3>1. IsFiniteSet(1..i - 1)
      BY <1>2, UpToCount
    <3>2. IsFiniteSet((1..i - 1) \ F)
      BY <3>1, FS_Difference
    <3>3. i \notin (1..i - 1) \ F
      BY <1>2
    <3>. QED  BY <2>4, <3>2, <3>3, FS_AddElement, FS_CardinalityType
  <2>6. Len(free) \in Nat
    BY LenProperties
  <2>7. Len(u) = Len(free) + Cardinality((1..i) \ F)
    <3>. DEFINE x == Cardinality((1..i - 1) \ F)  y == Len(free)
    <3>1. x \in Nat /\ y \in Nat /\ Len(s) = y + x /\ Cardinality((1..i) \ F) = x + 1
      BY <1>1, <2>5, <2>6
    <3>. HIDE DEF x, y
    <3>2. 1 + (y + x) = y + (x + 1)
      BY <3>1
    <3>. QED  BY <2>3, <3>1, <3>2 DEF y
  <2>8. ToSet(u) = F \cup (1..i)
    BY <1>1, <2>3, <2>4
  <2>. HIDE DEF u
  <2>9. u \in Released(free, i)
    BY <2>3, <2>7, <2>8 DEF Released, F
  <2>. QED  BY <1>3, <1>5, <2>9 DEF u, a
<1>. QED  BY <1>4, <1>5

LEMMA ReleaseFree ==
  ASSUME NEW free \in Seq(Ids),
         NEW f, f = CHOOSE g : g = [i \in 0..RingSize |->
                                      IF i = 0 THEN free
                                      ELSE IF i \in ToSet(free) THEN g[i - 1] ELSE <<i>> \o g[i - 1]]
  PROVE  f[RingSize] \in Released(free, RingSize)
<1>. DEFINE m == RingSize  S == Seq(Ids)  N == ReleaseStep(free)
            I == [i \in 0..m |-> Released(free, i)]
<1>1. m \in Nat /\ 1..m = Ids /\ m \in 0..m
  BY Constants DEF Ids
<1>2. I \in [0..m -> SUBSET S]
  BY DEF Released
<1>3. free \in I[0]
  <2>1. 1..0 = {} /\ 0 \in 0..m
    BY <1>1
  <2>2. (1..0) \ ToSet(free) = {} /\ Cardinality({}) = 0 /\ Len(free) \in Nat
    BY <2>1, FS_EmptySet, LenProperties
  <2>3. free \in Released(free, 0)
    BY <2>1, <2>2 DEF Released
  <2>. QED  BY <2>1, <2>3
<1>4. \A i \in 1..m : i - 1 \in 0..m /\ i \in 0..m /\ i # 0
  BY <1>1
<1>5. \A i \in 1..m : \A x \in I[i - 1] : N[<<x, i>>] \in I[i]
  BY <1>1, <1>4, ReleaseKeeps
<1>6. \E g \in [0..m -> S] : Runs(g, m, free, N, I)
  <2>. HIDE DEF I, N, m, S
  <2>. QED  BY <1>1, <1>2, <1>3, <1>5, LoopRuns
<1>. PICK g \in [0..m -> S] : Runs(g, m, free, N, I)
  BY <1>6
<1>7. \A x \in S : \A i \in 1..m : N[<<x, i>>] = IF i \in ToSet(free) THEN x ELSE <<i>> \o x
  BY <1>1 DEF ReleaseStep
<1>. DEFINE R(h) == [i \in 0..m |-> IF i = 0 THEN free
                                    ELSE IF i \in ToSet(free) THEN h[i - 1] ELSE <<i>> \o h[i - 1]]
<1>8. g = R(g)
  <2>1. ASSUME NEW i \in 0..m PROVE g[i] = R(g)[i]
    <3>1. CASE i = 0
      BY <3>1 DEF Runs
    <3>2. CASE i # 0
      <4>1. i \in 1..m /\ g[i - 1] \in S
        BY <1>1, <1>4, <3>2
      <4>2. g[i] = N[<<g[i - 1], i>>]
        BY <4>1 DEF Runs
      <4>. QED  BY <1>7, <3>2, <4>1, <4>2
    <3>. QED  BY <3>1, <3>2
  <2>. QED  BY <2>1
<1>9. f = R(f)
  <2>1. \E h : h = R(h)
    BY <1>8
  <2>2. f = CHOOSE h : h = R(h)
    OBVIOUS
  <2>. HIDE DEF R
  <2>. QED  BY <2>1, <2>2
<1>10. f[0] = free
  <2>1. R(f)[0] = free
    BY <1>1
  <2>. HIDE DEF R
  <2>. QED  BY Zenon, <1>9, <2>1
<1>11. ASSUME NEW i \in 1..m, f[i - 1] \in S PROVE f[i] = N[<<f[i - 1], i>>]
  <2>1. R(f)[i] = IF i \in ToSet(free) THEN f[i - 1] ELSE <<i>> \o f[i - 1]
    BY <1>4
  <2>2. f[i] = R(f)[i]
    <3>. HIDE DEF R
    <3>. QED  BY <1>9
  <2>. QED  BY Zenon, <1>7, <1>11, <2>1, <2>2
<1>12. Follows(f, m, S, free, N)
  BY <1>10, <1>11 DEF Follows
<1>13. Reaches(f, m, I)
  <2>. HIDE DEF I, N, m, S, R
  <2>. QED  BY <1>1, <1>12, LoopUnique
<1>. QED  BY <1>1, <1>13 DEF Reaches

LEMMA ReleaseTx ==
  ASSUME NEW t, NEW c, TxOk(t, c), NEW u,
         u = [ReleaseTxBufs(t) EXCEPT !.rsp_event = TxEvent(ReleaseTxBufs(t), ReleaseTxBufs(t).rsp_prod)]
  PROVE  /\ TxOk(u, First) /\ Outstanding(u) = 0
         /\ u.pvt = First /\ u.cons = First /\ u.req_prod = First /\ u.rsp_prod = First
         /\ u.req_event = Plus(First, 1) /\ u.rsp_event = Plus(First, 1)
         /\ u.reqs = <<>> /\ u.taken = {} /\ u.rsps = <<>>
<1>. DEFINE f == CHOOSE g : g = [i \in 0..RingSize |->
                                      IF i = 0 THEN t.free
                                      ELSE IF i \in ToSet(t.free) THEN g[i - 1] ELSE <<i>> \o g[i - 1]]
            v == f[RingSize]
            n == t.grefs + Cardinality(Ids \ ToSet(t.free))
            r == ReleaseTxBufs(t)
<1>1. /\ t \in TxRings /\ t.free \in Seq(Ids) /\ t.reqs \in Seq(Entry) /\ t.taken \in SUBSET Entry
      /\ t.rsps \in Seq(Ids) /\ t.grefs \in Nat
      /\ t.grefs = Len(t.free) /\ Accounted(t.free, t.reqs, t.taken, t.rsps)
  BY TxTyped DEF TxOk, IdsOk
<1>2. r = [NewRing(t) EXCEPT !.free = v, !.grefs = @ + Cardinality(Ids \ ToSet(t.free)),
                             !.reqs = <<>>, !.taken = {}, !.rsps = <<>>]
  BY DEF ReleaseTxBufs
<1>3. v \in Released(t.free, RingSize)
  <2>. HIDE DEF f
  <2>1. f = CHOOSE g : g = [i \in 0..RingSize |->
                                      IF i = 0 THEN t.free
                                      ELSE IF i \in ToSet(t.free) THEN g[i - 1] ELSE <<i>> \o g[i - 1]]
    BY DEF f
  <2>. QED  BY <1>1, <2>1, ReleaseFree
<1>. HIDE DEF v
<1>4. v \in Seq(Ids) /\ ToSet(v) = Ids /\ Len(v) = RingSize /\ n = RingSize
  <2>1. ToSet(t.free) \subseteq Ids /\ Len(t.free) \in Nat
    BY <1>1, Members
  <2>2. Cardinality(ToSet(t.free)) = Len(t.free)
    BY <1>1, OwnedOnce
  <2>3. Cardinality(Ids \ ToSet(t.free)) = RingSize - Len(t.free)
    <3>1. /\ IsFiniteSet(Ids) /\ IsFiniteSet(ToSet(t.free))
      BY <1>1, IdsCount, Members
    <3>2. Cardinality(Ids \ ToSet(t.free)) = Cardinality(Ids) - Cardinality(Ids \cap ToSet(t.free))
      BY <3>1, FS_Difference
    <3>3. Ids \cap ToSet(t.free) = ToSet(t.free)
      BY <2>1
    <3>. QED  BY <2>2, <3>2, <3>3, IdsCount
  <2>4. v \in Seq(Ids) /\ ToSet(v) = ToSet(t.free) \cup Ids /\ Len(v) = Len(t.free) + Cardinality(Ids \ ToSet(t.free))
    BY <1>3 DEF Released, Ids
  <2>5. Len(t.free) + (RingSize - Len(t.free)) = RingSize
    BY <2>1, Sizes
  <2>. QED  BY <1>1, <2>1, <2>3, <2>4, <2>5
<1>5. /\ First \in Index /\ Plus(First, 1) \in Index /\ RingSize \in Nat /\ 1 \in 0..RingSize + 1
  BY Constants, PlusType
<1>. DEFINE w == [t EXCEPT !.pvt = First, !.cons = First, !.req_prod = First, !.req_event = Plus(First, 1),
                           !.rsp_prod = First, !.rsp_event = Plus(First, 1),
                           !.free = v, !.grefs = n, !.reqs = <<>>, !.taken = {}, !.rsps = <<>>]
<1>6. r = w
  BY <1>1, <1>2 DEF TxRings, NewRing
<1>7. TxEvent(r, r.rsp_prod) = Plus(First, 1)
  <2>1. r.rsp_prod = First /\ r.req_prod = First
    BY <1>1, <1>6 DEF TxRings
  <2>2. Minus(First, First) = 0 /\ 0 \div 2 + 1 = 1
    BY <1>5, MinusSelf
  <2>. QED  BY <2>1, <2>2 DEF TxEvent
<1>8. /\ u \in TxRings
      /\ u.pvt = First /\ u.cons = First /\ u.req_prod = First /\ u.rsp_prod = First
      /\ u.req_event = Plus(First, 1) /\ u.rsp_event = Plus(First, 1)
      /\ u.free = v /\ u.grefs = RingSize /\ u.reqs = <<>> /\ u.taken = {} /\ u.rsps = <<>>
  <2>1. u = [r EXCEPT !.rsp_event = Plus(First, 1)]
    BY <1>7
  <2>2. r \in TxRings
    <3>1. <<>> \in Seq(Ids) /\ <<>> \in Seq(Entry)
      OBVIOUS
    <3>. HIDE DEF r, n
    <3>. QED  BY <1>1, <1>4, <1>5, <1>6, <3>1 DEF TxRings
  <2>3. /\ r.pvt = First /\ r.cons = First /\ r.req_prod = First /\ r.rsp_prod = First
        /\ r.req_event = Plus(First, 1)
        /\ r.free = v /\ r.grefs = RingSize /\ r.reqs = <<>> /\ r.taken = {} /\ r.rsps = <<>>
    <3>. HIDE DEF r, n
    <3>. QED  BY <1>1, <1>4, <1>6 DEF TxRings
  <2>. HIDE DEF r
  <2>. QED  BY <1>5, <2>1, <2>2, <2>3 DEF TxRings
<1>9. Len(<<>>) = 0 /\ WeighSet({}) = 0 /\ Cardinality({}) = 0 /\ Weigh(<<>>, 0) = 0 /\ ToSet(<<>>) = {}
      /\ ReqIds(<<>>) = {} /\ TakenIds({}) = {}
  <2>1. Len(<<>>) = 0 /\ 1..0 = {}
    OBVIOUS
  <2>2. ReqIds(<<>>) = {}
    BY <2>1 DEF ReqIds
  <2>3. TakenIds({}) = {}
    BY DEF TakenIds
  <2>. QED  BY <2>1, <2>2, <2>3, WeighSetNone, WeighTyped, MembersNone
<1>10. IdsOk(u)
  <2>1. Owned(v, <<>>, {}, <<>>) = Ids
    BY <1>4, <1>9 DEF Owned
  <2>2. Len(v) + Len(<<>>) + Cardinality({}) + Len(<<>>) = RingSize
    BY <1>4, <1>5, <1>9
  <2>. QED  BY <1>4, <1>8, <2>1, <2>2 DEF IdsOk, Accounted
<1>11. Minus(First, First) = 0
  BY <1>5, MinusSelf
<1>12. Outstanding(u) = 0
  BY <1>8, <1>11 DEF Outstanding
<1>13. IndexOk(u, First)
  <2>1. 0 \in 0..0 /\ 0 + 0 = 0 /\ 0 <= 0 /\ 0 <= RingSize
    BY <1>5
  <2>2. \E k \in 0..Len(u.reqs) : Minus(u.req_prod, u.cons) = Minus(First, u.cons) + Weigh(u.reqs, k)
    BY <1>8, <1>9, <1>11, <2>1
  <2>. QED  BY <1>8, <1>9, <1>11, <1>12, <2>1, <2>2 DEF IndexOk
<1>. QED  BY <1>5, <1>8, <1>10, <1>12, <1>13 DEF TxOk

--------------------------------------------------------------------------------
(* What each step does to the receive ring. *)
LEMMA RxTyped ==
  ASSUME NEW r \in RxRings
  PROVE  /\ r.pvt \in Index /\ r.cons \in Index /\ r.req_prod \in Index /\ r.req_event \in Index
         /\ r.rsp_prod \in Index /\ r.rsp_event \in Index /\ r.skbs \in SUBSET (0..RingSize - 1)
         /\ r.grefs \in Nat /\ r.batch \in Nat /\ r.target \in MinTarget..MaxTarget
         /\ r.rsps \in Seq(Messages)
  BY DEF RxRings

(* How long packets are. *)
LEMMA EndsGrow ==
  ASSUME NEW s \in Seq(Messages), NEW ends \in [0..Len(s) -> Nat], Ends(s, ends), NEW i \in 0..Len(s)
  PROVE  ends[i] <= ends[Len(s)]
<1>1. Len(s) \in Nat
  BY LenProperties
<1>. DEFINE T == {n \in 0..Len(s) : \A j \in 0..n : ends[j] <= ends[n]}
<1>2. 0 \in T
  <2>1. 0 \in 0..Len(s) /\ ends[0] \in Nat
    BY <1>1
  <2>2. \A j \in 0..0 : j = 0
    OBVIOUS
  <2>. QED  BY <2>1, <2>2
<1>3. ASSUME NEW n \in 1..Len(s), n - 1 \in T PROVE n \in T
  <2>1. n \in 0..Len(s) /\ n - 1 \in 0..Len(s)
    BY <1>1
  <2>2. ends[n] = ends[n - 1] + Slots(s[n]) /\ Slots(s[n]) \in Nat /\ ends[n] \in Nat /\ ends[n - 1] \in Nat
    <3>1. s[n] \in Messages
      BY ElementOfSeq, <1>1
    <3>2. Slots(s[n]) \in Nat
      BY <3>1, SlotsTyped, Sizes
    <3>. QED  BY <2>1, <3>2 DEF Ends
  <2>3. ASSUME NEW j \in 0..n PROVE ends[j] <= ends[n]
    <3>1. CASE j = n
      BY <2>2, <3>1
    <3>2. CASE j # n
      <4>1. j \in 0..n - 1 /\ j \in 0..Len(s)
        BY <1>1, <3>2
      <4>2. ends[j] <= ends[n - 1] /\ ends[j] \in Nat
        BY <1>3, <4>1
      <4>. QED  BY <2>2, <4>2
    <3>. QED  BY <3>1, <3>2
  <2>. QED  BY <2>1, <2>3
<1>4. \A n \in 0..Len(s) : n \in T
  <2>. HIDE DEF T
  <2>. QED  BY <1>1, <1>2, <1>3, UpTo
<1>. QED  BY <1>1, <1>4

(* With the last k packets left, or with one more. *)
LEMMA StackedRest ==
  ASSUME NEW s \in Seq(Messages), NEW ends \in [0..Len(s) -> Nat], Ends(s, ends), NEW k \in 0..Len(s)
  PROVE  /\ SubSeq(s, k + 1, Len(s)) \in Seq(Messages)
         /\ Stacked(SubSeq(s, k + 1, Len(s)), ends[Len(s)] - ends[k])
<1>. DEFINE u == SubSeq(s, k + 1, Len(s))
            es == [i \in 0..Len(u) |-> ends[k + i] - ends[k]]
<1>1. Len(s) \in Nat
  BY LenProperties
<1>2. u \in Seq(Messages) /\ Len(u) = Len(s) - k /\ \A i \in 1..Len(s) - k : u[i] = s[k + i]
  BY MembersSplit
<1>. HIDE DEF u
<1>3. \A i \in 0..Len(u) : k + i \in 0..Len(s) /\ ends[k + i] \in Nat
  BY <1>1, <1>2
<1>4. ends[k] \in Nat
  OBVIOUS
<1>5. \A i \in 0..Len(u) : ends[k] <= ends[k + i]
  <2>1. SUFFICES ASSUME NEW i \in 0..Len(u) PROVE ends[k] <= ends[k + i]
    OBVIOUS
  <2>. DEFINE n == k + i  v == SubSeq(s, 1, n)  ev == [j \in 0..n |-> ends[j]]
  <2>2. n \in 0..Len(s) /\ n \in Nat /\ k \in 0..n
    BY <1>1, <1>3
  <2>3. v \in Seq(Messages) /\ Len(v) = n /\ \A j \in 1..n : v[j] = s[j]
    BY <2>2, MembersSplit
  <2>. HIDE DEF n, v
  <2>4. \A j \in 0..n : j \in 0..Len(s)
    BY <1>1, <2>2
  <2>5. ev \in [0..Len(v) -> Nat]
    BY <2>3, <2>4
  <2>6. Ends(v, ev)
    <3>1. \A j \in 1..n : j \in 0..n /\ j - 1 \in 0..n /\ j \in 1..Len(s)
      BY <1>1, <2>2
    <3>2. ev[0] = 0 /\ 0 \in 0..n
      BY <2>2 DEF Ends
    <3>3. \A j \in 1..n : ev[j] = ev[j - 1] + Slots(v[j])
      BY <2>3, <3>1 DEF Ends
    <3>. QED  BY <2>3, <3>2, <3>3 DEF Ends
  <2>7. ev[k] = ends[k] /\ ev[n] = ends[n]
    BY <2>2
  <2>. HIDE DEF ev
  <2>8. ev[k] <= ev[n]
    BY <2>2, <2>3, <2>5, <2>6, EndsGrow
  <2>. QED  BY <2>7, <2>8 DEF n
<1>6. es \in [0..Len(u) -> Nat]
  BY <1>3, <1>4, <1>5
<1>7. Len(u) \in Nat /\ 0 \in 0..Len(u) /\ Len(u) \in 0..Len(u) /\ k + Len(u) = Len(s) /\ k + 0 = k
  BY <1>1, <1>2
<1>8. es[0] = 0 /\ es[Len(u)] = ends[Len(s)] - ends[k]
  BY <1>4, <1>7
<1>9. ASSUME NEW i \in 1..Len(u) PROVE es[i] = es[i - 1] + Slots(u[i])
  <2>1. /\ k + i \in 1..Len(s) /\ (k + i) - 1 = k + (i - 1) /\ i \in 0..Len(u) /\ i - 1 \in 0..Len(u)
        /\ i \in 1..Len(s) - k
    BY <1>1, <1>2, <1>7
  <2>2. ends[k + i] = ends[k + (i - 1)] + Slots(s[k + i])
    BY <2>1 DEF Ends
  <2>3. es[i] = ends[k + i] - ends[k] /\ es[i - 1] = ends[k + (i - 1)] - ends[k]
    BY <2>1
  <2>4. ends[k + (i - 1)] \in Nat /\ Slots(s[k + i]) \in Nat
    <3>1. s[k + i] \in Messages
      BY <2>1, <1>1, ElementOfSeq
    <3>2. Slots(s[k + i]) \in Nat
      BY <3>1, SlotsTyped, Sizes
    <3>3. ends[k + (i - 1)] \in Nat
      BY <1>3, <2>1
    <3>. QED  BY <3>2, <3>3
  <2>5. u[i] = s[k + i]
    BY <1>2, <2>1
  <2>. DEFINE x == ends[k + (i - 1)]  y == Slots(s[k + i])  z == ends[k]
  <2>6. x \in Nat /\ y \in Nat /\ z \in Nat /\ es[i] = (x + y) - z /\ es[i - 1] = x - z
    BY <1>4, <2>2, <2>3, <2>4
  <2>. HIDE DEF x, y, z, es
  <2>7. es[i] = es[i - 1] + y
    BY <2>6
  <2>. QED  BY <2>5, <2>7 DEF y
<1>. HIDE DEF es
<1>10. Ends(u, es)
  BY <1>8, <1>9 DEF Ends
<1>11. Stacked(u, ends[Len(s)] - ends[k])
  BY <1>6, <1>8, <1>10 DEF Stacked
<1>. QED  BY <1>2, <1>11 DEF u

LEMMA StackedMore ==
  ASSUME NEW s \in Seq(Messages), NEW n \in Nat, Stacked(s, n), NEW m \in Messages
  PROVE  Append(s, m) \in Seq(Messages) /\ Stacked(Append(s, m), n + Slots(m))
<1>. DEFINE u == Append(s, m)
<1>1. PICK ends \in [0..Len(s) -> Nat] : Ends(s, ends) /\ ends[Len(s)] = n
  BY DEF Stacked
<1>2. Len(s) \in Nat /\ u \in Seq(Messages) /\ Len(u) = Len(s) + 1 /\ u[Len(s) + 1] = m
      /\ \A i \in 1..Len(s) : u[i] = s[i]
  BY AppendProperties, LenProperties
<1>. HIDE DEF u
<1>3. Slots(m) \in Nat
  BY SlotsTyped, Sizes
<1>. DEFINE es == [i \in 0..Len(u) |-> IF i = Len(u) THEN n + Slots(m) ELSE ends[i]]
<1>4. \A i \in 0..Len(u) : i # Len(u) => i \in 0..Len(s)
  BY <1>2
<1>5. es \in [0..Len(u) -> Nat]
  BY <1>3, <1>4
<1>6. es[Len(u)] = n + Slots(m) /\ es[0] = 0
  BY <1>1, <1>2 DEF Ends
<1>7. ASSUME NEW i \in 1..Len(u) PROVE es[i] = es[i - 1] + Slots(u[i])
  <2>1. i \in 0..Len(u) /\ i - 1 \in 0..Len(u) /\ i - 1 # Len(u)
    BY <1>2
  <2>2. CASE i = Len(u)
    <3>1. i - 1 = Len(s) /\ u[i] = m
      BY <1>2, <2>2
    <3>. QED  BY <1>1, <2>1, <2>2, <3>1
  <2>3. CASE i # Len(u)
    <3>1. i \in 1..Len(s)
      BY <1>2, <2>3
    <3>2. ends[i] = ends[i - 1] + Slots(s[i]) /\ u[i] = s[i]
      BY <1>1, <1>2, <3>1 DEF Ends
    <3>. QED  BY <2>1, <2>3, <3>2
  <2>. QED  BY <2>2, <2>3
<1>. HIDE DEF es
<1>8. Ends(u, es)
  BY <1>6, <1>7 DEF Ends
<1>. QED  BY <1>2, <1>5, <1>6, <1>8 DEF Stacked, u

LEMMA StackedNone == Stacked(<<>>, 0)
<1>. DEFINE es == [i \in 0..0 |-> 0]
<1>1. Len(<<>>) = 0 /\ 1..0 = {} /\ 0 \in 0..0
  OBVIOUS
<1>2. es \in [0..Len(<<>>) -> Nat] /\ es[0] = 0
  BY <1>1
<1>. HIDE DEF es
<1>. QED  BY <1>1, <1>2 DEF Stacked, Ends

LEMMA RxMeasures ==
  ASSUME NEW r, RxOk(r)
  PROVE  /\ Minus(r.rsp_prod, r.cons) \in Nat /\ Minus(r.req_prod, r.cons) \in Nat /\ Outstanding(r) \in 0..RingSize
         /\ Minus(r.rsp_prod, r.cons) <= Minus(r.req_prod, r.cons)
         /\ Minus(r.req_prod, r.cons) <= Outstanding(r)
         /\ Minus(r.pvt, r.req_prod) = Outstanding(r) - Minus(r.req_prod, r.cons)
         /\ Minus(r.req_prod, r.rsp_prod) = Minus(r.req_prod, r.cons) - Minus(r.rsp_prod, r.cons)
<1>. DEFINE A == Minus(r.rsp_prod, r.cons)  P == Minus(r.req_prod, r.cons)  O == Minus(r.pvt, r.cons)
<1>1. /\ r \in RxRings /\ r.pvt \in Index /\ r.cons \in Index /\ r.req_prod \in Index /\ r.rsp_prod \in Index
      /\ r.grefs \in Nat /\ r.grefs + Outstanding(r) = RingSize
  BY RxTyped DEF RxOk, BuffersOk
<1>2. A \in Nat /\ P \in Nat /\ O \in Nat /\ Outstanding(r) = O
  BY <1>1, MinusType DEF Outstanding
<1>3. A <= P /\ P <= O
  BY DEF RxOk, OrderOk, Outstanding
<1>4. O \in 0..RingSize
  <2>. HIDE DEF O
  <2>. QED  BY <1>1, <1>2, Sizes
<1>5. Minus(r.pvt, r.req_prod) = O - P
  BY <1>1, <1>3, MinusMinus
<1>6. Minus(r.req_prod, r.rsp_prod) = P - A
  BY <1>1, <1>3, MinusMinus
<1>. QED  BY <1>2, <1>3, <1>4, <1>5, <1>6

(* What does not move the private indices, nor the packets. *)
LEMMA SameRx ==
  ASSUME NEW r, RxOk(r), NEW u \in RxRings,
         u.pvt = r.pvt, u.cons = r.cons, u.req_prod = r.req_prod, u.rsp_prod = r.rsp_prod,
         u.skbs = r.skbs, u.grefs = r.grefs, u.batch = r.batch, u.rsps = r.rsps
  PROVE  RxOk(u) /\ Outstanding(u) = Outstanding(r)
  BY DEF RxOk, BuffersOk, OrderOk, Outstanding

LEMMA EventRx ==
  ASSUME NEW r, RxOk(r), NEW e \in Index, NEW u,
         u = [r EXCEPT !.rsp_event = e] \/ u = [r EXCEPT !.req_event = e]
  PROVE  /\ RxOk(u) /\ Outstanding(u) = Outstanding(r)
         /\ u.pvt = r.pvt /\ u.cons = r.cons /\ u.req_prod = r.req_prod /\ u.rsp_prod = r.rsp_prod
         /\ u = [r EXCEPT !.rsp_event = e] => u.rsp_event = e /\ u.req_event = r.req_event
         /\ u = [r EXCEPT !.req_event = e] => u.req_event = e /\ u.rsp_event = r.rsp_event
         /\ u.rsps = r.rsps
<1>1. r \in RxRings
  BY DEF RxOk
<1>2. /\ u \in RxRings /\ u.pvt = r.pvt /\ u.cons = r.cons /\ u.req_prod = r.req_prod
      /\ u.rsp_prod = r.rsp_prod /\ u.skbs = r.skbs /\ u.grefs = r.grefs /\ u.batch = r.batch
      /\ u.rsps = r.rsps
  BY <1>1 DEF RxRings
<1>3. /\ u = [r EXCEPT !.rsp_event = e] => u.rsp_event = e /\ u.req_event = r.req_event
      /\ u = [r EXCEPT !.req_event = e] => u.req_event = e /\ u.rsp_event = r.rsp_event
  BY <1>1 DEF RxRings
<1>. QED  BY <1>2, <1>3, SameRx

(* The push shows all buffers. *)
LEMMA PushRx ==
  ASSUME NEW r, RxOk(r), NEW u, u = [r EXCEPT !.req_prod = r.pvt]
  PROVE  /\ RxOk(u) /\ Outstanding(u) = Outstanding(r)
         /\ u.pvt = r.pvt /\ u.cons = r.cons /\ u.req_prod = r.pvt /\ u.rsp_prod = r.rsp_prod
         /\ u.rsp_event = r.rsp_event /\ u.req_event = r.req_event /\ u.rsps = r.rsps
<1>1. r \in RxRings /\ BuffersOk(r) /\ OrderOk(r) /\ r.pvt \in Index
  BY RxTyped DEF RxOk
<1>2. /\ u \in RxRings /\ u.pvt = r.pvt /\ u.cons = r.cons /\ u.req_prod = r.pvt
      /\ u.rsp_prod = r.rsp_prod /\ u.skbs = r.skbs /\ u.grefs = r.grefs /\ u.batch = r.batch
      /\ u.rsps = r.rsps /\ u.rsp_event = r.rsp_event /\ u.req_event = r.req_event
  BY <1>1 DEF RxRings
<1>3. BuffersOk(u) /\ Outstanding(u) = Outstanding(r)
  BY <1>1, <1>2 DEF BuffersOk, Outstanding
<1>4. OrderOk(u)
  <2>. DEFINE A == Minus(r.rsp_prod, r.cons)  P == Minus(r.req_prod, r.cons)  O == Minus(r.pvt, r.cons)
  <2>1. A \in Nat /\ P \in Nat /\ O \in Int /\ A <= P /\ P <= O
    BY RxMeasures DEF Outstanding
  <2>2. Stacked(u.rsps, A)
    BY <1>1, <1>2 DEF OrderOk
  <2>3. Minus(u.rsp_prod, u.cons) = A /\ Minus(u.req_prod, u.cons) = O /\ Outstanding(u) = O
    BY <1>2 DEF Outstanding
  <2>. HIDE DEF A, P, O
  <2>4. A <= O /\ O <= O
    BY <2>1
  <2>. QED  BY <2>2, <2>3, <2>4 DEF OrderOk
<1>. QED  BY <1>2, <1>3, <1>4 DEF RxOk

(* The back end puts a packet where there is room. *)
Delivered(r, m, u) ==
    /\ RxOk(u) /\ Outstanding(u) = Outstanding(r)
    /\ u.pvt = r.pvt /\ u.cons = r.cons /\ u.req_prod = r.req_prod
    /\ u.rsp_prod = Plus(r.rsp_prod, Slots(m))
    /\ u.rsp_event = r.rsp_event /\ u.req_event = r.req_event
    /\ Slots(m) \in 0..RingSize /\ Slots(m) <= Minus(r.req_prod, r.rsp_prod)
    /\ Minus(r.rsp_prod, r.cons) + Slots(m) <= RingSize

LEMMA DeliverRx ==
  ASSUME NEW r, RxOk(r), Minus(r.req_prod, r.rsp_prod) >= MaxSlots, NEW m \in Messages,
         NEW u, u = [r EXCEPT !.rsps = Append(@, m), !.rsp_prod = Plus(@, Slots(m))]
  PROVE  Delivered(r, m, u)
<1>. DEFINE A == Minus(r.rsp_prod, r.cons)  P == Minus(r.req_prod, r.cons)  O == Minus(r.pvt, r.cons)
            s == Slots(m)  a == Append(r.rsps, m)  d == Plus(r.rsp_prod, s)
<1>1. r \in RxRings /\ BuffersOk(r) /\ OrderOk(r) /\ r.pvt \in Index /\ r.cons \in Index /\ r.rsp_prod \in Index
      /\ r.rsps \in Seq(Messages) /\ Outstanding(r) = O
  BY RxTyped DEF RxOk, Outstanding
<1>2. /\ A \in Nat /\ P \in Nat /\ O \in 0..RingSize /\ A <= P /\ P <= O
      /\ Minus(r.req_prod, r.rsp_prod) = P - A
  BY RxMeasures DEF Outstanding
<1>3. s \in 1..RingSize /\ s <= MaxSlots /\ MaxSlots \in 1..RingSize
  BY SlotsTyped, MaxSlotsTyped
<1>4. a \in Seq(Messages) /\ Stacked(a, A + s)
  <2>1. Stacked(r.rsps, A)
    BY <1>1 DEF OrderOk
  <2>. HIDE DEF A
  <2>. QED  BY <1>1, <1>2, <2>1, StackedMore
<1>5. A + s <= P /\ A + s <= RingSize /\ A + s <= RingSize + 1 /\ s \in Nat /\ s <= P - A /\ s \in 0..RingSize
  <2>. HIDE DEF A, P, O, s
  <2>. QED  BY <1>2, <1>3, Sizes
<1>6. d \in Index /\ Minus(d, r.cons) = A + s
  BY <1>1, <1>5, PlusAhead
<1>7. /\ u \in RxRings /\ u.pvt = r.pvt /\ u.cons = r.cons /\ u.req_prod = r.req_prod
      /\ u.rsp_prod = d /\ u.skbs = r.skbs /\ u.grefs = r.grefs /\ u.batch = r.batch
      /\ u.rsps = a /\ u.rsp_event = r.rsp_event /\ u.req_event = r.req_event
  <2>1. u = [r EXCEPT !.rsps = a, !.rsp_prod = d]
    BY <1>1 DEF RxRings
  <2>. HIDE DEF a, d
  <2>. QED  BY <1>1, <1>4, <1>6, <2>1 DEF RxRings
<1>. HIDE DEF a, d, s
<1>8. BuffersOk(u) /\ Outstanding(u) = Outstanding(r)
  BY <1>1, <1>7 DEF BuffersOk, Outstanding
<1>9. OrderOk(u)
  BY <1>1, <1>2, <1>4, <1>5, <1>6, <1>7, <1>8 DEF OrderOk
<1>. QED  BY <1>2, <1>5, <1>7, <1>8, <1>9 DEF Delivered, RxOk, s, d

(* One packet off the ring: the buffers that stay move to its end, where   *)
(* no other buffer is.                                                     *)
LEMMA GetRx ==
  ASSUME NEW r \in RxRings, BuffersOk(r), NEW m \in Messages,
         Slots(m) <= Minus(r.rsp_prod, r.cons), Minus(r.rsp_prod, r.cons) <= Minus(r.req_prod, r.cons),
         Minus(r.req_prod, r.cons) <= Outstanding(r),
         NEW u, u = GetResponses(r, m)
  PROVE  /\ ~MoveCollides(r, m)
         /\ u \in RxRings /\ BuffersOk(u) /\ Outstanding(u) <= Outstanding(r)
         /\ u.cons = Plus(r.cons, Slots(m))
         /\ Minus(u.rsp_prod, u.cons) = Minus(r.rsp_prod, r.cons) - Slots(m)
         /\ Minus(u.req_prod, u.cons) = Minus(r.req_prod, r.cons) - Slots(m)
         /\ Minus(u.req_prod, u.cons) <= Outstanding(u)
         /\ u.req_prod = r.req_prod /\ u.req_event = r.req_event /\ u.rsp_prod = r.rsp_prod
         /\ u.rsp_event = r.rsp_event /\ u.batch = r.batch /\ u.target = r.target /\ u.rsps = r.rsps
<1>. DEFINE A == Minus(r.rsp_prod, r.cons)  P == Minus(r.req_prod, r.cons)  O == Minus(r.pvt, r.cons)
            s == Slots(m)  k == m.extra + m.bad  c == Plus(r.cons, s)  p == Plus(r.pvt, k)
            g == r.grefs + m.data - m.bad
            b == (r.skbs \ RxSlots(r.cons, s)) \cup RxSlots(r.pvt, k)
<1>1. /\ r.pvt \in Index /\ r.cons \in Index /\ r.rsp_prod \in Index /\ r.req_prod \in Index
      /\ r.grefs \in Nat /\ r.skbs = RxSlots(r.cons, O) /\ r.grefs + O = RingSize
      /\ r.batch + O <= RingSize /\ r.batch \in Nat
  BY RxTyped DEF BuffersOk, Outstanding
<1>2. A \in Nat /\ P \in Nat /\ O \in Nat /\ A <= P /\ P <= O /\ s <= A
  BY <1>1, MinusType DEF Outstanding
<1>3. s \in 1..RingSize /\ k \in Nat /\ k <= s
  BY SlotsTyped
<1>4. O <= RingSize /\ RingSize \in Nat
  <2>. HIDE DEF O
  <2>. QED  BY <1>1, <1>2, Sizes
<1>5. /\ s <= O /\ s <= P /\ O - s \in Nat /\ k \in Nat /\ (O - s) + k <= O /\ (O - s) + k <= RingSize
      /\ s + (O - s) = O /\ s <= RingSize + 1 /\ s \in Nat /\ P - s <= (O - s) + k
  <2>. HIDE DEF A, P, O, s, k
  <2>. QED  BY <1>2, <1>3, <1>4
<1>6. c \in Index /\ Minus(r.rsp_prod, c) = A - s /\ Minus(r.req_prod, c) = P - s /\ Minus(r.pvt, c) = O - s
  <2>1. c \in Index /\ Minus(r.rsp_prod, c) = A - s
    BY <1>1, <1>2, <1>5, PlusBehind
  <2>2. Minus(r.req_prod, c) = P - s
    BY <1>1, <1>5, PlusBehind
  <2>3. Minus(r.pvt, c) = O - s
    BY <1>1, <1>5, PlusBehind
  <2>. QED  BY <2>1, <2>2, <2>3
<1>7. p \in Index /\ Minus(p, c) = (O - s) + k
  <2>1. Minus(r.pvt, c) + k <= RingSize + 1
    <3>. HIDE DEF O, s, k, c
    <3>. QED  BY <1>4, <1>5, <1>6
  <2>2. p \in Index /\ Minus(p, c) = Minus(r.pvt, c) + k
    <3>. HIDE DEF c, k
    <3>. QED  BY <1>1, <1>5, <1>6, <2>1, PlusAhead DEF p
  <2>. QED  BY <1>6, <2>2
<1>8. r.pvt = Plus(c, O - s)
  <2>1. r.pvt = Plus(c, Minus(r.pvt, c))
    BY <1>1, <1>6, MinusType
  <2>. QED  BY <1>6, <2>1
<1>. HIDE DEF A, P, O, s, k, c, p
<1>9. /\ r.skbs = RxSlots(r.cons, s) \cup RxSlots(c, O - s)
      /\ RxSlots(r.cons, s) \cap RxSlots(c, O - s) = {}
  <2>1. s + (O - s) <= RingSize /\ O - s \in Nat /\ s \in Nat
    BY <1>4, <1>5
  <2>2. /\ RxSlots(r.cons, s + (O - s)) = RxSlots(r.cons, s) \cup RxSlots(Plus(r.cons, s), O - s)
        /\ RxSlots(r.cons, s) \cap RxSlots(Plus(r.cons, s), O - s) = {}
    BY <1>1, <2>1, RxSlotsSplit
  <2>. QED  BY <1>1, <1>5, <2>2 DEF c
<1>10. r.skbs \ RxSlots(r.cons, s) = RxSlots(c, O - s)
  BY <1>9
<1>11. /\ RxSlots(c, (O - s) + k) = RxSlots(c, O - s) \cup RxSlots(r.pvt, k)
       /\ RxSlots(c, O - s) \cap RxSlots(r.pvt, k) = {}
  BY <1>5, <1>6, <1>8, RxSlotsSplit
<1>12. ~MoveCollides(r, m)
  BY <1>10, <1>11 DEF MoveCollides, s, k
<1>13. b = RxSlots(c, (O - s) + k) /\ b \subseteq 0..RingSize - 1
  <2>1. b = RxSlots(c, (O - s) + k)
    BY <1>10, <1>11
  <2>2. (O - s) + k \in 0..RingSize
    BY <1>4, <1>5
  <2>3. \A n \in 0..RingSize : RxSlots(c, n) \subseteq 0..RingSize - 1
    BY <1>6, RxSlotsTyped
  <2>. QED  BY <2>1, <2>2, <2>3
<1>14. g \in Nat /\ g + ((O - s) + k) = RingSize /\ r.batch + ((O - s) + k) <= RingSize
  <2>. DEFINE d == m.data  x == m.extra  y == m.bad
  <2>1. d \in Nat /\ x \in Nat /\ y \in Nat /\ y <= d /\ s = d + x /\ k = x + y /\ g = r.grefs + d - y
    BY SlotsTyped DEF s, k, Slots
  <2>. HIDE DEF d, x, y, g
  <2>. QED  BY <1>1, <1>2, <1>4, <1>5, <2>1
<1>15. /\ u \in RxRings /\ u.pvt = p /\ u.cons = c /\ u.skbs = b /\ u.grefs = g
       /\ u.req_prod = r.req_prod /\ u.req_event = r.req_event /\ u.rsp_prod = r.rsp_prod
       /\ u.rsp_event = r.rsp_event /\ u.batch = r.batch /\ u.target = r.target /\ u.rsps = r.rsps
  <2>1. u = [r EXCEPT !.cons = c, !.pvt = p, !.skbs = b, !.grefs = g]
    BY DEF GetResponses, RxRings, c, p, s, k
  <2>. HIDE DEF b, g
  <2>. QED  BY <1>6, <1>7, <1>13, <1>14, <2>1 DEF RxRings
<1>. HIDE DEF b, g
<1>16. Outstanding(u) = (O - s) + k
  BY <1>7, <1>15 DEF Outstanding
<1>17. BuffersOk(u)
  BY <1>13, <1>14, <1>15, <1>16 DEF BuffersOk
<1>18. Outstanding(u) <= Outstanding(r)
  BY <1>5, <1>16 DEF Outstanding, O
<1>19. Minus(u.rsp_prod, u.cons) = A - s /\ Minus(u.req_prod, u.cons) = P - s /\ P - s <= Outstanding(u)
  BY <1>5, <1>6, <1>15, <1>16
<1>. QED  BY <1>12, <1>15, <1>17, <1>18, <1>19 DEF A, P, c, s

(* A poll takes so many packets. *)
LEMMA PolledTyped ==
  ASSUME NEW s \in Seq(Messages)
  PROVE  Polled(s) \in 0..Len(s)
<1>1. Len(s) \in Nat
  BY LenProperties
<1>. DEFINE T == {k \in 0..Len(s) : k = Len(s) \/ Good(s, k) >= Budget}
<1>2. T \subseteq Nat /\ T # {}
  BY <1>1
<1>3. \E k \in T : \A j \in T : k <= j
  <2>. HIDE DEF T
  <2>. QED  BY <1>2, LeastElement
<1>4. PICK k \in T : \A j \in T : k <= j
  BY <1>3
<1>5. k \in 0..Len(s) /\ k \in Nat
  BY <1>2
<1>6. ASSUME NEW j \in Nat PROVE Good(s, j) \in Nat /\ IsFiniteSet({i \in 1..j : s[i].bad = 0})
  <2>1. IsFiniteSet(1..j)
    BY UpToCount
  <2>2. IsFiniteSet({i \in 1..j : s[i].bad = 0})
    BY <2>1, FS_Subset
  <2>. QED  BY <2>2, FS_CardinalityType DEF Good
<1>7. Good(s, 0) = 0
  <2>1. {i \in 1..0 : s[i].bad = 0} = {}
    OBVIOUS
  <2>. QED  BY <2>1, FS_EmptySet DEF Good
<1>8. ASSUME NEW j \in 0..k - 1 PROVE Good(s, j) < Budget
  <2>1. j \in Nat /\ j \in 0..Len(s) /\ ~(k <= j)
    BY <1>1, <1>5
  <2>2. ~(Good(s, j) >= Budget)
    BY <1>4, <2>1
  <2>3. Good(s, j) \in Nat /\ Budget \in Nat
    BY <1>6, <2>1, Constants
  <2>. QED  BY <2>2, <2>3
<1>9. k = Len(s) \/ Good(s, k) = Budget
  <2>1. SUFFICES ASSUME k # Len(s) PROVE Good(s, k) = Budget
    OBVIOUS
  <2>2. Good(s, k) >= Budget /\ Good(s, k) \in Nat /\ Budget \in Nat \ {0}
    BY <1>5, <1>6, <2>1, Constants
  <2>3. k # 0
    BY <1>7, <2>2
  <2>4. k - 1 \in Nat /\ k - 1 \in 0..k - 1 /\ 1..k = (1..k - 1) \cup {k}
    BY <1>5, <2>3
  <2>5. Good(s, k - 1) < Budget /\ Good(s, k - 1) \in Nat
    BY <1>6, <1>8, <2>4
  <2>6. Good(s, k) <= Good(s, k - 1) + 1
    <3>. DEFINE a == {i \in 1..k - 1 : s[i].bad = 0}  b == {i \in 1..k : s[i].bad = 0}
    <3>1. b \subseteq a \cup {k}
      BY <2>4
    <3>2. IsFiniteSet(a) /\ Good(s, k - 1) = Cardinality(a) /\ Good(s, k) = Cardinality(b)
      BY <1>6, <2>4 DEF Good
    <3>. HIDE DEF a, b
    <3>3. IsFiniteSet(a \cup {k}) /\ Cardinality(a \cup {k}) <= Cardinality(a) + 1
          /\ Cardinality(a) \in Nat /\ Cardinality(a \cup {k}) \in Nat
      <4>1. IsFiniteSet(a \cup {k}) /\ Cardinality(a) \in Nat
        BY <3>2, FS_AddElement, FS_CardinalityType
      <4>2. CASE k \in a
        <5>1. a \cup {k} = a
          BY <4>2
        <5>2. Cardinality(a \cup {k}) = Cardinality(a)
          BY <5>1, Zenon
        <5>. QED  BY <4>1, <5>2
      <4>3. CASE k \notin a
        <5>1. Cardinality(a \cup {k}) = Cardinality(a) + 1
          BY <3>2, <4>3, FS_AddElement
        <5>. QED  BY <4>1, <5>1
      <4>. QED  BY <4>2, <4>3
    <3>4. Cardinality(b) <= Cardinality(a \cup {k}) /\ Cardinality(b) \in Nat
      BY <3>1, <3>3, FS_Subset, FS_CardinalityType
    <3>. QED  BY <3>2, <3>3, <3>4
  <2>. QED  BY <2>2, <2>5, <2>6
<1>10. \E n \in 0..Len(s) : /\ n = Len(s) \/ Good(s, n) = Budget
                           /\ \A j \in 0..n - 1 : Good(s, j) < Budget
  BY <1>5, <1>8, <1>9
<1>. QED  BY <1>10 DEF Polled

(* What netif_poll keeps while it takes one packet after another.          *)
Taking(r, ends, i) ==
    {x \in RxRings :
       /\ BuffersOk(x) /\ Outstanding(x) <= Outstanding(r)
       /\ x.cons = Plus(r.cons, ends[i])
       /\ Minus(x.rsp_prod, x.cons) = Minus(r.rsp_prod, r.cons) - ends[i]
       /\ Minus(x.rsp_prod, x.cons) <= Minus(x.req_prod, x.cons)
       /\ Minus(x.req_prod, x.cons) <= Outstanding(x)
       /\ x.req_prod = r.req_prod /\ x.req_event = r.req_event /\ x.rsp_prod = r.rsp_prod
       /\ x.rsp_event = r.rsp_event /\ x.batch = r.batch /\ x.target = r.target /\ x.rsps = r.rsps}

LEMMA TakingKeeps ==
  ASSUME NEW r, RxOk(r), NEW ends \in [0..Len(r.rsps) -> Nat], Ends(r.rsps, ends),
         ends[Len(r.rsps)] = Minus(r.rsp_prod, r.cons),
         NEW i \in 1..Len(r.rsps), NEW x \in Taking(r, ends, i - 1)
  PROVE  GetResponses(x, r.rsps[i]) \in Taking(r, ends, i) /\ ~MoveCollides(x, r.rsps[i])
<1>. DEFINE A == Minus(r.rsp_prod, r.cons)  m == r.rsps[i]  u == GetResponses(x, m)  s == Slots(m)
            e == ends[i - 1]  n == ends[i]  X == Minus(x.rsp_prod, x.cons)  Y == Minus(x.req_prod, x.cons)
<1>1. /\ r \in RxRings /\ r.rsps \in Seq(Messages) /\ Len(r.rsps) \in Nat /\ r.cons \in Index
      /\ A \in Nat /\ A <= RingSize
  <2>1. r \in RxRings /\ r.rsps \in Seq(Messages) /\ r.cons \in Index
    BY RxTyped DEF RxOk
  <2>2. A \in Nat /\ A <= Minus(r.req_prod, r.cons) /\ Minus(r.req_prod, r.cons) \in Nat
        /\ Minus(r.req_prod, r.cons) <= Outstanding(r) /\ Outstanding(r) \in 0..RingSize
    BY RxMeasures
  <2>. DEFINE P == Minus(r.req_prod, r.cons)  O == Outstanding(r)
  <2>. HIDE DEF A, P, O
  <2>3. A \in Nat /\ A <= P /\ P \in Nat /\ P <= O /\ O \in 0..RingSize
    BY <2>2 DEF P, O
  <2>4. A <= RingSize
    BY <2>3, Sizes
  <2>. QED  BY <2>1, <2>3, <2>4, LenProperties
<1>2. m \in Messages /\ i \in 0..Len(r.rsps) /\ i - 1 \in 0..Len(r.rsps)
  BY <1>1, ElementOfSeq
<1>3. s \in Nat /\ n = e + s /\ e \in Nat /\ n \in Nat /\ n <= A
  <2>1. s \in Nat
    BY <1>2, SlotsTyped, Sizes
  <2>2. n = e + s /\ e \in Nat /\ n \in Nat
    BY <1>2 DEF Ends
  <2>3. n <= A
    BY <1>1, <1>2, EndsGrow
  <2>. QED  BY <2>1, <2>2, <2>3
<1>4. /\ x \in RxRings /\ BuffersOk(x) /\ Outstanding(x) <= Outstanding(r)
      /\ x.cons = Plus(r.cons, e) /\ X = A - e /\ X <= Y /\ Y <= Outstanding(x)
      /\ x.req_prod = r.req_prod /\ x.req_event = r.req_event /\ x.rsp_prod = r.rsp_prod
      /\ x.rsp_event = r.rsp_event /\ x.batch = r.batch /\ x.target = r.target /\ x.rsps = r.rsps
  BY DEF Taking
<1>5. s <= X /\ X - s = A - n
  <2>. HIDE DEF A, s, n, e, X
  <2>. QED  BY <1>1, <1>3, <1>4
<1>. HIDE DEF m
<1>6. /\ ~MoveCollides(x, m)
      /\ u \in RxRings /\ BuffersOk(u) /\ Outstanding(u) <= Outstanding(x)
      /\ u.cons = Plus(x.cons, s)
      /\ Minus(u.rsp_prod, u.cons) = X - s /\ Minus(u.req_prod, u.cons) = Y - s
      /\ Minus(u.req_prod, u.cons) <= Outstanding(u)
      /\ u.req_prod = x.req_prod /\ u.req_event = x.req_event /\ u.rsp_prod = x.rsp_prod
      /\ u.rsp_event = x.rsp_event /\ u.batch = x.batch /\ u.target = x.target /\ u.rsps = x.rsps
  BY <1>2, <1>4, <1>5, GetRx
<1>. HIDE DEF u
<1>7. X - s <= Y - s
  <2>1. X \in Nat /\ Y \in Nat
    BY <1>4, MinusType, RxTyped
  <2>. HIDE DEF X, Y, s
  <2>. QED  BY <1>3, <1>4, <2>1
<1>8. u.cons = Plus(r.cons, n)
  <2>1. e + s <= RingSize + 1
    <3>. HIDE DEF A, e, s, n
    <3>. QED  BY <1>1, <1>3, Sizes
  <2>2. Plus(Plus(r.cons, e), s) = Plus(r.cons, e + s)
    BY <1>1, <1>3, <2>1, PlusPlus
  <2>. HIDE DEF e, s, n
  <2>. QED  BY <1>3, <1>4, <1>6, <2>2
<1>9. Outstanding(u) <= Outstanding(r)
  <2>1. Outstanding(u) \in Int /\ Outstanding(x) \in Int /\ Outstanding(r) \in Int
    <3>1. \A y \in RxRings : Outstanding(y) \in Int
      BY MinusType, RxTyped DEF Outstanding
    <3>. QED  BY <1>1, <1>4, <1>6, <3>1
  <2>. QED  BY <1>4, <1>6, <2>1
<1>10. Minus(u.rsp_prod, u.cons) = A - n /\ Minus(u.rsp_prod, u.cons) <= Minus(u.req_prod, u.cons)
  BY <1>5, <1>6, <1>7
<1>11. u \in Taking(r, ends, i)
  BY <1>4, <1>6, <1>8, <1>9, <1>10 DEF Taking
<1>. QED  BY <1>6, <1>11 DEF u, m

(* netif_poll's loop moves no buffer onto another one.                     *)
LEMMA AfterMessagesRx ==
  ASSUME NEW r, RxOk(r), NEW a, a = AfterMessages(r)
  PROVE  /\ a.bug = FALSE /\ RxOk(a.rx) /\ Outstanding(a.rx) <= Outstanding(r)
         /\ \E k \in 0..RingSize : k <= Minus(r.rsp_prod, r.cons) /\ a.rx.cons = Plus(r.cons, k)
         /\ a.rx.req_prod = r.req_prod /\ a.rx.req_event = r.req_event /\ a.rx.rsp_prod = r.rsp_prod
         /\ a.rx.rsp_event = r.rsp_event /\ a.rx.batch = r.batch /\ a.rx.target = r.target
<1>. DEFINE n == Len(r.rsps)  k == Polled(r.rsps)  A == Minus(r.rsp_prod, r.cons)
            R(h) == [i \in 0..k |-> IF i = 0 THEN r ELSE GetResponses(h[i - 1], r.rsps[i])]
            f == CHOOSE h : h = R(h)
            u == f[k]
            w == [u EXCEPT !.rsps = SubSeq(@, k + 1, Len(@))]
<1>1. /\ r \in RxRings /\ r.rsps \in Seq(Messages) /\ n \in Nat /\ k \in 0..n /\ k \in Nat
      /\ r.cons \in Index /\ BuffersOk(r) /\ OrderOk(r)
  <2>1. r \in RxRings /\ r.rsps \in Seq(Messages) /\ r.cons \in Index /\ BuffersOk(r) /\ OrderOk(r)
    BY RxTyped DEF RxOk
  <2>2. n \in Nat /\ k \in 0..n
    BY <2>1, LenProperties, PolledTyped
  <2>. QED  BY <2>1, <2>2
<1>2. PICK ends \in [0..n -> Nat] : Ends(r.rsps, ends) /\ ends[n] = A
  BY <1>1 DEF OrderOk, Stacked
<1>3. a = [rx |-> w, bug |-> \E i \in 1..k : MoveCollides(f[i - 1], r.rsps[i])]
  BY DEF AfterMessages
<1>. HIDE DEF k
<1>. DEFINE S == RxRings
            N == [p \in S \X (1..k) |-> GetResponses(p[1], r.rsps[p[2]])]
            I == [i \in 0..k |-> Taking(r, ends, i)]
<1>4. \A i \in 1..k : i \in 1..n /\ i - 1 \in 0..k /\ i \in 0..k /\ i # 0
  BY <1>1
<1>5. I \in [0..k -> SUBSET S]
  BY DEF Taking
<1>6. r \in I[0]
  <2>1. ends[0] = 0 /\ 0 \in 0..k
    BY <1>1, <1>2 DEF Ends
  <2>2. Plus(r.cons, 0) = r.cons
    BY <1>1, Constants DEF Plus, Index
  <2>3. /\ A - 0 = A /\ A <= Minus(r.req_prod, r.cons) /\ Minus(r.req_prod, r.cons) <= Outstanding(r)
        /\ Outstanding(r) <= Outstanding(r)
    <3>1. A \in Nat /\ Outstanding(r) \in Int
      BY RxMeasures
    <3>. QED  BY <1>1, <3>1 DEF OrderOk
  <2>4. r \in Taking(r, ends, 0)
    BY <1>1, <2>1, <2>2, <2>3 DEF Taking
  <2>. QED  BY <2>1, <2>4
<1>7. ASSUME NEW i \in 1..k, NEW x \in I[i - 1]
      PROVE  GetResponses(x, r.rsps[i]) \in I[i] /\ ~MoveCollides(x, r.rsps[i]) /\ x \in S
  <2>1. x \in Taking(r, ends, i - 1)
    BY <1>4, <1>7
  <2>2. GetResponses(x, r.rsps[i]) \in Taking(r, ends, i) /\ ~MoveCollides(x, r.rsps[i])
    BY <1>1, <1>2, <1>4, <2>1, TakingKeeps
  <2>. QED  BY <1>4, <2>1, <2>2 DEF Taking
<1>8. \A i \in 1..k : \A x \in S : N[<<x, i>>] = GetResponses(x, r.rsps[i])
  OBVIOUS
<1>9. \A i \in 1..k : \A x \in I[i - 1] : N[<<x, i>>] \in I[i]
  <2>. HIDE DEF N, I, S
  <2>. QED  BY <1>7, <1>8
<1>10. \E g \in [0..k -> S] : Runs(g, k, r, N, I)
  <2>. HIDE DEF I, N, S
  <2>. QED  BY <1>1, <1>5, <1>6, <1>9, LoopRuns
<1>. PICK g \in [0..k -> S] : Runs(g, k, r, N, I)
  BY <1>10
<1>. HIDE DEF N, I, S
<1>11. g = R(g)
  <2>1. ASSUME NEW i \in 0..k PROVE g[i] = R(g)[i]
    <3>1. CASE i = 0
      BY <3>1 DEF Runs
    <3>2. CASE i # 0
      <4>1. i \in 1..k /\ g[i - 1] \in S
        BY <1>1, <1>4, <3>2
      <4>2. g[i] = N[<<g[i - 1], i>>]
        BY <4>1 DEF Runs
      <4>. QED  BY <1>8, <3>2, <4>1, <4>2
    <3>. QED  BY <3>1, <3>2
  <2>. QED  BY <2>1
<1>12. f = R(f)
  <2>1. \E h : h = R(h)
    BY <1>11
  <2>2. f = CHOOSE h : h = R(h)
    OBVIOUS
  <2>. HIDE DEF R
  <2>. QED  BY <2>1, <2>2
<1>. HIDE DEF f
<1>13. f[0] = r
  <2>1. R(f)[0] = r
    BY <1>1
  <2>. HIDE DEF R
  <2>. QED  BY <1>12, <2>1
<1>14. ASSUME NEW i \in 1..k, f[i - 1] \in S PROVE f[i] = N[<<f[i - 1], i>>]
  <2>1. R(f)[i] = GetResponses(f[i - 1], r.rsps[i])
    BY <1>4
  <2>2. f[i] = R(f)[i]
    <3>. HIDE DEF R
    <3>. QED  BY <1>12
  <2>. QED  BY <1>8, <1>14, <2>1, <2>2
<1>15. Follows(f, k, S, r, N)
  BY <1>13, <1>14 DEF Follows
<1>16. \A i \in 0..k : f[i] \in I[i]
  <2>1. Reaches(f, k, I)
    <3>. HIDE DEF R
    <3>. QED  BY <1>1, <1>15, LoopUnique
  <2>. QED  BY <2>1 DEF Reaches
<1>17. ~(\E i \in 1..k : MoveCollides(f[i - 1], r.rsps[i]))
  BY <1>4, <1>7, <1>16
<1>18. u \in Taking(r, ends, k)
  BY <1>1, <1>16 DEF I
<1>. DEFINE e == ends[k]  rest == SubSeq(r.rsps, k + 1, n)
<1>19. e \in Nat /\ e <= A /\ A \in Nat /\ A <= RingSize /\ e \in 0..RingSize
  <2>1. e \in Nat /\ e <= A
    BY <1>1, <1>2, EndsGrow
  <2>2. A \in Nat /\ A <= Minus(r.req_prod, r.cons) /\ Minus(r.req_prod, r.cons) \in Nat
        /\ Minus(r.req_prod, r.cons) <= Outstanding(r) /\ Outstanding(r) \in 0..RingSize
    BY RxMeasures
  <2>. DEFINE P == Minus(r.req_prod, r.cons)  O == Outstanding(r)
  <2>. HIDE DEF A, P, O, e
  <2>3. A \in Nat /\ A <= P /\ P \in Nat /\ P <= O /\ O \in 0..RingSize
    BY <2>2 DEF P, O
  <2>. QED  BY <2>1, <2>3, Sizes
<1>20. rest \in Seq(Messages) /\ Stacked(rest, A - e)
  BY <1>1, <1>2, StackedRest
<1>21. /\ u \in RxRings /\ BuffersOk(u) /\ Outstanding(u) <= Outstanding(r)
       /\ u.cons = Plus(r.cons, e) /\ Minus(u.rsp_prod, u.cons) = A - e
       /\ Minus(u.rsp_prod, u.cons) <= Minus(u.req_prod, u.cons)
       /\ Minus(u.req_prod, u.cons) <= Outstanding(u)
       /\ u.req_prod = r.req_prod /\ u.req_event = r.req_event /\ u.rsp_prod = r.rsp_prod
       /\ u.rsp_event = r.rsp_event /\ u.batch = r.batch /\ u.target = r.target /\ u.rsps = r.rsps
  BY <1>18 DEF Taking
<1>. HIDE DEF u
<1>22. /\ w \in RxRings /\ w.pvt = u.pvt /\ w.cons = u.cons /\ w.skbs = u.skbs /\ w.grefs = u.grefs
       /\ w.req_prod = r.req_prod /\ w.req_event = r.req_event /\ w.rsp_prod = r.rsp_prod
       /\ w.rsp_event = r.rsp_event /\ w.batch = r.batch /\ w.target = r.target /\ w.rsps = rest
  <2>1. w = [u EXCEPT !.rsps = rest]
    BY <1>21 DEF RxRings
  <2>. HIDE DEF w, rest
  <2>. QED  BY <1>20, <1>21, <2>1 DEF RxRings
<1>. HIDE DEF w, rest, e, A
<1>23. BuffersOk(w) /\ Outstanding(w) = Outstanding(u)
  BY <1>21, <1>22 DEF BuffersOk, Outstanding
<1>24. OrderOk(w)
  BY <1>20, <1>21, <1>22, <1>23 DEF OrderOk
<1>25. RxOk(w)
  BY <1>22, <1>23, <1>24 DEF RxOk
<1>26. a.rx = w /\ a.bug = FALSE
  BY <1>3, <1>17
<1>27. w.cons = Plus(r.cons, e) /\ Outstanding(w) <= Outstanding(r)
  BY <1>21, <1>22, <1>23
<1>. QED  BY <1>19, <1>22, <1>25, <1>26, <1>27 DEF A

(* A poll that has little to do lowers the target. *)
LEMMA LowerRx ==
  ASSUME NEW r, RxOk(r), NEW u, u = LowerTarget(r)
  PROVE  /\ RxOk(u) /\ Outstanding(u) = Outstanding(r)
         /\ u.cons = r.cons /\ u.req_prod = r.req_prod /\ u.rsp_prod = r.rsp_prod /\ u.req_event = r.req_event
         /\ u.rsp_event = r.rsp_event /\ u.pvt = r.pvt /\ u.batch = r.batch
<1>1. r \in RxRings /\ r.target \in MinTarget..MaxTarget
  BY RxTyped DEF RxOk
<1>2. CASE u = r
  BY <1>2
<1>3. CASE r.target > MinTarget /\ u = [r EXCEPT !.target = @ - 1]
  <2>1. r.target - 1 \in MinTarget..MaxTarget
    BY <1>1, <1>3, Constants
  <2>2. /\ u \in RxRings /\ u.pvt = r.pvt /\ u.cons = r.cons /\ u.req_prod = r.req_prod
        /\ u.rsp_prod = r.rsp_prod /\ u.skbs = r.skbs /\ u.grefs = r.grefs /\ u.batch = r.batch
        /\ u.rsps = r.rsps /\ u.rsp_event = r.rsp_event /\ u.req_event = r.req_event
    BY <1>1, <1>3, <2>1 DEF RxRings
  <2>. QED  BY <2>2, SameRx
<1>. QED  BY <1>2, <1>3 DEF LowerTarget

LEMMA RaiseTyped ==
  ASSUME NEW r \in RxRings
  PROVE  RaiseTarget(r) \in MinTarget..MaxTarget /\ r.target <= RaiseTarget(r)
<1>. DEFINE t == r.target
<1>1. t \in MinTarget..MaxTarget /\ MaxTarget = RingSize /\ MinTarget \in 1..RingSize /\ RingSize \in Nat
  BY RxTyped, Constants
<1>2. RaiseTarget(r) \in {t, MaxTarget, 2 * t}
      /\ (RaiseTarget(r) = 2 * t => t = 2 * t \/ 2 * t <= MaxTarget)
  <2>1. CASE Minus(r.pvt, r.rsp_prod) >= t \div 4
    BY <2>1 DEF RaiseTarget
  <2>2. CASE ~(Minus(r.pvt, r.rsp_prod) >= t \div 4) /\ 2 * t > MaxTarget
    <3>1. RaiseTarget(r) = MaxTarget
      BY <2>2 DEF RaiseTarget
    <3>. HIDE DEF t
    <3>. QED  BY <1>1, <3>1
  <2>3. CASE ~(Minus(r.pvt, r.rsp_prod) >= t \div 4) /\ ~(2 * t > MaxTarget)
    <3>1. RaiseTarget(r) = 2 * t
      BY <2>3 DEF RaiseTarget
    <3>. HIDE DEF t
    <3>. QED  BY <1>1, <2>3, <3>1
  <2>. QED  BY <2>1, <2>2, <2>3
<1>. HIDE DEF t
<1>3. RaiseTarget(r) \in MinTarget..MaxTarget /\ t <= RaiseTarget(r)
  BY <1>1, <1>2
<1>. QED  BY <1>3 DEF t

(* network_alloc_rx_buffers finds a free slot and a grant for every buffer *)
(* it puts on the ring; and unless it runs out of memory, there are enough *)
(* on the ring then.                                                       *)
Allotted(r, a) ==
    /\ RxOk(a.rx) /\ a.bug = FALSE /\ a.short \in BOOLEAN /\ a.push \in BOOLEAN
    /\ a.rx.cons = r.cons /\ a.rx.req_prod = r.req_prod /\ a.rx.rsp_prod = r.rsp_prod
    /\ a.rx.req_event = r.req_event /\ a.rx.rsp_event = r.rsp_event
    /\ ~a.short => Enough(a.rx)
    /\ ~a.push => ~(a.rx.pvt > a.rx.req_prod)

LEMMA AllocRx ==
  ASSUME NEW r, RxOk(r), NEW got \in Allocations(r), NEW a, a = AllocRxBuffers(r, got)
  PROVE  Allotted(r, a)
<1>. DEFINE O == Outstanding(r)  t == r.target  b == [r EXCEPT !.batch = got]
            short == got < WantedBuffers(r)
            x == IF short /\ got # 0 THEN b ELSE [b EXCEPT !.target = RaiseTarget(b)]
<1>1. /\ r \in RxRings /\ r.pvt \in Index /\ r.cons \in Index /\ r.grefs \in Nat /\ r.batch \in Nat
      /\ t \in MinTarget..MaxTarget /\ r.skbs = RxSlots(r.cons, O) /\ r.grefs + O = RingSize
      /\ r.batch + O <= RingSize /\ OrderOk(r) /\ O = Minus(r.pvt, r.cons)
  BY RxTyped DEF RxOk, BuffersOk, Outstanding
<1>2. O \in Nat /\ t \in Nat /\ t <= RingSize /\ MinTarget <= t /\ MinTarget \in Nat /\ RingSize \in Nat
  <2>1. O \in Nat
    BY <1>1, MinusType
  <2>. QED  BY <1>1, <2>1, Constants
<1>3. got \in Nat /\ got + O <= RingSize /\ got >= r.batch /\ (~(got < WantedBuffers(r)) => got >= t - O)
  <2>. DEFINE w == WantedBuffers(r)  o == r.batch
  <2>1. w = (IF t - O > o THEN t - O ELSE o) /\ got \in o..w
    BY DEF WantedBuffers, Allocations
  <2>2. o \in Nat /\ o + O <= RingSize
    BY <1>1
  <2>. HIDE DEF w, o, O, t
  <2>3. w \in Int /\ got \in Int /\ o <= got /\ got <= w
    BY <1>2, <2>1, <2>2
  <2>4. w + O <= RingSize /\ t - O <= w
    BY <1>2, <2>1, <2>2
  <2>. QED  BY <1>2, <2>2, <2>3, <2>4 DEF w, o
<1>4. b \in RxRings /\ b.target = t /\ b.batch = got
      /\ b.pvt = r.pvt /\ b.cons = r.cons /\ b.req_prod = r.req_prod /\ b.rsp_prod = r.rsp_prod
      /\ b.skbs = r.skbs /\ b.grefs = r.grefs /\ b.rsps = r.rsps
      /\ b.req_event = r.req_event /\ b.rsp_event = r.rsp_event
  BY <1>1, <1>3 DEF RxRings
<1>. HIDE DEF b
<1>5. /\ x \in RxRings /\ x.target \in Nat /\ t <= x.target /\ x.batch = got
      /\ x.pvt = r.pvt /\ x.cons = r.cons /\ x.req_prod = r.req_prod /\ x.rsp_prod = r.rsp_prod
      /\ x.skbs = r.skbs /\ x.grefs = r.grefs /\ x.rsps = r.rsps
      /\ x.req_event = r.req_event /\ x.rsp_event = r.rsp_event
  <2>. DEFINE y == [b EXCEPT !.target = RaiseTarget(b)]
  <2>1. RaiseTarget(b) \in MinTarget..MaxTarget /\ t <= RaiseTarget(b)
    BY <1>4, RaiseTyped
  <2>2. RaiseTarget(b) \in Nat
    BY <2>1, Constants
  <2>3. /\ y \in RxRings /\ y.target \in Nat /\ t <= y.target /\ y.batch = got
        /\ y.pvt = r.pvt /\ y.cons = r.cons /\ y.req_prod = r.req_prod /\ y.rsp_prod = r.rsp_prod
        /\ y.skbs = r.skbs /\ y.grefs = r.grefs /\ y.rsps = r.rsps
        /\ y.req_event = r.req_event /\ y.rsp_event = r.rsp_event
    BY <1>4, <2>1, <2>2 DEF RxRings
  <2>. HIDE DEF y, t
  <2>4. x = b \/ x = y
    BY DEF y
  <2>5. t <= t
    BY <1>2
  <2>. HIDE DEF x
  <2>. QED  BY <1>2, <1>4, <2>3, <2>4, <2>5
<1>. HIDE DEF x
<1>. DEFINE kept == ~(short /\ got # 0) /\ got < t \div 2
            later == b.pvt > b.req_prod
            fails == CannotPost(x)
<1>6. a = IF kept THEN [rx |-> b, push |-> later, short |-> short, bug |-> FALSE]
          ELSE [rx |-> PostBatch(x), push |-> TRUE, short |-> short, bug |-> fails]
  BY DEF AllocRxBuffers, b, x
<1>7. /\ short \in BOOLEAN /\ later \in BOOLEAN /\ (~short => got >= t - O)
      /\ (kept => got < t \div 2) /\ (~later => ~(r.pvt > r.req_prod))
  BY <1>3, <1>4
<1>. HIDE DEF short, kept, later, fails
<1>8. CASE kept
  <2>1. a.rx = b /\ a.push = later /\ a.short = short /\ a.bug = FALSE
    <3>1. a = [rx |-> b, push |-> later, short |-> short, bug |-> FALSE]
      BY <1>6, <1>8, Zenon
    <3>. QED  BY <3>1
  <2>2. Outstanding(b) = O
    BY <1>4 DEF Outstanding
  <2>3. BuffersOk(b)
    <3>1. got + O <= RingSize
      BY <1>3
    <3>. QED  BY <1>1, <1>4, <2>2, <3>1 DEF BuffersOk
  <2>4. OrderOk(b)
    BY <1>1, <1>4, <2>2 DEF OrderOk
  <2>5. ~short => MinTarget - MinTarget \div 2 + 1 <= Outstanding(b)
    <3>1. SUFFICES ASSUME ~short PROVE MinTarget - MinTarget \div 2 + 1 <= O
      BY <2>2
    <3>. HIDE DEF O, t
    <3>2. O > t - t \div 2
      BY <1>2, <1>3, <1>7, <1>8, <3>1
    <3>. QED  BY <1>2, <3>2
  <2>6. RxOk(b) /\ (~short => Enough(b))
    BY <1>4, <2>3, <2>4, <2>5 DEF RxOk, Enough
  <2>7. RxOk(a.rx) /\ (~short => Enough(a.rx)) /\ (~later => ~(a.rx.pvt > a.rx.req_prod))
    BY <1>4, <1>7, <2>1, <2>6
  <2>8. /\ a.rx.cons = r.cons /\ a.rx.req_prod = r.req_prod /\ a.rx.rsp_prod = r.rsp_prod
        /\ a.rx.req_event = r.req_event /\ a.rx.rsp_event = r.rsp_event
    BY <1>4, <2>1
  <2>. QED  BY <1>7, <2>1, <2>7, <2>8, Zenon DEF Allotted
<1>9. CASE ~kept
  <2>. DEFINE u == PostBatch(x)  p == Plus(r.pvt, got)
  <2>1. a.rx = u /\ a.push = TRUE /\ a.short = short /\ a.bug = fails
    <3>1. a = [rx |-> u, push |-> TRUE, short |-> short, bug |-> fails]
      BY <1>6, <1>9, Zenon
    <3>. QED  BY <3>1
  <2>2. p \in Index /\ Minus(p, r.cons) = O + got
    <3>1. Minus(r.pvt, r.cons) + got <= RingSize + 1
      <4>. HIDE DEF O
      <4>. QED  BY <1>1, <1>2, <1>3
    <3>. QED  BY <1>1, <1>3, <3>1, PlusAhead
  <2>3. r.pvt = Plus(r.cons, O)
    BY <1>1, MinusType
  <2>4. O + got <= RingSize /\ O + got \in 0..RingSize
    <3>. HIDE DEF O
    <3>. QED  BY <1>2, <1>3
  <2>5. /\ RxSlots(r.cons, O + got) = r.skbs \cup RxSlots(r.pvt, got)
        /\ r.skbs \cap RxSlots(r.pvt, got) = {}
    <3>1. /\ RxSlots(r.cons, O + got) = RxSlots(r.cons, O) \cup RxSlots(Plus(r.cons, O), got)
          /\ RxSlots(r.cons, O) \cap RxSlots(Plus(r.cons, O), got) = {}
      <4>. HIDE DEF O
      <4>. QED  BY <1>1, <1>2, <1>3, <2>4, RxSlotsSplit
    <3>. QED  BY <1>1, <2>3, <3>1
  <2>. HIDE DEF p, O
  <2>6. got <= r.grefs /\ got <= RingSize /\ r.grefs - got \in Nat /\ (r.grefs - got) + (O + got) = RingSize
    BY <1>1, <1>2, <1>3
  <2>7. fails = FALSE
    <3>1. ~(got > r.grefs) /\ ~(got > RingSize)
      BY <1>1, <1>2, <1>3, <2>6
    <3>. QED  BY <1>5, <2>5, <3>1 DEF CannotPost, fails
  <2>8. /\ u \in RxRings /\ u.pvt = p /\ u.cons = r.cons /\ u.req_prod = r.req_prod /\ u.rsp_prod = r.rsp_prod
        /\ u.skbs = RxSlots(r.cons, O + got) /\ u.grefs = r.grefs - got /\ u.batch = 0 /\ u.rsps = r.rsps
        /\ u.req_event = r.req_event /\ u.rsp_event = r.rsp_event
    <3>1. u = [x EXCEPT !.skbs = RxSlots(r.cons, O + got), !.grefs = r.grefs - got, !.pvt = p, !.batch = 0]
      BY <1>5, <2>5 DEF PostBatch, p, RxRings
    <3>2. RxSlots(r.cons, O + got) \subseteq 0..RingSize - 1
      <4>1. \A n \in 0..RingSize : RxSlots(r.cons, n) \subseteq 0..RingSize - 1
        BY <1>1, RxSlotsTyped
      <4>. QED  BY <2>4, <4>1
    <3>. HIDE DEF u
    <3>. QED  BY <1>5, <2>2, <2>6, <3>1, <3>2 DEF RxRings
  <2>. HIDE DEF u
  <2>9. Outstanding(u) = O + got
    BY <2>2, <2>8 DEF Outstanding
  <2>10. BuffersOk(u)
    <3>1. 0 + (O + got) <= RingSize
      BY <1>2, <1>3, <2>4
    <3>. QED  BY <2>6, <2>8, <2>9, <3>1 DEF BuffersOk
  <2>11. OrderOk(u)
    <3>1. Minus(r.req_prod, r.cons) \in Nat /\ Minus(r.req_prod, r.cons) <= O
      BY RxMeasures DEF O
    <3>2. Minus(r.req_prod, r.cons) <= O + got
      BY <1>2, <1>3, <3>1
    <3>. QED  BY <1>1, <2>8, <2>9, <3>2 DEF OrderOk
  <2>12. ~short => MinTarget <= Outstanding(u)
    <3>. HIDE DEF t
    <3>. QED  BY <1>2, <1>3, <1>7, <2>9
  <2>13. RxOk(u) /\ (~short => Enough(u))
    BY <2>8, <2>10, <2>11, <2>12 DEF RxOk, Enough
  <2>14. /\ u.cons = r.cons /\ u.req_prod = r.req_prod /\ u.rsp_prod = r.rsp_prod
         /\ u.req_event = r.req_event /\ u.rsp_event = r.rsp_event
    BY <2>8
  <2>. QED  BY <1>7, <2>1, <2>7, <2>13, <2>14, Zenon DEF Allotted
<1>. QED  BY <1>8, <1>9

(* netif_disconnect and the reconnection keep the buffers. *)
LEMMA RequeueRx ==
  ASSUME NEW r, RxOk(r), NEW u, u = RequeueRxBufs(r)
  PROVE  /\ RxOk(u) /\ u.cons = First /\ u.req_prod = First /\ u.rsp_prod = First
         /\ u.req_event = Plus(First, 1) /\ u.rsp_event = Plus(First, 1)
<1>. DEFINE O == Outstanding(r)
<1>1. r \in RxRings /\ r.cons \in Index /\ r.skbs = RxSlots(r.cons, O) /\ r.grefs + O = RingSize
      /\ r.batch + O <= RingSize
  BY RxTyped DEF RxOk, BuffersOk
<1>2. O \in 0..RingSize /\ O \in Nat /\ RingSize \in Nat
  <2>1. O \in 0..RingSize
    BY RxMeasures
  <2>. HIDE DEF O
  <2>. QED  BY <2>1, Sizes
<1>. HIDE DEF O
<1>3. Cardinality(r.skbs) = O
  BY <1>1, <1>2, RxSlotsTyped
<1>4. First \in Index /\ Plus(First, 1) \in Index /\ Minus(First, First) = 0
  <2>1. First \in Index /\ 1 \in 0..RingSize + 1
    BY Constants
  <2>. QED  BY <2>1, PlusType, MinusSelf
<1>5. Plus(First, O) \in Index /\ Minus(Plus(First, O), First) = O
  <2>1. O \in 0..RingSize + 1
    BY <1>2
  <2>. QED  BY <1>4, <2>1, PlusType
<1>6. RxSlots(First, O) \subseteq 0..RingSize - 1
  BY <1>2, <1>4, RxSlotsTyped
<1>7. /\ u \in RxRings /\ u.pvt = Plus(First, O) /\ u.cons = First /\ u.req_prod = First /\ u.rsp_prod = First
      /\ u.req_event = Plus(First, 1) /\ u.rsp_event = Plus(First, 1) /\ u.skbs = RxSlots(First, O)
      /\ u.grefs = r.grefs /\ u.batch = r.batch /\ u.rsps = <<>>
  <2>1. u = [r EXCEPT !.cons = First, !.req_prod = First, !.req_event = Plus(First, 1),
                      !.rsp_prod = First, !.rsp_event = Plus(First, 1),
                      !.skbs = RxSlots(First, O), !.pvt = Plus(First, O), !.rsps = <<>>]
    BY <1>1, <1>3 DEF RequeueRxBufs, NewRing, RxRings
  <2>2. <<>> \in Seq(Messages)
    OBVIOUS
  <2>3. /\ u.pvt = Plus(First, O) /\ u.cons = First /\ u.req_prod = First /\ u.rsp_prod = First
        /\ u.req_event = Plus(First, 1) /\ u.rsp_event = Plus(First, 1) /\ u.skbs = RxSlots(First, O)
        /\ u.grefs = r.grefs /\ u.batch = r.batch /\ u.rsps = <<>> /\ u.target = r.target
    BY <1>1, <2>1 DEF RxRings
  <2>4. u \in RxRings
    <3>. DEFINE P == Plus(First, O)  E == Plus(First, 1)  K == RxSlots(First, O)
    <3>1. P \in Index /\ E \in Index /\ K \in SUBSET (0..RingSize - 1) /\ First \in Index
      BY <1>4, <1>5, <1>6
    <3>2. /\ u = [pvt |-> P, cons |-> First, req_prod |-> First, req_event |-> E,
                   rsp_prod |-> First, rsp_event |-> E, skbs |-> K, grefs |-> r.grefs,
                   batch |-> r.batch, target |-> r.target, rsps |-> <<>>]
          /\ r.grefs \in Nat /\ r.batch \in Nat /\ r.target \in MinTarget..MaxTarget
      BY <1>1, <2>1 DEF RxRings
    <3>. HIDE DEF P, E, K
    <3>. QED  BY <2>2, <3>1, <3>2 DEF RxRings
  <2>. QED  BY <2>3, <2>4
<1>8. Outstanding(u) = O
  BY <1>5, <1>7 DEF Outstanding
<1>9. BuffersOk(u)
  BY <1>1, <1>7, <1>8 DEF BuffersOk
<1>10. OrderOk(u)
  <2>1. 0 <= 0 /\ 0 <= O
    BY <1>2
  <2>. QED  BY <1>4, <1>7, <1>8, <2>1, StackedNone DEF OrderOk
<1>. QED  BY <1>7, <1>9, <1>10 DEF RxOk

--------------------------------------------------------------------------------
(* Inv holds at first. *)
LEMMA InitTx ==
  ASSUME Init
  PROVE  TxOk(tx, back.tx_cons) /\ Outstanding(tx) = 0
<1>. DEFINE v == [i \in Ids |-> i]
<1>1. /\ First \in Index /\ Plus(First, 1) \in Index /\ RingSize \in Nat \ {0} /\ 1 \in 0..RingSize + 1
      /\ Minus(First, First) = 0
  <2>1. First \in Index /\ RingSize \in Nat \ {0} /\ 1 \in 0..RingSize + 1
    BY Constants
  <2>. QED  BY <2>1, PlusType, MinusSelf
<1>2. v \in Seq(Ids) /\ Len(v) = RingSize /\ ToSet(v) = Ids
  <2>1. v \in [1..RingSize -> Ids] /\ RingSize \in Nat
    BY <1>1 DEF Ids
  <2>2. v \in Seq(Ids) /\ Len(v) = RingSize
    <3>. HIDE DEF v
    <3>. QED  BY <2>1
  <2>3. ToSet(v) = {v[i] : i \in 1..Len(v)}
    BY <2>2, Members
  <2>4. {v[i] : i \in Ids} = Ids
    OBVIOUS
  <2>5. 1..Len(v) = Ids
    BY <2>2 DEF Ids
  <2>. QED  BY <2>2, <2>3, <2>4, <2>5
<1>. HIDE DEF v
<1>3. /\ tx.pvt = First /\ tx.cons = First /\ tx.req_prod = First /\ tx.rsp_prod = First
      /\ tx.free = v /\ tx.grefs = RingSize /\ tx.reqs = <<>> /\ tx.taken = {} /\ tx.rsps = <<>>
      /\ back.tx_cons = First
  BY DEF Init, NoBack, v
<1>4. tx \in TxRings
  <2>1. <<>> \in Seq(Ids) /\ <<>> \in Seq(Entry)
    OBVIOUS
  <2>2. tx = [pvt |-> First, cons |-> First, req_prod |-> First, req_event |-> Plus(First, 1),
             rsp_prod |-> First, rsp_event |-> Plus(First, 1),
             free |-> v, grefs |-> RingSize, reqs |-> <<>>, taken |-> {}, rsps |-> <<>>]
    BY DEF Init, v
  <2>. QED  BY <1>1, <1>2, <2>1, <2>2 DEF TxRings
<1>5. Len(<<>>) = 0 /\ WeighSet({}) = 0 /\ Cardinality({}) = 0 /\ Weigh(<<>>, 0) = 0 /\ ToSet(<<>>) = {}
      /\ ReqIds(<<>>) = {} /\ TakenIds({}) = {}
  <2>1. Len(<<>>) = 0 /\ 1..0 = {}
    OBVIOUS
  <2>2. ReqIds(<<>>) = {}
    BY <2>1 DEF ReqIds
  <2>3. TakenIds({}) = {}
    BY DEF TakenIds
  <2>. QED  BY <2>1, <2>2, <2>3, WeighSetNone, WeighTyped, MembersNone
<1>6. IdsOk(tx)
  <2>1. Owned(v, <<>>, {}, <<>>) = Ids
    BY <1>2, <1>5 DEF Owned
  <2>2. Len(v) + Len(<<>>) + Cardinality({}) + Len(<<>>) = RingSize
    BY <1>1, <1>2, <1>5
  <2>. QED  BY <1>2, <1>3, <2>1, <2>2 DEF IdsOk, Accounted
<1>7. Outstanding(tx) = 0
  BY <1>1, <1>3 DEF Outstanding
<1>8. IndexOk(tx, First)
  <2>1. 0 \in 0..0 /\ 0 + 0 = 0 /\ 0 <= 0 /\ 0 <= RingSize
    BY <1>1
  <2>2. \E k \in 0..Len(tx.reqs) : Minus(tx.req_prod, tx.cons) = Minus(First, tx.cons) + Weigh(tx.reqs, k)
    BY <1>1, <1>3, <1>5, <2>1
  <2>. QED  BY <1>1, <1>3, <1>5, <1>7, <2>1, <2>2 DEF IndexOk
<1>. QED  BY <1>1, <1>3, <1>4, <1>6, <1>7, <1>8 DEF TxOk

LEMMA InitRx ==
  ASSUME Init
  PROVE  RxOk(rx)
<1>1. /\ First \in Index /\ Plus(First, 1) \in Index /\ RingSize \in Nat \ {0}
      /\ MinTarget \in MinTarget..MaxTarget /\ Minus(First, First) = 0
  <2>1. First \in Index /\ RingSize \in Nat \ {0} /\ 1 \in 0..RingSize + 1 /\ MinTarget \in MinTarget..MaxTarget
    BY Constants
  <2>. QED  BY <2>1, PlusType, MinusSelf
<1>2. rx = [pvt |-> First, cons |-> First, req_prod |-> First, req_event |-> Plus(First, 1),
             rsp_prod |-> First, rsp_event |-> Plus(First, 1),
             skbs |-> {}, grefs |-> RingSize, batch |-> 0, target |-> MinTarget, rsps |-> <<>>]
  BY DEF Init
<1>3. rx \in RxRings
  <2>1. <<>> \in Seq(Messages)
    OBVIOUS
  <2>. QED  BY <1>1, <1>2, <2>1 DEF RxRings
<1>4. Outstanding(rx) = 0
  BY <1>1, <1>2 DEF Outstanding
<1>5. BuffersOk(rx)
  BY <1>1, <1>2, <1>4, RxSlotsNone DEF BuffersOk
<1>6. OrderOk(rx)
  BY <1>1, <1>2, <1>4, StackedNone DEF OrderOk
<1>. QED  BY <1>3, <1>5, <1>6 DEF RxOk

LEMMA LeftTyped ==
  ASSUME QuietClose, NEW l \in Loads
  PROVE  l \in Lefts /\ (l.closes = 0 \/ l.sends = 0)
  BY NetAssumption DEF QuietClose, Lefts

LEMMA Room0 == 0 < MaxTarget - MaxFrags - 2
  BY Sizes DEF MaxTarget

LEMMA InitInv ==
  ASSUME Init, QuietClose
  PROVE  Inv
<1>1. TxOk(tx, back.tx_cons) /\ Outstanding(tx) = 0
  BY InitTx
<1>2. RxOk(rx)
  BY InitRx
<1>3. /\ First \in Index /\ 0 \in Index /\ Plus(First, 1) \in Index /\ Minus(Plus(First, 1), First) = 1
      /\ NoPush \in 0..Wrap /\ 0 \div 2 + 1 = 1
  <2>1. First \in Index /\ 0 \in Index /\ 1 \in 0..RingSize + 1 /\ Wrap \in Nat
    BY Constants
  <2>. QED  BY <2>1, PlusType DEF NoPush
<1>4. StackOk
  BY DEF Init, StackOk
<1>5. SendOk
  BY <1>1, <1>3 DEF Init, SendOk, Senders, Free
<1>6. QueueOk
  BY <1>1, LeftTyped, Room0 DEF Init, QueueOk, SlotAvailable
<1>7. RecvOk
  BY <1>3 DEF Init, RecvOk, Receivers, Free
<1>8. BackOk
  BY <1>3 DEF Init, BackOk, NoBack, Backs
<1>. QED  BY <1>1, <1>2, <1>4, <1>5, <1>6, <1>7, <1>8 DEF Inv, Init

--------------------------------------------------------------------------------
(* What a step does not touch. *)
LEMMA StackSame ==
  ASSUME StackOk, UNCHANGED <<napi, disabling, timer, running, stopped, rtnl>>
  PROVE  StackOk'
  BY DEF StackOk

LEMMA SendSame ==
  ASSUME SendOk, UNCHANGED <<send, carrier>>,
         tx'.pvt = tx.pvt, tx'.req_prod = tx.req_prod, tx'.cons = tx.cons, tx'.rsp_event = tx.rsp_event
  PROVE  SendOk'
  BY DEF SendOk, Outstanding

LEMMA QueueSame ==
  ASSUME QueueOk, UNCHANGED <<stopped, send, left, running, rtnl>>, Outstanding(tx') = Outstanding(tx)
  PROVE  QueueOk'
  BY DEF QueueOk, SlotAvailable

LEMMA RecvSame ==
  ASSUME RecvOk, UNCHANGED <<recv, carrier, napi, rtnl, running>>,
         rx'.rsp_event = rx.rsp_event, rx'.cons = rx.cons
  PROVE  RecvOk'
  BY DEF RecvOk

LEMMA BackSame ==
  ASSUME BackOk, UNCHANGED <<back, carrier, link>>, irq' \in BOOLEAN, bell' \in BOOLEAN,
         rx'.rsp_prod = rx.rsp_prod, tx'.req_event = tx.req_event, rx'.req_event = rx.req_event
  PROVE  BackOk'
  BY DEF BackOk

LEMMA Parts ==
  Inv <=> /\ TxOk(tx, back.tx_cons) /\ RxOk(rx) /\ bug = FALSE
          /\ StackOk /\ SendOk /\ QueueOk /\ RecvOk /\ BackOk
  BY DEF Inv

LEMMA BackTyped ==
  ASSUME BackOk
  PROVE  /\ back \in Backs /\ back.up \in BOOLEAN /\ back.tx \in {"awake", "recheck", "asleep"}
         /\ back.rx \in {"awake", "recheck", "asleep"} /\ back.tx_cons \in Index /\ back.rx_cons \in Index
         /\ irq \in BOOLEAN /\ bell \in BOOLEAN
  BY DEF BackOk, Backs

--------------------------------------------------------------------------------
(* Inv is kept: transmit. *)
LEMMA StartXmitKeeps ==
  ASSUME Inv, NEW n \in 1..MaxFrags + 1, NEW extra \in BOOLEAN, StartXmit(n, extra)
  PROVE  Inv'
<1>. USE DEF napiVars, stackVars, linkVars
<1>1. /\ TxOk(tx, back.tx_cons) /\ RxOk(rx) /\ bug = FALSE
      /\ StackOk /\ SendOk /\ QueueOk /\ RecvOk /\ BackOk
  BY Parts
<1>2. /\ UNCHANGED <<rx, recv, napi, disabling, timer, running, stopped, rtnl, carrier, link, irq, bell, back>>
      /\ left.sends > 0 /\ running /\ rtnl # "open" /\ ~stopped /\ send = Free
      /\ left' = [left EXCEPT !.sends = @ - 1]
  BY DEF StartXmit
<1>3. SlotAvailable(tx) /\ send.by = "none" /\ send.at = "free"
  BY <1>1, <1>2 DEF QueueOk, Free
<1>4. left' \in Lefts /\ left'.closes = 0
  BY <1>1, <1>2 DEF QueueOk, Lefts
<1>5. RxOk(rx') /\ StackOk' /\ RecvOk'
  BY <1>1, <1>2, StackSame, RecvSame
<1>6. CASE ~carrier
  <2>1. UNCHANGED <<tx, send, bug>>
    BY <1>6 DEF StartXmit
  <2>2. SendOk'
    BY <1>1, <1>2, <2>1, SendSame
  <2>3. BackOk'
    BY <1>1, <1>2, <2>1, BackSame, BackTyped
  <2>4. QueueOk'
    BY <1>1, <1>2, <1>3, <1>4, <2>1 DEF QueueOk, SlotAvailable, Outstanding
  <2>5. TxOk(tx', back'.tx_cons) /\ bug' = FALSE
    BY <1>1, <1>2, <2>1
  <2>. QED  BY <1>5, <2>2, <2>3, <2>4, <2>5 DEF Inv
<1>7. CASE carrier
  <2>. DEFINE u == [tx EXCEPT
                         !.free = SubSeq(@, n + 1, Len(@)), !.grefs = @ - n,
                         !.reqs = @ \o Entries(SubSeq(tx.free, 1, n), extra),
                         !.pvt = Plus(@, IF extra THEN n + 1 ELSE n)]
  <2>1. /\ n <= Len(tx.free) /\ n <= tx.grefs
        /\ TxOk(u, back.tx_cons) /\ Outstanding(tx) <= Outstanding(u)
        /\ u.cons = tx.cons /\ u.req_prod = tx.req_prod /\ u.req_event = tx.req_event
        /\ u.rsp_prod = tx.rsp_prod /\ u.rsp_event = tx.rsp_event
    <3>1. u = Sent(tx, n, extra)
      BY DEF Sent
    <3>. HIDE DEF u
    <3>. QED  BY <1>1, <1>3, <3>1, XmitTx
  <2>2. ~(Len(tx.free) < n \/ tx.grefs < n)
    <3>1. Len(tx.free) \in Nat /\ tx.grefs \in Nat
      BY <1>1, TxTyped, LenProperties DEF TxOk
    <3>. QED  BY <2>1, <3>1
  <2>3. tx' = u /\ bug' = FALSE /\ send' = [Free EXCEPT !.at = "push", !.by = "xmit"]
    BY <1>1, <1>7, <2>2 DEF StartXmit
  <2>. HIDE DEF u
  <2>4. TxOk(tx', back'.tx_cons)
    BY <1>2, <2>1, <2>3
  <2>5. SendOk'
    <3>1. /\ send'.at = "push" /\ send'.by = "xmit" /\ send' \in Senders /\ send' # Free
      BY <2>3, Constants DEF Free, Senders
    <3>2. /\ 1 <= Minus(tx.rsp_event, tx.cons)
          /\ Minus(tx.rsp_event, tx.cons) <= Outstanding(tx) \div 2 + 1
      BY <1>1, <1>3 DEF SendOk
    <3>3. Minus(u.rsp_event, u.cons) <= Outstanding(u) \div 2 + 1
      <4>. DEFINE e == Minus(tx.rsp_event, tx.cons)  x == Outstanding(tx)  y == Outstanding(u)
      <4>1. e \in Nat /\ x \in Nat /\ y \in Nat /\ x <= y /\ e <= x \div 2 + 1
        BY <1>1, <2>1, <3>2, TxMeasures, TxTyped, MinusType DEF TxOk
      <4>. HIDE DEF e, x, y
      <4>2. e <= y \div 2 + 1
        BY <4>1
      <4>. QED  BY <2>1, <4>2 DEF e, y
    <3>. QED  BY <1>2, <1>7, <2>1, <2>3, <3>1, <3>2, <3>3 DEF SendOk
  <2>6. QueueOk'
    <3>1. send'.by = "xmit" /\ send' # Free
      BY <2>3 DEF Free
    <3>. QED  BY <1>1, <1>2, <1>4, <3>1 DEF QueueOk
  <2>7. BackOk'
    BY <1>1, <1>2, <2>1, <2>3, BackSame, BackTyped
  <2>. QED  BY <1>5, <2>3, <2>4, <2>5, <2>6, <2>7 DEF Inv
<1>. QED  BY <1>6, <1>7

LEMMA XmitPushKeeps ==
  ASSUME Inv, XmitPush
  PROVE  Inv'
<1>. USE DEF napiVars, stackVars, linkVars
<1>1. /\ TxOk(tx, back.tx_cons) /\ RxOk(rx) /\ bug = FALSE
      /\ StackOk /\ SendOk /\ QueueOk /\ RecvOk /\ BackOk
  BY Parts
<1>2. /\ UNCHANGED <<rx, recv, napi, disabling, timer, running, stopped, rtnl, carrier, link, irq, bell, back, left, bug>>
      /\ send.at = "push" /\ send' = [send EXCEPT !.at = "notify", !.old = tx.req_prod]
      /\ tx' = [tx EXCEPT !.req_prod = tx.pvt]
  BY DEF XmitPush
<1>3. /\ TxOk(tx', back.tx_cons) /\ Outstanding(tx') = Outstanding(tx)
      /\ tx'.pvt = tx.pvt /\ tx'.cons = tx.cons /\ tx'.req_prod = tx.pvt /\ tx'.req_event = tx.req_event
      /\ tx'.rsp_event = tx.rsp_event
  BY <1>1, <1>2, PushTx
<1>4. RxOk(rx') /\ StackOk' /\ RecvOk' /\ BackOk'
  BY <1>1, <1>2, <1>3, StackSame, RecvSame, BackSame, BackTyped
<1>5. /\ send' \in Senders /\ send'.at = "notify" /\ send'.by = send.by /\ send' # Free /\ send # Free
  BY <1>1, <1>2, TxTyped DEF SendOk, Senders, Free, TxOk
<1>6. SendOk'
  BY <1>1, <1>2, <1>3, <1>5 DEF SendOk
<1>7. QueueOk'
  BY <1>1, <1>2, <1>3, <1>5 DEF QueueOk, SlotAvailable
<1>8. TxOk(tx', back'.tx_cons) /\ bug' = FALSE
  BY <1>1, <1>2, <1>3
<1>. QED  BY <1>4, <1>6, <1>7, <1>8 DEF Inv

LEMMA XmitNotifyKeeps ==
  ASSUME Inv, XmitNotify
  PROVE  Inv'
<1>. USE DEF napiVars, stackVars, linkVars
<1>1. /\ TxOk(tx, back.tx_cons) /\ RxOk(rx) /\ bug = FALSE
      /\ StackOk /\ SendOk /\ QueueOk /\ RecvOk /\ BackOk
  BY Parts
<1>2. /\ UNCHANGED <<tx, rx, recv, napi, disabling, timer, running, stopped, rtnl, carrier, link, irq, back, left, bug>>
      /\ send.at = "notify" /\ send' = [send EXCEPT !.at = "gc", !.old = 0]
      /\ bell' \in BOOLEAN
  BY DEF XmitNotify
<1>3. RxOk(rx') /\ StackOk' /\ RecvOk' /\ BackOk'
  BY <1>1, <1>2, StackSame, RecvSame, BackSame, BackTyped
<1>4. /\ send' \in Senders /\ send'.at = "gc" /\ send'.by = send.by /\ send' # Free /\ send # Free
  BY <1>1, <1>2, Constants DEF SendOk, Senders, Free
<1>5. SendOk'
  BY <1>1, <1>2, <1>4 DEF SendOk
<1>6. QueueOk'
  BY <1>1, <1>2, <1>4 DEF QueueOk, SlotAvailable
<1>7. TxOk(tx', back'.tx_cons) /\ bug' = FALSE
  BY <1>1, <1>2
<1>. QED  BY <1>3, <1>5, <1>6, <1>7 DEF Inv

LEMMA InterruptKeeps ==
  ASSUME Inv, Interrupt
  PROVE  Inv'
<1>. USE DEF napiVars, stackVars, linkVars
<1>1. /\ TxOk(tx, back.tx_cons) /\ RxOk(rx) /\ bug = FALSE
      /\ StackOk /\ SendOk /\ QueueOk /\ RecvOk /\ BackOk
  BY Parts
<1>2. /\ UNCHANGED <<tx, rx, recv, napi, disabling, timer, running, stopped, rtnl, carrier, link, bell, back, left, bug>>
      /\ send = Free /\ irq' = FALSE
      /\ send' = IF carrier THEN [Free EXCEPT !.at = "gc", !.by = "irq"] ELSE send
  BY DEF Interrupt
<1>3. RxOk(rx') /\ StackOk' /\ RecvOk' /\ BackOk'
  BY <1>1, <1>2, StackSame, RecvSame, BackSame, BackTyped
<1>4. TxOk(tx', back'.tx_cons) /\ bug' = FALSE
  BY <1>1, <1>2
<1>5. CASE carrier
  <2>1. /\ send' \in Senders /\ send'.at = "gc" /\ send'.by = "irq" /\ send' # Free
        /\ send.by = "none" /\ send.at = "free"
    BY <1>2, <1>5, Constants DEF Senders, Free
  <2>2. SendOk'
    BY <1>1, <1>2, <1>5, <2>1 DEF SendOk
  <2>3. QueueOk'
    BY <1>1, <1>2, <2>1 DEF QueueOk, SlotAvailable
  <2>. QED  BY <1>3, <1>4, <2>2, <2>3 DEF Inv
<1>6. CASE ~carrier
  <2>1. SendOk' /\ QueueOk'
    BY <1>1, <1>2, <1>6, SendSame, QueueSame
  <2>. QED  BY <1>3, <1>4, <2>1 DEF Inv
<1>. QED  BY <1>5, <1>6

LEMMA TxBufGcKeeps ==
  ASSUME Inv, TxBufGc
  PROVE  Inv'
<1>. USE DEF napiVars, stackVars, linkVars
<1>1. /\ TxOk(tx, back.tx_cons) /\ RxOk(rx) /\ bug = FALSE
      /\ StackOk /\ SendOk /\ QueueOk /\ RecvOk /\ BackOk
  BY Parts
<1>2. /\ UNCHANGED <<rx, recv, napi, disabling, timer, running, stopped, rtnl, carrier, link, irq, bell, back, left, bug>>
      /\ send.at = "gc" /\ send' = [send EXCEPT !.at = "event", !.seen = tx.rsp_prod]
      /\ tx' = Reclaim(tx)
  BY DEF TxBufGc
<1>3. /\ TxOk(tx', back.tx_cons) /\ Outstanding(tx') = Outstanding(tx) - Minus(tx.rsp_prod, tx.cons)
      /\ tx'.pvt = tx.pvt /\ tx'.cons = tx.rsp_prod /\ tx'.req_prod = tx.req_prod /\ tx'.req_event = tx.req_event
  BY <1>1, <1>2, ReclaimTx
<1>4. RxOk(rx') /\ StackOk' /\ RecvOk' /\ BackOk'
  BY <1>1, <1>2, <1>3, StackSame, RecvSame, BackSame, BackTyped
<1>5. /\ send' \in Senders /\ send'.at = "event" /\ send'.by = send.by /\ send' # Free /\ send # Free
      /\ send'.seen = tx.rsp_prod
  BY <1>1, <1>2, TxTyped DEF SendOk, Senders, Free, TxOk
<1>6. SendOk'
  BY <1>1, <1>2, <1>3, <1>5 DEF SendOk
<1>7. Outstanding(tx') <= Outstanding(tx) /\ (Outstanding(tx) = 0 => Outstanding(tx') = 0)
      /\ Outstanding(tx') \in Nat /\ Outstanding(tx) \in Nat
  <2>. DEFINE x == Outstanding(tx)  y == Outstanding(tx')  a == Minus(tx.rsp_prod, tx.cons)
  <2>1. x \in Nat /\ y \in Nat /\ a \in Nat /\ y = x - a
    BY <1>1, <1>3, TxMeasures
  <2>. HIDE DEF x, y, a
  <2>2. y <= x /\ (x = 0 => y = 0)
    BY <2>1
  <2>. QED  BY <2>1, <2>2 DEF x, y
<1>8. SlotAvailable(tx) => SlotAvailable(tx')
  BY <1>7, Constants DEF SlotAvailable
<1>9. QueueOk'
  BY <1>1, <1>2, <1>5, <1>7, <1>8 DEF QueueOk
<1>10. TxOk(tx', back'.tx_cons) /\ bug' = FALSE
  BY <1>1, <1>2, <1>3
<1>. QED  BY <1>4, <1>6, <1>9, <1>10 DEF Inv

LEMMA TxEventTyped ==
  ASSUME NEW t, NEW c, TxOk(t, c), t.req_prod = t.pvt
  PROVE  /\ TxEvent(t, t.cons) \in Index
         /\ Minus(TxEvent(t, t.cons), t.cons) = Outstanding(t) \div 2 + 1
         /\ Outstanding(t) \div 2 + 1 \in 1..RingSize + 1
<1>. DEFINE O == Minus(t.pvt, t.cons)
<1>1. t.cons \in Index /\ O \in Nat /\ O <= RingSize
  BY TxMeasures, TxTyped DEF TxOk, Outstanding
<1>2. TxEvent(t, t.cons) = Plus(t.cons, O \div 2 + 1)
  BY DEF TxEvent
<1>3. O = Outstanding(t)
  BY DEF Outstanding
<1>. HIDE DEF O
<1>4. O \div 2 + 1 \in 1..RingSize + 1 /\ O \div 2 + 1 \in 0..RingSize + 1
  BY <1>1, Sizes
<1>5. Plus(t.cons, O \div 2 + 1) \in Index /\ Minus(Plus(t.cons, O \div 2 + 1), t.cons) = O \div 2 + 1
  BY <1>1, <1>4, PlusType
<1>. QED  BY <1>2, <1>3, <1>4, <1>5

LEMMA TxSetEventKeeps ==
  ASSUME Inv, TxSetEvent
  PROVE  Inv'
<1>. USE DEF napiVars, stackVars, linkVars
<1>1. /\ TxOk(tx, back.tx_cons) /\ RxOk(rx) /\ bug = FALSE
      /\ StackOk /\ SendOk /\ QueueOk /\ RecvOk /\ BackOk
  BY Parts
<1>. DEFINE e == TxEvent(tx, tx.cons)
<1>2. /\ UNCHANGED <<rx, recv, napi, disabling, timer, running, stopped, rtnl, carrier, link, irq, bell, back, left, bug>>
      /\ send.at = "event" /\ send' = [send EXCEPT !.at = "recheck"]
      /\ tx' = [tx EXCEPT !.rsp_event = TxEvent(tx, send.seen)]
  BY DEF TxSetEvent
<1>3. send.seen = tx.cons /\ tx.req_prod = tx.pvt /\ tx' = [tx EXCEPT !.rsp_event = e]
  BY <1>1, <1>2 DEF SendOk
<1>4. e \in Index /\ Minus(e, tx.cons) = Outstanding(tx) \div 2 + 1 /\ Outstanding(tx) \div 2 + 1 \in 1..RingSize + 1
  BY <1>1, <1>3, TxEventTyped
<1>. HIDE DEF e
<1>5. /\ TxOk(tx', back.tx_cons) /\ Outstanding(tx') = Outstanding(tx)
      /\ tx'.pvt = tx.pvt /\ tx'.cons = tx.cons /\ tx'.req_prod = tx.req_prod /\ tx'.rsp_prod = tx.rsp_prod
      /\ tx'.rsp_event = e /\ tx'.req_event = tx.req_event
  BY <1>1, <1>3, <1>4, EventTx
<1>6. RxOk(rx') /\ StackOk' /\ RecvOk' /\ BackOk'
  BY <1>1, <1>2, <1>5, StackSame, RecvSame, BackSame, BackTyped
<1>7. /\ send' \in Senders /\ send'.at = "recheck" /\ send'.by = send.by /\ send' # Free /\ send # Free
      /\ send'.seen = send.seen
  BY <1>1, <1>2 DEF SendOk, Senders, Free
<1>8. SendOk'
  <2>1. /\ 1 <= Outstanding(tx) \div 2 + 1 /\ Outstanding(tx) \div 2 + 1 <= Outstanding(tx) \div 2 + 1
    BY <1>4, Sizes
  <2>. QED  BY <1>1, <1>2, <1>3, <1>4, <1>5, <1>7, <2>1 DEF SendOk
<1>9. QueueOk'
  BY <1>1, <1>2, <1>5, <1>7 DEF QueueOk, SlotAvailable
<1>10. TxOk(tx', back'.tx_cons) /\ bug' = FALSE
  BY <1>1, <1>2, <1>5
<1>. QED  BY <1>6, <1>8, <1>9, <1>10 DEF Inv

LEMMA TxRecheckKeeps ==
  ASSUME Inv, TxRecheck
  PROVE  Inv'
<1>. USE DEF napiVars, stackVars, linkVars
<1>1. /\ TxOk(tx, back.tx_cons) /\ RxOk(rx) /\ bug = FALSE
      /\ StackOk /\ SendOk /\ QueueOk /\ RecvOk /\ BackOk
  BY Parts
<1>2. /\ UNCHANGED <<tx, rx, recv, disabling, timer, running, rtnl, carrier, link, irq, bell, back, left, bug>>
      /\ send.at = "recheck"
  BY DEF TxRecheck
<1>3. TxOk(tx', back'.tx_cons) /\ bug' = FALSE /\ RxOk(rx') /\ BackOk' /\ send # Free
  BY <1>1, <1>2, BackSame, BackTyped DEF Free
<1>4. CASE tx.rsp_prod # send.seen
  <2>1. send' = [send EXCEPT !.at = "gc"] /\ UNCHANGED <<stopped, napi>>
    BY <1>4 DEF TxRecheck
  <2>2. /\ send' \in Senders /\ send'.at = "gc" /\ send'.by = send.by /\ send' # Free
    BY <1>1, <1>2, <2>1 DEF SendOk, Senders, Free
  <2>3. SendOk'
    BY <1>1, <1>2, <2>2 DEF SendOk
  <2>4. QueueOk'
    BY <1>1, <1>2, <1>3, <2>1, <2>2 DEF QueueOk
  <2>5. StackOk' /\ RecvOk'
    BY <1>1, <1>2, <2>1, StackSame, RecvSame
  <2>. QED  BY <1>3, <2>3, <2>4, <2>5 DEF Inv
<1>5. CASE tx.rsp_prod = send.seen
  <2>1. /\ send' = Free
        /\ stopped' = (StaysStopped \/ (send.by = "xmit" /\ ~SlotAvailable(tx)))
        /\ napi' = IF send.by = "irq" /\ Unconsumed(rx) THEN Scheduled ELSE napi
    BY <1>5 DEF TxRecheck
  <2>2. /\ send' \in Senders /\ send'.at = "free" /\ send'.by = "none"
    BY <2>1, Constants DEF Senders, Free
  <2>3. SendOk'
    BY <1>1, <1>2, <2>1, <2>2 DEF SendOk
  <2>4. QueueOk'
    <3>1. ~stopped' => SlotAvailable(tx)
      BY <1>1, <2>1 DEF QueueOk, StaysStopped
    <3>2. running /\ stopped' => ~SlotAvailable(tx)
      BY <1>1, <2>1 DEF StaysStopped
    <3>. QED  BY <1>1, <1>2, <2>1, <3>1, <3>2 DEF QueueOk
  <2>5. StackOk' /\ RecvOk'
    <3>1. napi' \in {napi, "sched"} /\ (napi' # napi => napi = "idle") /\ stopped' \in BOOLEAN
      BY <2>1 DEF Scheduled
    <3>2. StackOk'
      BY <1>1, <1>2, <3>1 DEF StackOk
    <3>3. RecvOk'
      BY <1>1, <1>2, <3>1 DEF RecvOk
    <3>. QED  BY <3>2, <3>3
  <2>. QED  BY <1>3, <2>3, <2>4, <2>5 DEF Inv
<1>. QED  BY <1>4, <1>5

--------------------------------------------------------------------------------
(* Inv is kept: receive. *)
LEMMA SpendTyped ==
  ASSUME left \in Lefts, NEW a, Allowed(a), left' = Spend(a)
  PROVE  left' \in Lefts /\ left'.sends = left.sends /\ left'.closes = left.closes
<1>1. CASE a.short
  <2>1. left.shortages > 0 /\ left' = [left EXCEPT !.shortages = @ - 1]
    BY <1>1 DEF Allowed, Spend
  <2>. QED  BY <2>1 DEF Lefts
<1>2. CASE ~a.short
  <2>1. left' = left
    BY <1>2 DEF Spend
  <2>. QED  BY <2>1
<1>. QED  BY <1>1, <1>2

LEMMA QueueSpent ==
  ASSUME QueueOk, UNCHANGED <<stopped, send, running, rtnl>>, Outstanding(tx') = Outstanding(tx),
         left' \in Lefts, left'.sends = left.sends, left'.closes = left.closes
  PROVE  QueueOk'
  BY DEF QueueOk, SlotAvailable

(* What a poll leaves of the receive ring. *)
LEMMA PollRx ==
  ASSUME Inv, Poll
  PROVE  /\ RxOk(rx') /\ bug' = FALSE
         /\ \E k \in 0..RingSize : k <= Minus(rx.rsp_prod, rx.cons) /\ rx'.cons = Plus(rx.cons, k)
         /\ rx'.req_prod = rx.req_prod /\ rx'.req_event = rx.req_event
         /\ rx'.rsp_prod = rx.rsp_prod /\ rx'.rsp_event = rx.rsp_event
         /\ left' \in Lefts /\ left'.sends = left.sends /\ left'.closes = left.closes
         /\ timer' \in BOOLEAN /\ (timer => timer') /\ (~timer' => Enough(rx'))
         /\ recv' \in Receivers /\ recv'.at \in {"push", "final"} /\ recv'.by \in {"poll", "full"}
         /\ recv' # Free /\ (recv'.at = "final" => ~(rx'.pvt > rx'.req_prod))
<1>. USE DEF napiVars, stackVars, linkVars
<1>1. /\ TxOk(tx, back.tx_cons) /\ RxOk(rx) /\ bug = FALSE
      /\ StackOk /\ SendOk /\ QueueOk /\ RecvOk /\ BackOk
  BY Parts
<1>. DEFINE m == AfterMessages(rx)  r == LowerTarget(m.rx)  full == Full(rx.rsps)
<1>3. PICK got \in Allocations(r) :
        LET a == AllocRxBuffers(r, got)
        IN  /\ Allowed(a) /\ left' = Spend(a)
            /\ rx' = a.rx /\ bug' = (bug \/ m.bug \/ a.bug)
            /\ timer' = (timer \/ a.short)
            /\ recv' = [Free EXCEPT !.at = IF a.push THEN "push" ELSE "final",
                                    !.by = IF full THEN "full" ELSE "poll"]
  BY DEF Poll
<1>. DEFINE a == AllocRxBuffers(r, got)
<1>4. /\ Allowed(a) /\ left' = Spend(a) /\ rx' = a.rx /\ bug' = (bug \/ m.bug \/ a.bug)
      /\ timer' = (timer \/ a.short)
      /\ recv' = [Free EXCEPT !.at = IF a.push THEN "push" ELSE "final",
                              !.by = IF full THEN "full" ELSE "poll"]
  BY <1>3
<1>5. /\ m.bug = FALSE /\ RxOk(m.rx) /\ m.rx.rsp_prod = rx.rsp_prod /\ m.rx.req_event = rx.req_event
      /\ m.rx.req_prod = rx.req_prod /\ m.rx.rsp_event = rx.rsp_event
      /\ \E k \in 0..RingSize : k <= Minus(rx.rsp_prod, rx.cons) /\ m.rx.cons = Plus(rx.cons, k)
  BY <1>1, AfterMessagesRx
<1>. HIDE DEF m
<1>6. /\ RxOk(r) /\ r.rsp_prod = rx.rsp_prod /\ r.req_event = rx.req_event
      /\ r.req_prod = rx.req_prod /\ r.rsp_event = rx.rsp_event /\ r.cons = m.rx.cons
  BY <1>5, LowerRx
<1>. HIDE DEF r
<1>7. /\ RxOk(a.rx) /\ a.bug = FALSE /\ a.rx.rsp_prod = rx.rsp_prod /\ a.rx.req_event = rx.req_event
      /\ a.rx.req_prod = rx.req_prod /\ a.rx.rsp_event = rx.rsp_event /\ a.rx.cons = m.rx.cons
      /\ a.short \in BOOLEAN /\ a.push \in BOOLEAN
      /\ (~a.short => Enough(a.rx)) /\ (~a.push => ~(a.rx.pvt > a.rx.req_prod))
  <2>1. /\ RxOk(a.rx) /\ a.bug = FALSE /\ a.rx.rsp_prod = r.rsp_prod /\ a.rx.req_event = r.req_event
        /\ a.rx.req_prod = r.req_prod /\ a.rx.rsp_event = r.rsp_event /\ a.rx.cons = r.cons
        /\ a.short \in BOOLEAN /\ a.push \in BOOLEAN
        /\ (~a.short => Enough(a.rx)) /\ (~a.push => ~(a.rx.pvt > a.rx.req_prod))
    <3>1. RxOk(r) /\ a = AllocRxBuffers(r, got)
      BY <1>6
    <3>. HIDE DEF a
    <3>2. Allotted(r, a)
      BY <3>1, AllocRx, Zenon
    <3>. QED  BY <3>2 DEF Allotted
  <2>. HIDE DEF a
  <2>. QED  BY <1>6, <2>1
<1>. HIDE DEF a, full
<1>8. timer \in BOOLEAN
  BY <1>1 DEF StackOk
<1>9. left' \in Lefts /\ left'.sends = left.sends /\ left'.closes = left.closes
  BY <1>1, <1>4, SpendTyped DEF QueueOk
<1>10. /\ recv' \in Receivers /\ recv'.at \in {"push", "final"} /\ recv'.by \in {"poll", "full"} /\ recv' # Free
       /\ (recv'.at = "final" => ~a.push)
  BY <1>4, Constants DEF Receivers, Free
<1>11. RxOk(rx') /\ bug' = FALSE
  BY <1>1, <1>4, <1>5, <1>7
<1>12. timer' \in BOOLEAN /\ (timer => timer') /\ (~timer' => Enough(rx'))
  BY <1>4, <1>7, <1>8
<1>. QED  BY <1>4, <1>5, <1>7, <1>9, <1>10, <1>11, <1>12

LEMMA PollKeeps ==
  ASSUME Inv, Poll
  PROVE  Inv'
<1>. USE DEF napiVars, stackVars, linkVars
<1>1. /\ TxOk(tx, back.tx_cons) /\ RxOk(rx) /\ bug = FALSE
      /\ StackOk /\ SendOk /\ QueueOk /\ RecvOk /\ BackOk
  BY Parts
<1>2. /\ UNCHANGED <<tx, send, napi, disabling, running, stopped, rtnl, carrier, link, irq, bell, back>>
      /\ napi = "sched" /\ recv = Free /\ carrier
  BY DEF Poll
<1>3. SendOk' /\ QueueOk' /\ BackOk' /\ TxOk(tx', back'.tx_cons) /\ RxOk(rx') /\ bug' = FALSE
  BY <1>1, <1>2, PollRx, SendSame, QueueSpent, BackSame, BackTyped
<1>4. StackOk'
  BY <1>1, <1>2, PollRx DEF StackOk
<1>5. RecvOk'
  BY <1>2, PollRx DEF RecvOk
<1>. QED  BY <1>3, <1>4, <1>5 DEF Inv

LEMMA RxPushKeeps ==
  ASSUME Inv, RxPush
  PROVE  Inv'
<1>. USE DEF napiVars, stackVars, linkVars
<1>1. /\ TxOk(tx, back.tx_cons) /\ RxOk(rx) /\ bug = FALSE
      /\ StackOk /\ SendOk /\ QueueOk /\ RecvOk /\ BackOk
  BY Parts
<1>2. /\ UNCHANGED <<tx, send, napi, disabling, timer, running, stopped, rtnl, carrier, link, irq, bell, back, left, bug>>
      /\ recv.at = "push" /\ recv' = [recv EXCEPT !.at = "notify", !.old = rx.req_prod]
      /\ rx' = [rx EXCEPT !.req_prod = rx.pvt]
  BY DEF RxPush
<1>3. /\ RxOk(rx') /\ rx'.cons = rx.cons /\ rx'.rsp_prod = rx.rsp_prod
      /\ rx'.rsp_event = rx.rsp_event /\ rx'.req_event = rx.req_event
  BY <1>1, <1>2, PushRx
<1>4. SendOk' /\ QueueOk' /\ BackOk' /\ StackOk' /\ TxOk(tx', back'.tx_cons) /\ bug' = FALSE
  BY <1>1, <1>2, <1>3, SendSame, QueueSame, BackSame, BackTyped, StackSame
<1>5. /\ recv' \in Receivers /\ recv'.at = "notify" /\ recv'.by = recv.by /\ recv' # Free /\ recv # Free
  BY <1>1, <1>2, RxTyped DEF RecvOk, Receivers, Free, RxOk
<1>6. RecvOk'
  BY <1>1, <1>2, <1>3, <1>5 DEF RecvOk
<1>. QED  BY <1>3, <1>4, <1>6 DEF Inv

LEMMA RxNotifyKeeps ==
  ASSUME Inv, RxNotify
  PROVE  Inv'
<1>. USE DEF napiVars, stackVars, linkVars
<1>1. /\ TxOk(tx, back.tx_cons) /\ RxOk(rx) /\ bug = FALSE
      /\ StackOk /\ SendOk /\ QueueOk /\ RecvOk /\ BackOk
  BY Parts
<1>2. /\ UNCHANGED <<tx, rx, send, napi, disabling, timer, running, stopped, rtnl, carrier, link, irq, back, left, bug>>
      /\ recv.at = "notify" /\ recv' = [recv EXCEPT !.at = "final", !.old = 0]
      /\ bell' \in BOOLEAN
  BY DEF RxNotify
<1>3. SendOk' /\ QueueOk' /\ BackOk' /\ StackOk' /\ TxOk(tx', back'.tx_cons) /\ RxOk(rx') /\ bug' = FALSE
  BY <1>1, <1>2, SendSame, QueueSame, BackSame, BackTyped, StackSame
<1>4. /\ recv' \in Receivers /\ recv'.at = "final" /\ recv'.by = recv.by /\ recv' # Free /\ recv # Free
  BY <1>1, <1>2, Constants DEF RecvOk, Receivers, Free
<1>5. RecvOk'
  BY <1>1, <1>2, <1>4 DEF RecvOk
<1>. QED  BY <1>3, <1>5 DEF Inv

LEMMA FreeTyped == Free \in Receivers /\ Free \in Senders /\ Free.at = "free" /\ Free.by = "none"
  BY Constants DEF Free, Receivers, Senders

LEMMA PollAgainKeeps ==
  ASSUME Inv, PollAgain
  PROVE  Inv'
<1>. USE DEF napiVars, stackVars, linkVars
<1>1. /\ TxOk(tx, back.tx_cons) /\ RxOk(rx) /\ bug = FALSE
      /\ StackOk /\ SendOk /\ QueueOk /\ RecvOk /\ BackOk
  BY Parts
<1>2. /\ UNCHANGED <<tx, rx, send, disabling, timer, running, stopped, rtnl, carrier, link, irq, bell, back, left, bug>>
      /\ recv.at = "final" /\ recv.by = "full" /\ recv' = Free
      /\ napi' = IF disabling THEN "idle" ELSE napi
  BY DEF PollAgain
<1>3. SendOk' /\ QueueOk' /\ BackOk' /\ TxOk(tx', back'.tx_cons) /\ RxOk(rx') /\ bug' = FALSE
  BY <1>1, <1>2, SendSame, QueueSame, BackSame, BackTyped
<1>4. napi' \in {"idle", "sched"} /\ (napi' = "idle" => ~running)
  BY <1>1, <1>2 DEF RecvOk, StackOk
<1>5. StackOk'
  BY <1>1, <1>2, <1>4 DEF StackOk
<1>6. RecvOk'
  BY <1>2, <1>4, FreeTyped DEF RecvOk
<1>. QED  BY <1>3, <1>5, <1>6 DEF Inv

LEMMA PollLookKeeps ==
  ASSUME Inv, PollLook
  PROVE  Inv'
<1>. USE DEF napiVars, stackVars, linkVars
<1>1. /\ TxOk(tx, back.tx_cons) /\ RxOk(rx) /\ bug = FALSE
      /\ StackOk /\ SendOk /\ QueueOk /\ RecvOk /\ BackOk
  BY Parts
<1>2. /\ UNCHANGED <<tx, rx, send, napi, disabling, timer, running, stopped, rtnl, carrier, link, irq, bell, back, left, bug>>
      /\ recv.at = "final" /\ recv.by = "poll"
      /\ recv' = IF Unconsumed(rx) THEN Free ELSE [recv EXCEPT !.at = "event"]
  BY DEF PollLook
<1>3. SendOk' /\ QueueOk' /\ BackOk' /\ StackOk' /\ TxOk(tx', back'.tx_cons) /\ RxOk(rx') /\ bug' = FALSE
  BY <1>1, <1>2, SendSame, QueueSame, BackSame, BackTyped, StackSame
<1>4. napi = "sched"
  BY <1>1, <1>2 DEF RecvOk
<1>5. \/ recv' = Free
      \/ recv' \in Receivers /\ recv'.at = "event" /\ recv'.by = "poll" /\ recv' # Free
  BY <1>1, <1>2 DEF RecvOk, Receivers, Free
<1>6. RecvOk'
  <2>1. CASE recv' = Free
    BY <1>2, <1>4, <2>1, FreeTyped DEF RecvOk
  <2>2. CASE recv' # Free
    BY <1>1, <1>2, <1>4, <1>5, <2>2 DEF RecvOk
  <2>. QED  BY <2>1, <2>2
<1>. QED  BY <1>3, <1>6 DEF Inv

LEMMA RxSetEventKeeps ==
  ASSUME Inv, RxSetEvent
  PROVE  Inv'
<1>. USE DEF napiVars, stackVars, linkVars
<1>1. /\ TxOk(tx, back.tx_cons) /\ RxOk(rx) /\ bug = FALSE
      /\ StackOk /\ SendOk /\ QueueOk /\ RecvOk /\ BackOk
  BY Parts
<1>. DEFINE e == Plus(rx.cons, 1)
<1>2. /\ UNCHANGED <<tx, send, napi, disabling, timer, running, stopped, rtnl, carrier, link, irq, bell, back, left, bug>>
      /\ recv.at = "event" \/ (recv.at = "final" /\ recv.by = "open")
      /\ recv' = [recv EXCEPT !.at = "check"] /\ rx' = [rx EXCEPT !.rsp_event = e]
  BY DEF RxSetEvent
<1>3. e \in Index
  BY <1>1, RxTyped, PlusType, Sizes DEF RxOk
<1>. HIDE DEF e
<1>4. /\ RxOk(rx') /\ rx'.cons = rx.cons /\ rx'.rsp_prod = rx.rsp_prod /\ rx'.req_event = rx.req_event
      /\ rx'.rsp_event = e
  BY <1>1, <1>2, <1>3, EventRx
<1>5. SendOk' /\ QueueOk' /\ BackOk' /\ StackOk' /\ TxOk(tx', back'.tx_cons) /\ bug' = FALSE
  BY <1>1, <1>2, <1>4, SendSame, QueueSame, BackSame, BackTyped, StackSame
<1>6. /\ recv' \in Receivers /\ recv'.at = "check" /\ recv'.by = recv.by /\ recv.by \in {"poll", "open"}
      /\ recv' # Free /\ recv.at # "free"
  BY <1>1, <1>2 DEF RecvOk, Receivers, Free
<1>7. rx'.rsp_event = Plus(rx'.cons, 1)
  BY <1>4 DEF e
<1>8. RecvOk'
  BY <1>1, <1>2, <1>6, <1>7 DEF RecvOk
<1>. QED  BY <1>4, <1>5, <1>8 DEF Inv

LEMMA PollCheckKeeps ==
  ASSUME Inv, PollCheck
  PROVE  Inv'
<1>. USE DEF napiVars, stackVars, linkVars
<1>1. /\ TxOk(tx, back.tx_cons) /\ RxOk(rx) /\ bug = FALSE
      /\ StackOk /\ SendOk /\ QueueOk /\ RecvOk /\ BackOk
  BY Parts
<1>2. /\ UNCHANGED <<tx, rx, send, napi, disabling, timer, running, stopped, rtnl, carrier, link, irq, bell, back, left, bug>>
      /\ recv.at = "check" /\ recv.by = "poll"
      /\ recv' = IF Unconsumed(rx) THEN Free ELSE [recv EXCEPT !.at = "complete"]
  BY DEF PollCheck
<1>3. SendOk' /\ QueueOk' /\ BackOk' /\ StackOk' /\ TxOk(tx', back'.tx_cons) /\ RxOk(rx') /\ bug' = FALSE
  BY <1>1, <1>2, SendSame, QueueSame, BackSame, BackTyped, StackSame
<1>4. napi = "sched" /\ rx.rsp_event = Plus(rx.cons, 1) /\ carrier
  BY <1>1, <1>2 DEF RecvOk
<1>5. \/ recv' = Free
      \/ recv' \in Receivers /\ recv'.at = "complete" /\ recv'.by = "poll" /\ recv' # Free
  BY <1>1, <1>2 DEF RecvOk, Receivers, Free
<1>6. RecvOk'
  <2>1. CASE recv' = Free
    BY <1>2, <1>4, <2>1, FreeTyped DEF RecvOk
  <2>2. CASE recv' # Free
    BY <1>1, <1>2, <1>4, <1>5, <2>2 DEF RecvOk
  <2>. QED  BY <2>1, <2>2
<1>. QED  BY <1>3, <1>6 DEF Inv

LEMMA PollCompleteKeeps ==
  ASSUME Inv, PollComplete
  PROVE  Inv'
<1>. USE DEF napiVars, stackVars, linkVars
<1>1. /\ TxOk(tx, back.tx_cons) /\ RxOk(rx) /\ bug = FALSE
      /\ StackOk /\ SendOk /\ QueueOk /\ RecvOk /\ BackOk
  BY Parts
<1>2. /\ UNCHANGED <<tx, rx, send, disabling, timer, running, stopped, rtnl, carrier, link, irq, bell, back, left, bug>>
      /\ recv.at = "complete" /\ recv' = Free /\ napi' = "idle"
  BY DEF PollComplete
<1>3. SendOk' /\ QueueOk' /\ BackOk' /\ TxOk(tx', back'.tx_cons) /\ RxOk(rx') /\ bug' = FALSE
  BY <1>1, <1>2, SendSame, QueueSame, BackSame, BackTyped
<1>4. StackOk'
  BY <1>1, <1>2 DEF StackOk
<1>5. recv.by = "poll" /\ carrier /\ (running => rx.rsp_event = Plus(rx.cons, 1))
  BY <1>1, <1>2 DEF RecvOk
<1>6. RecvOk'
  BY <1>2, <1>5, FreeTyped DEF RecvOk
<1>. QED  BY <1>3, <1>4, <1>6 DEF Inv

LEMMA RefillTimeoutKeeps ==
  ASSUME Inv, RefillTimeout
  PROVE  Inv'
<1>. USE DEF napiVars, stackVars, linkVars
<1>1. /\ TxOk(tx, back.tx_cons) /\ RxOk(rx) /\ bug = FALSE
      /\ StackOk /\ SendOk /\ QueueOk /\ RecvOk /\ BackOk
  BY Parts
<1>2. /\ UNCHANGED <<tx, rx, send, recv, disabling, running, stopped, rtnl, carrier, link, irq, bell, back, left, bug>>
      /\ timer' = FALSE /\ napi' = Scheduled
  BY DEF RefillTimeout
<1>3. SendOk' /\ QueueOk' /\ BackOk' /\ TxOk(tx', back'.tx_cons) /\ RxOk(rx') /\ bug' = FALSE
  BY <1>1, <1>2, SendSame, QueueSame, BackSame, BackTyped
<1>4. napi' \in {napi, "sched"} /\ (napi' # napi => napi = "idle")
  BY <1>2 DEF Scheduled
<1>5. StackOk' /\ RecvOk'
  BY <1>1, <1>2, <1>4 DEF StackOk, RecvOk
<1>. QED  BY <1>3, <1>5 DEF Inv

--------------------------------------------------------------------------------
(* Inv is kept: the stack. *)
(* What an open with a carrier leaves of the receive ring. *)
LEMMA OpenRx ==
  ASSUME Inv, Open, carrier
  PROVE  /\ RxOk(rx') /\ bug' = FALSE
         /\ rx'.cons = rx.cons /\ rx'.req_prod = rx.req_prod /\ rx'.req_event = rx.req_event
         /\ rx'.rsp_prod = rx.rsp_prod /\ rx'.rsp_event = rx.rsp_event
         /\ left' \in Lefts /\ left'.sends = left.sends /\ left'.closes = left.closes
         /\ timer' \in BOOLEAN /\ (timer => timer') /\ (~timer' => Enough(rx'))
         /\ recv' \in Receivers /\ recv'.at \in {"push", "final"} /\ recv'.by = "open"
         /\ recv' # Free /\ (recv'.at = "final" => ~(rx'.pvt > rx'.req_prod))
<1>. USE DEF napiVars, stackVars, linkVars
<1>1. /\ TxOk(tx, back.tx_cons) /\ RxOk(rx) /\ bug = FALSE
      /\ StackOk /\ SendOk /\ QueueOk /\ RecvOk /\ BackOk
  BY Parts
<1>2. PICK got \in Allocations(rx) :
        LET a == AllocRxBuffers(rx, got)
        IN  /\ Allowed(a) /\ left' = Spend(a)
            /\ rx' = a.rx /\ bug' = (bug \/ a.bug) /\ timer' = (timer \/ a.short)
            /\ recv' = [Free EXCEPT !.at = IF a.push THEN "push" ELSE "final", !.by = "open"]
  BY DEF Open
<1>. DEFINE a == AllocRxBuffers(rx, got)
<1>3. /\ Allowed(a) /\ left' = Spend(a)
      /\ rx' = a.rx /\ bug' = (bug \/ a.bug) /\ timer' = (timer \/ a.short)
      /\ recv' = [Free EXCEPT !.at = IF a.push THEN "push" ELSE "final", !.by = "open"]
  BY <1>2
<1>4. /\ RxOk(a.rx) /\ a.bug = FALSE /\ a.rx.rsp_prod = rx.rsp_prod /\ a.rx.req_event = rx.req_event
      /\ a.rx.req_prod = rx.req_prod /\ a.rx.rsp_event = rx.rsp_event /\ a.rx.cons = rx.cons
      /\ a.short \in BOOLEAN /\ a.push \in BOOLEAN
      /\ (~a.short => Enough(a.rx)) /\ (~a.push => ~(a.rx.pvt > a.rx.req_prod))
  <2>1. a = AllocRxBuffers(rx, got)
    OBVIOUS
  <2>. HIDE DEF a
  <2>2. Allotted(rx, a)
    BY <1>1, <2>1, AllocRx, Zenon
  <2>. QED  BY <2>2 DEF Allotted
<1>. HIDE DEF a
<1>5. left' \in Lefts /\ left'.sends = left.sends /\ left'.closes = left.closes
  BY <1>1, <1>3, SpendTyped DEF QueueOk
<1>6. /\ recv' \in Receivers /\ recv'.at \in {"push", "final"} /\ recv'.by = "open" /\ recv' # Free
      /\ (recv'.at = "final" => ~a.push)
  BY <1>3, Constants DEF Receivers, Free
<1>7. RxOk(rx') /\ bug' = FALSE
  BY <1>1, <1>3, <1>4
<1>8. timer' \in BOOLEAN /\ (timer => timer') /\ (~timer' => Enough(rx'))
  BY <1>1, <1>3, <1>4 DEF StackOk
<1>. QED  BY <1>3, <1>4, <1>5, <1>6, <1>7, <1>8

LEMMA OpenKeeps ==
  ASSUME Inv, Open
  PROVE  Inv'
<1>. USE DEF napiVars, stackVars, linkVars
<1>1. /\ TxOk(tx, back.tx_cons) /\ RxOk(rx) /\ bug = FALSE
      /\ StackOk /\ SendOk /\ QueueOk /\ RecvOk /\ BackOk
  BY Parts
<1>2. /\ UNCHANGED <<tx, send, disabling, stopped, carrier, link, irq, bell, back>>
      /\ rtnl = "free" /\ ~running /\ recv = Free
      /\ rtnl' = "open" /\ running' = TRUE /\ napi' = "idle"
  BY DEF Open
<1>3. CASE ~carrier
  <2>1. UNCHANGED <<left, rx, bug, timer, recv>>
    BY <1>3 DEF Open
  <2>2. SendOk' /\ BackOk' /\ TxOk(tx', back'.tx_cons) /\ RxOk(rx') /\ bug' = FALSE
    BY <1>1, <1>2, <2>1, SendSame, BackSame, BackTyped
  <2>3. StackOk' /\ QueueOk'
    BY <1>1, <1>2, <2>1 DEF StackOk, QueueOk
  <2>4. RecvOk'
    BY <1>2, <1>3, <2>1, FreeTyped DEF RecvOk
  <2>. QED  BY <2>2, <2>3, <2>4 DEF Inv
<1>4. CASE carrier
  <2>1. SendOk' /\ BackOk' /\ TxOk(tx', back'.tx_cons) /\ RxOk(rx') /\ bug' = FALSE
    BY <1>1, <1>2, <1>4, OpenRx, SendSame, BackSame, BackTyped
  <2>2. StackOk' /\ QueueOk'
    BY <1>1, <1>2, <1>4, OpenRx DEF StackOk, QueueOk
  <2>3. RecvOk'
    BY <1>2, <1>4, OpenRx DEF RecvOk
  <2>. QED  BY <2>1, <2>2, <2>3 DEF Inv
<1>. QED  BY <1>3, <1>4

LEMMA OpenCheckKeeps ==
  ASSUME Inv, OpenCheck
  PROVE  Inv'
<1>. USE DEF napiVars, stackVars, linkVars
<1>1. /\ TxOk(tx, back.tx_cons) /\ RxOk(rx) /\ bug = FALSE
      /\ StackOk /\ SendOk /\ QueueOk /\ RecvOk /\ BackOk
  BY Parts
<1>2. /\ UNCHANGED <<tx, rx, send, disabling, timer, running, stopped, rtnl, carrier, link, irq, bell, back, left, bug>>
      /\ recv.at = "check" /\ recv.by = "open" /\ recv' = Free
      /\ napi' = IF Unconsumed(rx) THEN Scheduled ELSE napi
  BY DEF OpenCheck
<1>3. SendOk' /\ QueueOk' /\ BackOk' /\ TxOk(tx', back'.tx_cons) /\ RxOk(rx') /\ bug' = FALSE
  BY <1>1, <1>2, SendSame, QueueSame, BackSame, BackTyped
<1>4. napi' \in {napi, "sched"} /\ rx.rsp_event = Plus(rx.cons, 1) /\ carrier /\ rtnl = "open"
  BY <1>1, <1>2 DEF Scheduled, RecvOk
<1>5. StackOk'
  BY <1>1, <1>2, <1>4 DEF StackOk
<1>6. RecvOk'
  BY <1>2, <1>4, FreeTyped DEF RecvOk
<1>. QED  BY <1>3, <1>5, <1>6 DEF Inv

LEMMA OpenEndKeeps ==
  ASSUME Inv, OpenEnd
  PROVE  Inv'
<1>. USE DEF napiVars, stackVars, linkVars
<1>1. /\ TxOk(tx, back.tx_cons) /\ RxOk(rx) /\ bug = FALSE
      /\ StackOk /\ SendOk /\ QueueOk /\ RecvOk /\ BackOk
  BY Parts
<1>2. /\ UNCHANGED <<tx, rx, send, recv, napi, disabling, timer, running, carrier, link, irq, bell, back, left, bug>>
      /\ rtnl = "open" /\ recv.by # "open" /\ rtnl' = "free" /\ stopped' = FALSE
  BY DEF OpenEnd
<1>3. SendOk' /\ BackOk' /\ TxOk(tx', back'.tx_cons) /\ RxOk(rx') /\ bug' = FALSE
  BY <1>1, <1>2, SendSame, BackSame, BackTyped
<1>4. Outstanding(tx) = 0 /\ SlotAvailable(tx)
  BY <1>1, <1>2, Room0 DEF QueueOk, SlotAvailable
<1>5. StackOk' /\ RecvOk' /\ QueueOk'
  BY <1>1, <1>2, <1>4 DEF StackOk, RecvOk, QueueOk
<1>. QED  BY <1>3, <1>5 DEF Inv

LEMMA CloseKeeps ==
  ASSUME Inv, Close
  PROVE  Inv'
<1>. USE DEF napiVars, stackVars, linkVars
<1>1. /\ TxOk(tx, back.tx_cons) /\ RxOk(rx) /\ bug = FALSE
      /\ StackOk /\ SendOk /\ QueueOk /\ RecvOk /\ BackOk
  BY Parts
<1>2. /\ UNCHANGED <<tx, rx, send, recv, napi, timer, carrier, link, irq, bell, back, bug>>
      /\ rtnl = "free" /\ running /\ send.by # "xmit" /\ left.closes > 0
      /\ left' = [left EXCEPT !.closes = @ - 1]
      /\ rtnl' = "close" /\ running' = FALSE /\ stopped' = TRUE /\ disabling' = TRUE
  BY DEF Close
<1>3. SendOk' /\ BackOk' /\ TxOk(tx', back'.tx_cons) /\ RxOk(rx') /\ bug' = FALSE
  BY <1>1, <1>2, SendSame, BackSame, BackTyped
<1>4. left.sends = 0 /\ Outstanding(tx) = 0
  BY <1>1, <1>2 DEF QueueOk
<1>5. left' \in Lefts /\ left'.sends = 0
  BY <1>1, <1>2, <1>4 DEF QueueOk, Lefts
<1>6. StackOk' /\ RecvOk' /\ QueueOk'
  BY <1>1, <1>2, <1>4, <1>5 DEF StackOk, RecvOk, QueueOk
<1>. QED  BY <1>3, <1>6 DEF Inv

LEMMA CloseEndKeeps ==
  ASSUME Inv, CloseEnd
  PROVE  Inv'
<1>. USE DEF napiVars, stackVars, linkVars
<1>1. /\ TxOk(tx, back.tx_cons) /\ RxOk(rx) /\ bug = FALSE
      /\ StackOk /\ SendOk /\ QueueOk /\ RecvOk /\ BackOk
  BY Parts
<1>2. /\ UNCHANGED <<tx, rx, send, recv, timer, running, stopped, carrier, link, irq, bell, back, left, bug>>
      /\ rtnl = "close" /\ napi = "idle" /\ rtnl' = "free" /\ napi' = "off" /\ disabling' = FALSE
  BY DEF CloseEnd
<1>3. SendOk' /\ BackOk' /\ TxOk(tx', back'.tx_cons) /\ RxOk(rx') /\ bug' = FALSE
  BY <1>1, <1>2, SendSame, BackSame, BackTyped
<1>4. ~running
  BY <1>1, <1>2 DEF StackOk
<1>5. StackOk' /\ RecvOk' /\ QueueOk'
  BY <1>1, <1>2, <1>4 DEF StackOk, RecvOk, QueueOk
<1>. QED  BY <1>3, <1>5 DEF Inv

--------------------------------------------------------------------------------
(* Inv is kept: migration and reconnection. *)
LEMMA NoPushTyped == NoPush \in 0..Wrap /\ Index \subseteq 0..Wrap /\ First \in Index
  BY Constants DEF NoPush, Index

LEMMA MigrateKeeps ==
  ASSUME Inv, Migrate
  PROVE  Inv'
<1>. USE DEF napiVars, stackVars, linkVars
<1>1. /\ TxOk(tx, back.tx_cons) /\ RxOk(rx) /\ bug = FALSE
      /\ StackOk /\ SendOk /\ QueueOk /\ RecvOk /\ BackOk
  BY Parts
<1>2. /\ UNCHANGED <<tx, rx, send, recv, napi, disabling, timer, running, stopped, rtnl, carrier, bug>>
      /\ link = "connected" /\ left.migrations > 0 /\ send = Free /\ recv = Free
      /\ left' = [left EXCEPT !.migrations = @ - 1]
      /\ link' = "lost" /\ irq' = FALSE /\ bell' = FALSE
      /\ back' = [back EXCEPT !.up = FALSE, !.tx_old = NoPush, !.rx_old = NoPush]
  BY DEF Migrate
<1>3. left' \in Lefts /\ left'.sends = left.sends /\ left'.closes = left.closes
  BY <1>1, <1>2 DEF QueueOk, Lefts
<1>4. /\ back' \in Backs /\ back'.up = FALSE /\ back'.tx_old = NoPush /\ back'.rx_old = NoPush
      /\ back'.tx_cons = back.tx_cons /\ back'.rx_cons = back.rx_cons
  BY <1>1, <1>2, NoPushTyped DEF BackOk, Backs
<1>5. SendOk' /\ QueueOk' /\ StackOk' /\ RecvOk' /\ TxOk(tx', back'.tx_cons) /\ RxOk(rx') /\ bug' = FALSE
  BY <1>1, <1>2, <1>3, <1>4, SendSame, QueueSpent, StackSame, RecvSame
<1>6. BackOk'
  BY <1>1, <1>2, <1>4 DEF BackOk
<1>. QED  BY <1>5, <1>6 DEF Inv

LEMMA ResumeKeeps ==
  ASSUME Inv, Resume
  PROVE  Inv'
<1>. USE DEF napiVars, stackVars, linkVars
<1>1. /\ TxOk(tx, back.tx_cons) /\ RxOk(rx) /\ bug = FALSE
      /\ StackOk /\ SendOk /\ QueueOk /\ RecvOk /\ BackOk
  BY Parts
<1>2. /\ UNCHANGED <<tx, rx, send, recv, napi, disabling, timer, running, stopped, rtnl, irq, bell, back, left, bug>>
      /\ link = "lost" /\ send = Free /\ recv = Free /\ link' = "resumed" /\ carrier' = FALSE
  BY DEF Resume
<1>3. QueueOk' /\ StackOk' /\ TxOk(tx', back'.tx_cons) /\ RxOk(rx') /\ bug' = FALSE
  BY <1>1, <1>2, QueueSame, StackSame
<1>4. SendOk'
  BY <1>1, <1>2, FreeTyped DEF SendOk
<1>5. RecvOk'
  BY <1>2, FreeTyped DEF RecvOk
<1>6. BackOk'
  BY <1>1, <1>2 DEF BackOk
<1>. QED  BY <1>3, <1>4, <1>5, <1>6 DEF Inv

LEMMA UpdateFeaturesKeeps ==
  ASSUME Inv, UpdateFeatures
  PROVE  Inv'
<1>. USE DEF napiVars, stackVars, linkVars
<1>1. /\ TxOk(tx, back.tx_cons) /\ RxOk(rx) /\ bug = FALSE
      /\ StackOk /\ SendOk /\ QueueOk /\ RecvOk /\ BackOk
  BY Parts
<1>2. /\ UNCHANGED <<tx, rx, send, recv, napi, disabling, timer, running, stopped, rtnl, carrier, irq, bell, back, left, bug>>
      /\ link = "resumed" /\ link' = "ready"
  BY DEF UpdateFeatures
<1>3. SendOk' /\ QueueOk' /\ StackOk' /\ RecvOk' /\ TxOk(tx', back'.tx_cons) /\ RxOk(rx') /\ bug' = FALSE
  BY <1>1, <1>2, SendSame, QueueSame, StackSame, RecvSame
<1>4. BackOk'
  BY <1>1, <1>2 DEF BackOk
<1>. QED  BY <1>3, <1>4 DEF Inv

LEMMA NoBackTyped ==
  /\ NoBack \in Backs /\ NoBack.up = FALSE /\ NoBack.tx = "awake" /\ NoBack.rx = "awake"
  /\ NoBack.tx_old = NoPush /\ NoBack.rx_old = NoPush
  /\ NoBack.tx_cons = First /\ NoBack.rx_cons = First
  /\ [NoBack EXCEPT !.up = TRUE] \in Backs
  BY NoPushTyped DEF NoBack, Backs

(* What a reconnection leaves of both rings. *)
LEMMA Reconnected ==
  ASSUME Inv, NetworkConnect
  PROVE  /\ TxOk(tx', First) /\ Outstanding(tx') = 0 /\ RxOk(rx') /\ bug' = FALSE
         /\ tx'.pvt = First /\ tx'.cons = First /\ tx'.req_prod = First /\ tx'.rsp_prod = First
         /\ tx'.req_event = Plus(First, 1) /\ tx'.rsp_event = Plus(First, 1)
         /\ rx'.cons = First /\ rx'.rsp_prod = First /\ rx'.rsp_event = Plus(First, 1)
         /\ ~(rx'.pvt > rx'.req_prod)
         /\ left' \in Lefts /\ left'.sends = left.sends /\ left'.closes = left.closes
         /\ timer' \in BOOLEAN /\ (timer => timer') /\ (~timer' => Enough(rx'))
<1>. USE DEF napiVars, stackVars, linkVars
<1>1. /\ TxOk(tx, back.tx_cons) /\ RxOk(rx) /\ bug = FALSE
      /\ StackOk /\ SendOk /\ QueueOk /\ RecvOk /\ BackOk
  BY Parts
<1>. DEFINE r == RequeueRxBufs(rx)
            t == [ReleaseTxBufs(tx) EXCEPT !.rsp_event = TxEvent(ReleaseTxBufs(tx), ReleaseTxBufs(tx).rsp_prod)]
<1>2. PICK got \in Allocations(r) :
        LET a == AllocRxBuffers(r, got)
        IN  /\ Allowed(a) /\ left' = Spend(a) /\ tx' = t
            /\ rx' = IF a.push THEN [a.rx EXCEPT !.req_prod = a.rx.pvt] ELSE a.rx
            /\ bug' = (bug \/ a.bug) /\ timer' = (timer \/ a.short)
  BY DEF NetworkConnect
<1>. DEFINE a == AllocRxBuffers(r, got)
<1>3. /\ Allowed(a) /\ left' = Spend(a) /\ tx' = t
      /\ rx' = IF a.push THEN [a.rx EXCEPT !.req_prod = a.rx.pvt] ELSE a.rx
      /\ bug' = (bug \/ a.bug) /\ timer' = (timer \/ a.short)
  BY <1>2
<1>4. /\ TxOk(t, First) /\ Outstanding(t) = 0
      /\ t.pvt = First /\ t.cons = First /\ t.req_prod = First /\ t.rsp_prod = First
      /\ t.req_event = Plus(First, 1) /\ t.rsp_event = Plus(First, 1)
  BY <1>1, ReleaseTx
<1>5. RxOk(r) /\ r.cons = First /\ r.rsp_prod = First /\ r.rsp_event = Plus(First, 1)
  BY <1>1, RequeueRx
<1>. HIDE DEF r, t
<1>6. /\ RxOk(a.rx) /\ a.bug = FALSE /\ a.rx.rsp_prod = First /\ a.rx.cons = First
      /\ a.rx.rsp_event = Plus(First, 1) /\ a.short \in BOOLEAN /\ a.push \in BOOLEAN
      /\ (~a.short => Enough(a.rx)) /\ (~a.push => ~(a.rx.pvt > a.rx.req_prod))
  <2>1. a = AllocRxBuffers(r, got)
    OBVIOUS
  <2>. HIDE DEF a
  <2>2. Allotted(r, a)
    BY <1>5, <2>1, AllocRx, Zenon
  <2>. QED  BY <1>5, <2>2 DEF Allotted
<1>. HIDE DEF a
<1>7. /\ RxOk(rx') /\ rx'.rsp_prod = First /\ rx'.cons = First /\ rx'.rsp_event = Plus(First, 1)
      /\ Outstanding(rx') = Outstanding(a.rx) /\ ~(rx'.pvt > rx'.req_prod)
  <2>1. CASE a.push
    <3>1. rx' = [a.rx EXCEPT !.req_prod = a.rx.pvt]
      BY <1>3, <2>1
    <3>2. /\ RxOk(rx') /\ Outstanding(rx') = Outstanding(a.rx) /\ rx'.cons = a.rx.cons
          /\ rx'.pvt = a.rx.pvt /\ rx'.req_prod = a.rx.pvt /\ rx'.rsp_prod = a.rx.rsp_prod
          /\ rx'.rsp_event = a.rx.rsp_event
      BY <1>6, <3>1, PushRx
    <3>3. a.rx.pvt \in Nat
      BY <1>6, RxTyped, Constants DEF RxOk
    <3>. QED  BY <1>6, <3>2, <3>3
  <2>2. CASE ~a.push
    BY <1>3, <1>6, <2>2
  <2>. QED  BY <1>6, <2>1, <2>2
<1>8. left' \in Lefts /\ left'.sends = left.sends /\ left'.closes = left.closes
  BY <1>1, <1>3, SpendTyped DEF QueueOk
<1>9. timer' \in BOOLEAN /\ (timer => timer') /\ (~timer' => Enough(rx'))
  BY <1>1, <1>3, <1>6, <1>7 DEF StackOk, Enough
<1>. QED  BY <1>1, <1>3, <1>4, <1>6, <1>7, <1>8, <1>9

LEMMA NetworkConnectKeeps ==
  ASSUME Inv, NetworkConnect
  PROVE  Inv'
<1>. USE DEF napiVars, stackVars, linkVars
<1>1. /\ TxOk(tx, back.tx_cons) /\ RxOk(rx) /\ bug = FALSE
      /\ StackOk /\ SendOk /\ QueueOk /\ RecvOk /\ BackOk
  BY Parts
<1>2. /\ UNCHANGED <<send, recv, napi, disabling, running, rtnl, irq, bell>>
      /\ link = "ready" /\ send = Free /\ recv = Free /\ link' = "attach" /\ carrier' = TRUE
      /\ stopped' = (stopped /\ ~running) /\ back' = NoBack
  BY DEF NetworkConnect
<1>3. TxOk(tx', back'.tx_cons) /\ RxOk(rx') /\ bug' = FALSE
  BY <1>2, Reconnected, NoBackTyped
<1>4. StackOk'
  BY <1>1, <1>2, Reconnected DEF StackOk
<1>5. SendOk'
  <2>1. Minus(Plus(First, 1), First) = 1
    BY PlusType, Constants, Sizes
  <2>2. /\ 1 <= Minus(tx'.rsp_event, tx'.cons)
        /\ Minus(tx'.rsp_event, tx'.cons) <= Outstanding(tx') \div 2 + 1
    BY <2>1, Reconnected
  <2>. QED  BY <1>2, <2>2, Reconnected, FreeTyped DEF SendOk
<1>6. QueueOk'
  BY <1>1, <1>2, Reconnected, Room0 DEF QueueOk, SlotAvailable
<1>7. RecvOk'
  BY <1>2, Reconnected, FreeTyped DEF RecvOk
<1>8. BackOk'
  BY <1>1, <1>2, Reconnected, NoBackTyped DEF BackOk
<1>. QED  BY <1>3, <1>4, <1>5, <1>6, <1>7, <1>8 DEF Inv

LEMMA BackendConnectKeeps ==
  ASSUME Inv, BackendConnect
  PROVE  Inv'
<1>. USE DEF napiVars, stackVars, linkVars
<1>1. /\ TxOk(tx, back.tx_cons) /\ RxOk(rx) /\ bug = FALSE
      /\ StackOk /\ SendOk /\ QueueOk /\ RecvOk /\ BackOk
  BY Parts
<1>2. /\ UNCHANGED <<tx, rx, send, recv, napi, disabling, timer, running, stopped, rtnl, carrier, irq, bell, left, bug>>
      /\ link = "attach" /\ link' = "connected" /\ back' = [NoBack EXCEPT !.up = TRUE]
  BY DEF BackendConnect
<1>3. /\ back = NoBack /\ back' \in Backs /\ back'.up = TRUE /\ back'.tx = "awake" /\ back'.rx = "awake"
      /\ back'.tx_cons = back.tx_cons /\ back'.rx_cons = back.rx_cons
  BY <1>1, <1>2, NoBackTyped DEF BackOk, NoBack
<1>4. SendOk' /\ QueueOk' /\ StackOk' /\ RecvOk' /\ TxOk(tx', back'.tx_cons) /\ RxOk(rx') /\ bug' = FALSE
  BY <1>1, <1>2, <1>3, SendSame, QueueSame, StackSame, RecvSame
<1>5. BackOk'
  BY <1>1, <1>2, <1>3 DEF BackOk
<1>. QED  BY <1>4, <1>5 DEF Inv

--------------------------------------------------------------------------------
(* Inv is kept: the back end. *)
LEMMA BackTakeKeeps ==
  ASSUME Inv, BackTake
  PROVE  Inv'
<1>. USE DEF napiVars, stackVars, linkVars
<1>1. /\ TxOk(tx, back.tx_cons) /\ RxOk(rx) /\ bug = FALSE
      /\ StackOk /\ SendOk /\ QueueOk /\ RecvOk /\ BackOk
  BY Parts
<1>2. /\ UNCHANGED <<rx, send, recv, napi, disabling, timer, running, stopped, rtnl, carrier, link, irq, bell, left, bug>>
      /\ back.up /\ back.tx = "awake" /\ back.tx_cons # tx.req_prod
      /\ tx' = [tx EXCEPT !.reqs = Tail(@), !.taken = @ \cup {Head(tx.reqs)}]
      /\ back' = [back EXCEPT !.tx_cons = Plus(@, Head(tx.reqs).slots)]
  BY DEF BackTake
<1>. DEFINE c == Plus(back.tx_cons, Head(tx.reqs).slots)
<1>3. /\ TxOk(tx', c) /\ Outstanding(tx') = Outstanding(tx)
      /\ tx'.pvt = tx.pvt /\ tx'.cons = tx.cons /\ tx'.req_prod = tx.req_prod /\ tx'.req_event = tx.req_event
      /\ tx'.rsp_event = tx.rsp_event
  <2>1. TxOk(tx, back.tx_cons) /\ back.tx_cons # tx.req_prod
    BY <1>1, <1>2
  <2>2. tx' = Took(tx)
    BY <1>2 DEF Took
  <2>. QED  BY <2>1, <2>2, TakeTx
<1>4. back' = [back EXCEPT !.tx_cons = c] /\ c \in Index
  BY <1>1, <1>2, <1>3 DEF BackOk, Backs, TxOk
<1>. HIDE DEF c
<1>5. /\ back' \in Backs /\ back'.up = back.up /\ back'.tx = back.tx /\ back'.rx = back.rx
      /\ back'.tx_cons = c /\ back'.rx_cons = back.rx_cons
      /\ back'.tx_old = back.tx_old /\ back'.rx_old = back.rx_old
  BY <1>1, <1>4 DEF BackOk, Backs
<1>6. SendOk' /\ QueueOk' /\ StackOk' /\ RecvOk' /\ TxOk(tx', back'.tx_cons) /\ RxOk(rx') /\ bug' = FALSE
  BY <1>1, <1>2, <1>3, <1>5, SendSame, QueueSame, StackSame, RecvSame
<1>7. BackOk'
  <2>1. link = "connected"
    BY <1>1, <1>2 DEF BackOk
  <2>. QED  BY <1>1, <1>2, <1>3, <1>5, <2>1 DEF BackOk
<1>. QED  BY <1>6, <1>7 DEF Inv

LEMMA BackAnswerKeeps ==
  ASSUME Inv, BackAnswer
  PROVE  Inv'
<1>. USE DEF napiVars, stackVars, linkVars
<1>1. /\ TxOk(tx, back.tx_cons) /\ RxOk(rx) /\ bug = FALSE
      /\ StackOk /\ SendOk /\ QueueOk /\ RecvOk /\ BackOk
  BY Parts
<1>2. /\ UNCHANGED <<rx, send, recv, napi, disabling, timer, running, stopped, rtnl, carrier, link, irq, bell, left, bug>>
      /\ back.up /\ back.tx_old = NoPush
      /\ \E e \in tx.taken :
           tx' = [tx EXCEPT !.taken = @ \ {e}, !.rsps = Append(@, e.id),
                            !.rsp_prod = Plus(@, e.slots)]
      /\ back' = [back EXCEPT !.tx_old = tx.rsp_prod]
  BY DEF BackAnswer
<1>3. /\ TxOk(tx', back.tx_cons) /\ Outstanding(tx') = Outstanding(tx)
      /\ tx'.pvt = tx.pvt /\ tx'.cons = tx.cons /\ tx'.req_prod = tx.req_prod /\ tx'.req_event = tx.req_event
      /\ tx'.rsp_event = tx.rsp_event
  <2>1. PICK e \in tx.taken : tx' = Answered(tx, e)
    BY <1>2 DEF Answered
  <2>2. TxOk(tx, back.tx_cons)
    BY <1>1
  <2>. QED  BY <2>1, <2>2, AnswerTx
<1>4. /\ back' \in Backs /\ back'.up = back.up /\ back'.tx = back.tx /\ back'.rx = back.rx
      /\ back'.tx_cons = back.tx_cons /\ back'.rx_cons = back.rx_cons
  <2>1. tx.rsp_prod \in 0..Wrap
    BY <1>1, TxTyped, Constants DEF TxOk, Index
  <2>. QED  BY <1>1, <1>2, <2>1 DEF BackOk, Backs
<1>5. SendOk' /\ QueueOk' /\ StackOk' /\ RecvOk' /\ TxOk(tx', back'.tx_cons) /\ RxOk(rx') /\ bug' = FALSE
  BY <1>1, <1>2, <1>3, <1>4, SendSame, QueueSame, StackSame, RecvSame
<1>6. BackOk'
  <2>1. link = "connected"
    BY <1>1, <1>2 DEF BackOk
  <2>. QED  BY <1>1, <1>2, <1>3, <1>4, <2>1 DEF BackOk
<1>. QED  BY <1>5, <1>6 DEF Inv

LEMMA BackNotifyTxKeeps ==
  ASSUME Inv, BackNotifyTx
  PROVE  Inv'
<1>. USE DEF napiVars, stackVars, linkVars
<1>1. /\ TxOk(tx, back.tx_cons) /\ RxOk(rx) /\ bug = FALSE
      /\ StackOk /\ SendOk /\ QueueOk /\ RecvOk /\ BackOk
  BY Parts
<1>2. /\ UNCHANGED <<tx, rx, send, recv, napi, disabling, timer, running, stopped, rtnl, carrier, link, bell, left, bug>>
      /\ back.tx_old # NoPush /\ irq' \in BOOLEAN /\ back' = [back EXCEPT !.tx_old = NoPush]
  BY DEF BackNotifyTx
<1>3. /\ back' \in Backs /\ back'.up = back.up /\ back'.tx = back.tx /\ back'.rx = back.rx
      /\ back'.tx_cons = back.tx_cons /\ back'.rx_cons = back.rx_cons
      /\ back'.tx_old \in {back.tx_old, NoPush} /\ back'.rx_old \in {back.rx_old, NoPush}
  BY <1>1, <1>2, Constants DEF BackOk, Backs, NoPush
<1>4. SendOk' /\ QueueOk' /\ StackOk' /\ RecvOk' /\ TxOk(tx', back'.tx_cons) /\ RxOk(rx') /\ bug' = FALSE
  BY <1>1, <1>2, <1>3, SendSame, QueueSame, StackSame, RecvSame
<1>5. BackOk'
  <2>1. link # "attach"
    BY <1>1, <1>2, NoBackTyped DEF BackOk
  <2>. QED  BY <1>1, <1>2, <1>3, <2>1 DEF BackOk
<1>. QED  BY <1>4, <1>5 DEF Inv

LEMMA BackSleepTxKeeps ==
  ASSUME Inv, BackSleepTx
  PROVE  Inv'
<1>. USE DEF napiVars, stackVars, linkVars
<1>1. /\ TxOk(tx, back.tx_cons) /\ RxOk(rx) /\ bug = FALSE
      /\ StackOk /\ SendOk /\ QueueOk /\ RecvOk /\ BackOk
  BY Parts
<1>2. /\ UNCHANGED <<rx, send, recv, napi, disabling, timer, running, stopped, rtnl, carrier, link, irq, bell, left, bug>>
      /\ back.up /\ tx' = [tx EXCEPT !.req_event = Plus(back.tx_cons, 1)]
      /\ back' = [back EXCEPT !.tx = "recheck"]
  BY DEF BackSleepTx
<1>. DEFINE e == Plus(back.tx_cons, 1)
<1>3. e \in Index
  BY <1>1, PlusType, Sizes DEF TxOk
<1>4. tx' = [tx EXCEPT !.req_event = e]
  BY <1>2
<1>. HIDE DEF e
<1>5. /\ TxOk(tx', back.tx_cons) /\ Outstanding(tx') = Outstanding(tx)
      /\ tx'.pvt = tx.pvt /\ tx'.cons = tx.cons /\ tx'.req_prod = tx.req_prod /\ tx'.req_event = e
      /\ tx'.rsp_event = tx.rsp_event
  BY <1>1, <1>3, <1>4, EventTx
<1>6. /\ back' \in Backs /\ back'.up = back.up /\ back'.rx = back.rx
      /\ back'.tx_cons = back.tx_cons /\ back'.rx_cons = back.rx_cons
      /\ back'.tx_old = back.tx_old /\ back'.rx_old = back.rx_old
  BY <1>1, <1>2 DEF BackOk, Backs
<1>7. SendOk' /\ QueueOk' /\ StackOk' /\ RecvOk' /\ TxOk(tx', back'.tx_cons) /\ RxOk(rx') /\ bug' = FALSE
  BY <1>1, <1>2, <1>5, <1>6, SendSame, QueueSame, StackSame, RecvSame
<1>8. BackOk'
  <2>1. link = "connected" /\ tx'.req_event = Plus(back.tx_cons, 1)
    BY <1>1, <1>2, <1>5 DEF BackOk, e
  <2>. QED  BY <1>1, <1>2, <1>6, <2>1 DEF BackOk
<1>. QED  BY <1>7, <1>8 DEF Inv

LEMMA BackRecheckTxKeeps ==
  ASSUME Inv, BackRecheckTx
  PROVE  Inv'
<1>. USE DEF napiVars, stackVars, linkVars
<1>1. /\ TxOk(tx, back.tx_cons) /\ RxOk(rx) /\ bug = FALSE
      /\ StackOk /\ SendOk /\ QueueOk /\ RecvOk /\ BackOk
  BY Parts
<1>2. /\ UNCHANGED <<tx, rx, send, recv, napi, disabling, timer, running, stopped, rtnl, carrier, link, irq, bell, left, bug>>
      /\ back.tx = "recheck"
      /\ back' = [back EXCEPT !.tx = IF back.tx_cons # tx.req_prod THEN "awake" ELSE "asleep"]
  BY DEF BackRecheckTx
<1>3. /\ back' \in Backs /\ back'.up = back.up /\ back'.tx \in {"awake", "asleep"} /\ back'.rx = back.rx
      /\ back'.tx_cons = back.tx_cons /\ back'.rx_cons = back.rx_cons
      /\ back'.tx_old = back.tx_old /\ back'.rx_old = back.rx_old
  BY <1>1, <1>2 DEF BackOk, Backs
<1>4. SendOk' /\ QueueOk' /\ StackOk' /\ RecvOk' /\ TxOk(tx', back'.tx_cons) /\ RxOk(rx') /\ bug' = FALSE
  BY <1>1, <1>2, <1>3, SendSame, QueueSame, StackSame, RecvSame
<1>5. BackOk'
  <2>1. link # "attach"
    BY <1>1, <1>2, NoBackTyped DEF BackOk
  <2>. QED  BY <1>1, <1>2, <1>3, <2>1 DEF BackOk
<1>. QED  BY <1>4, <1>5 DEF Inv

LEMMA BackDeliverKeeps ==
  ASSUME Inv, BackDeliver
  PROVE  Inv'
<1>. USE DEF napiVars, stackVars, linkVars
<1>1. /\ TxOk(tx, back.tx_cons) /\ RxOk(rx) /\ bug = FALSE
      /\ StackOk /\ SendOk /\ QueueOk /\ RecvOk /\ BackOk
  BY Parts
<1>2. /\ UNCHANGED <<tx, send, recv, napi, disabling, timer, running, stopped, rtnl, carrier, link, irq, bell, bug>>
      /\ back.up /\ back.rx = "awake" /\ back.rx_old = NoPush
      /\ left.arrivals > 0 /\ Room >= MaxSlots
      /\ left' = [left EXCEPT !.arrivals = @ - 1]
      /\ \E m \in Messages :
           /\ rx' = [rx EXCEPT !.rsps = Append(@, m), !.rsp_prod = Plus(@, Slots(m))]
           /\ back' = [back EXCEPT !.rx_old = rx.rsp_prod, !.rx_cons = Plus(@, Slots(m))]
  BY DEF BackDeliver
<1>3. PICK m \in Messages :
        /\ rx' = [rx EXCEPT !.rsps = Append(@, m), !.rsp_prod = Plus(@, Slots(m))]
        /\ back' = [back EXCEPT !.rx_old = rx.rsp_prod, !.rx_cons = Plus(@, Slots(m))]
  BY <1>2
<1>4. left' \in Lefts /\ left'.sends = left.sends /\ left'.closes = left.closes
  BY <1>1, <1>2 DEF QueueOk, Lefts
<1>5. Minus(rx.req_prod, rx.rsp_prod) >= MaxSlots
  BY <1>1, <1>2 DEF BackOk, Room
<1>6. /\ RxOk(rx') /\ rx'.cons = rx.cons /\ rx'.rsp_prod = Plus(rx.rsp_prod, Slots(m))
      /\ rx'.rsp_event = rx.rsp_event /\ rx'.req_event = rx.req_event
  <2>. DEFINE u == rx'
  <2>1. u = [rx EXCEPT !.rsps = Append(@, m), !.rsp_prod = Plus(@, Slots(m))]
    BY <1>3
  <2>. HIDE DEF u
  <2>2. Delivered(rx, m, u)
    BY <1>1, <1>5, <2>1, DeliverRx, Zenon
  <2>. QED  BY <2>2 DEF Delivered, u
<1>. DEFINE p == Plus(rx.rsp_prod, Slots(m))
<1>7. back' = [back EXCEPT !.rx_old = rx.rsp_prod, !.rx_cons = p] /\ p \in Index /\ rx.rsp_prod \in 0..Wrap
  <2>1. rx' \in RxRings /\ rx \in RxRings
    BY <1>1, <1>6 DEF RxOk
  <2>2. p \in Index /\ rx.rsp_prod \in 0..Wrap
    BY <1>6, <2>1, RxTyped, NoPushTyped
  <2>3. back.rx_cons = rx.rsp_prod
    BY <1>1 DEF BackOk
  <2>. QED  BY <1>3, <2>2, <2>3
<1>. HIDE DEF p
<1>8. /\ back' \in Backs /\ back'.up = back.up /\ back'.tx = back.tx /\ back'.rx = back.rx
      /\ back'.tx_cons = back.tx_cons /\ back'.rx_cons = p /\ back'.tx_old = back.tx_old
  BY <1>1, <1>7 DEF BackOk, Backs
<1>9. SendOk' /\ QueueOk' /\ StackOk' /\ RecvOk' /\ TxOk(tx', back'.tx_cons) /\ bug' = FALSE
  BY <1>1, <1>2, <1>4, <1>6, <1>8, SendSame, QueueSpent, StackSame, RecvSame
<1>10. BackOk'
  <2>1. link = "connected" /\ rx'.rsp_prod = p
    BY <1>1, <1>2, <1>6 DEF BackOk, p
  <2>. QED  BY <1>1, <1>2, <1>6, <1>8, <2>1 DEF BackOk
<1>. QED  BY <1>6, <1>9, <1>10 DEF Inv

LEMMA BackNotifyRxKeeps ==
  ASSUME Inv, BackNotifyRx
  PROVE  Inv'
<1>. USE DEF napiVars, stackVars, linkVars
<1>1. /\ TxOk(tx, back.tx_cons) /\ RxOk(rx) /\ bug = FALSE
      /\ StackOk /\ SendOk /\ QueueOk /\ RecvOk /\ BackOk
  BY Parts
<1>2. /\ UNCHANGED <<tx, rx, send, recv, napi, disabling, timer, running, stopped, rtnl, carrier, link, bell, left, bug>>
      /\ back.rx_old # NoPush /\ irq' \in BOOLEAN /\ back' = [back EXCEPT !.rx_old = NoPush]
  BY DEF BackNotifyRx
<1>3. /\ back' \in Backs /\ back'.up = back.up /\ back'.tx = back.tx /\ back'.rx = back.rx
      /\ back'.tx_cons = back.tx_cons /\ back'.rx_cons = back.rx_cons
      /\ back'.tx_old \in {back.tx_old, NoPush} /\ back'.rx_old \in {back.rx_old, NoPush}
  BY <1>1, <1>2, Constants DEF BackOk, Backs, NoPush
<1>4. SendOk' /\ QueueOk' /\ StackOk' /\ RecvOk' /\ TxOk(tx', back'.tx_cons) /\ RxOk(rx') /\ bug' = FALSE
  BY <1>1, <1>2, <1>3, SendSame, QueueSame, StackSame, RecvSame
<1>5. BackOk'
  <2>1. link # "attach"
    BY <1>1, <1>2, NoBackTyped DEF BackOk
  <2>. QED  BY <1>1, <1>2, <1>3, <2>1 DEF BackOk
<1>. QED  BY <1>4, <1>5 DEF Inv

LEMMA BackSleepRxKeeps ==
  ASSUME Inv, BackSleepRx
  PROVE  Inv'
<1>. USE DEF napiVars, stackVars, linkVars
<1>1. /\ TxOk(tx, back.tx_cons) /\ RxOk(rx) /\ bug = FALSE
      /\ StackOk /\ SendOk /\ QueueOk /\ RecvOk /\ BackOk
  BY Parts
<1>2. /\ UNCHANGED <<tx, send, recv, napi, disabling, timer, running, stopped, rtnl, carrier, link, irq, bell, left, bug>>
      /\ back.up /\ rx' = [rx EXCEPT !.req_event = Plus(back.rx_cons, MaxSlots)]
      /\ back' = [back EXCEPT !.rx = "recheck"]
  BY DEF BackSleepRx
<1>. DEFINE e == Plus(back.rx_cons, MaxSlots)
<1>3. e \in Index
  <2>1. MaxSlots \in 0..RingSize + 1
    BY MaxSlotsTyped, Sizes
  <2>. QED  BY <1>1, <2>1, PlusType, BackTyped
<1>4. rx' = [rx EXCEPT !.req_event = e]
  BY <1>2
<1>. HIDE DEF e
<1>5. /\ RxOk(rx') /\ rx'.cons = rx.cons /\ rx'.rsp_prod = rx.rsp_prod /\ rx'.req_event = e
      /\ rx'.rsp_event = rx.rsp_event
  BY <1>1, <1>3, <1>4, EventRx
<1>6. /\ back' \in Backs /\ back'.up = back.up /\ back'.tx = back.tx
      /\ back'.tx_cons = back.tx_cons /\ back'.rx_cons = back.rx_cons
      /\ back'.tx_old = back.tx_old /\ back'.rx_old = back.rx_old
  BY <1>1, <1>2 DEF BackOk, Backs
<1>7. SendOk' /\ QueueOk' /\ StackOk' /\ RecvOk' /\ TxOk(tx', back'.tx_cons) /\ bug' = FALSE
  BY <1>1, <1>2, <1>5, <1>6, SendSame, QueueSame, StackSame, RecvSame
<1>8. BackOk'
  <2>1. link = "connected" /\ rx'.req_event = Plus(back.rx_cons, MaxSlots)
    BY <1>1, <1>2, <1>5 DEF BackOk, e
  <2>. QED  BY <1>1, <1>2, <1>5, <1>6, <2>1 DEF BackOk
<1>. QED  BY <1>5, <1>7, <1>8 DEF Inv

LEMMA BackRecheckRxKeeps ==
  ASSUME Inv, BackRecheckRx
  PROVE  Inv'
<1>. USE DEF napiVars, stackVars, linkVars
<1>1. /\ TxOk(tx, back.tx_cons) /\ RxOk(rx) /\ bug = FALSE
      /\ StackOk /\ SendOk /\ QueueOk /\ RecvOk /\ BackOk
  BY Parts
<1>2. /\ UNCHANGED <<tx, rx, send, recv, napi, disabling, timer, running, stopped, rtnl, carrier, link, irq, bell, left, bug>>
      /\ back.rx = "recheck"
      /\ back' = [back EXCEPT !.rx = IF Room >= MaxSlots THEN "awake" ELSE "asleep"]
  BY DEF BackRecheckRx
<1>3. /\ back' \in Backs /\ back'.up = back.up /\ back'.rx \in {"awake", "asleep"} /\ back'.tx = back.tx
      /\ back'.tx_cons = back.tx_cons /\ back'.rx_cons = back.rx_cons
      /\ back'.tx_old = back.tx_old /\ back'.rx_old = back.rx_old
  BY <1>1, <1>2 DEF BackOk, Backs
<1>4. SendOk' /\ QueueOk' /\ StackOk' /\ RecvOk' /\ TxOk(tx', back'.tx_cons) /\ RxOk(rx') /\ bug' = FALSE
  BY <1>1, <1>2, <1>3, SendSame, QueueSame, StackSame, RecvSame
<1>5. BackOk'
  <2>1. link # "attach"
    BY <1>1, <1>2, NoBackTyped DEF BackOk
  <2>. QED  BY <1>1, <1>2, <1>3, <2>1 DEF BackOk
<1>. QED  BY <1>4, <1>5 DEF Inv

LEMMA BackWakeKeeps ==
  ASSUME Inv, BackWake
  PROVE  Inv'
<1>. USE DEF napiVars, stackVars, linkVars
<1>1. /\ TxOk(tx, back.tx_cons) /\ RxOk(rx) /\ bug = FALSE
      /\ StackOk /\ SendOk /\ QueueOk /\ RecvOk /\ BackOk
  BY Parts
<1>2. /\ UNCHANGED <<tx, rx, send, recv, napi, disabling, timer, running, stopped, rtnl, carrier, link, irq, left, bug>>
      /\ back.up /\ bell' = FALSE /\ back' = [back EXCEPT !.tx = "awake", !.rx = "awake"]
  BY DEF BackWake
<1>3. /\ back' \in Backs /\ back'.up = back.up /\ back'.tx = "awake" /\ back'.rx = "awake"
      /\ back'.tx_cons = back.tx_cons /\ back'.rx_cons = back.rx_cons
      /\ back'.tx_old = back.tx_old /\ back'.rx_old = back.rx_old
  BY <1>1, <1>2 DEF BackOk, Backs
<1>4. SendOk' /\ QueueOk' /\ StackOk' /\ RecvOk' /\ TxOk(tx', back'.tx_cons) /\ RxOk(rx') /\ bug' = FALSE
  BY <1>1, <1>2, <1>3, SendSame, QueueSame, StackSame, RecvSame
<1>5. BackOk'
  <2>1. link = "connected"
    BY <1>1, <1>2 DEF BackOk
  <2>. QED  BY <1>1, <1>2, <1>3, <2>1 DEF BackOk
<1>. QED  BY <1>4, <1>5 DEF Inv

--------------------------------------------------------------------------------
LEMMA StutterKeeps ==
  ASSUME Inv, UNCHANGED vars
  PROVE  Inv'
<1>. USE DEF vars, napiVars, stackVars, linkVars
<1>1. /\ TxOk(tx, back.tx_cons) /\ RxOk(rx) /\ bug = FALSE
      /\ StackOk /\ SendOk /\ QueueOk /\ RecvOk /\ BackOk
  BY Parts
<1>2. UNCHANGED <<tx, rx, send, recv, napi, disabling, timer, running, stopped, rtnl, carrier, link, irq, bell, back, left, bug>>
  OBVIOUS
<1>3. SendOk' /\ QueueOk' /\ StackOk' /\ RecvOk' /\ BackOk' /\ TxOk(tx', back'.tx_cons) /\ RxOk(rx') /\ bug' = FALSE
  BY <1>1, <1>2, SendSame, QueueSame, StackSame, RecvSame, BackSame, BackTyped
<1>. QED  BY <1>3 DEF Inv

(* Every step keeps Inv. *)
LEMMA StepInv ==
  ASSUME Inv, [Next]_vars
  PROVE  Inv'
<1>1. CASE Transmit
  BY <1>1, StartXmitKeeps, XmitPushKeeps, XmitNotifyKeeps, InterruptKeeps, TxBufGcKeeps,
     TxSetEventKeeps, TxRecheckKeeps DEF Transmit
<1>2. CASE Receive
  BY <1>2, PollKeeps, RxPushKeeps, RxNotifyKeeps, PollAgainKeeps, PollLookKeeps, RxSetEventKeeps,
     PollCheckKeeps, PollCompleteKeeps, RefillTimeoutKeeps DEF Receive
<1>3. CASE Stack
  BY <1>3, OpenKeeps, OpenCheckKeeps, OpenEndKeeps, CloseKeeps, CloseEndKeeps DEF Stack
<1>4. CASE Link
  BY <1>4, MigrateKeeps, ResumeKeeps, UpdateFeaturesKeeps, NetworkConnectKeeps, BackendConnectKeeps DEF Link
<1>5. CASE Backend
  BY <1>5, BackTakeKeeps, BackAnswerKeeps, BackNotifyTxKeeps, BackSleepTxKeeps, BackRecheckTxKeeps,
     BackDeliverKeeps, BackNotifyRxKeeps, BackSleepRxKeeps, BackRecheckRxKeeps, BackWakeKeeps DEF Backend
<1>6. CASE UNCHANGED vars
  BY <1>6, StutterKeeps
<1>. QED  BY <1>1, <1>2, <1>3, <1>4, <1>5, <1>6 DEF Next

LEMMA NetInv ==
  ASSUME QuietClose
  PROVE  Spec => []Inv
<1>1. Init => Inv
  BY InitInv
<1>2. Inv /\ [Next]_vars => Inv'
  BY StepInv
<1>. QED  BY <1>1, <1>2, PTL DEF Spec

(* No BUG_ON of the network front end is reached, and every variable has   *)
(* its type: neither the transmit queue nor the receive ring is ever       *)
(* filled past what ids, grants and slots there are, across any number of  *)
(* migrations. *)
THEOREM NetReachesNoBug ==
  ASSUME QuietClose
  PROVE  Spec => []NoBug
<1>1. Inv => NoBug
  <2>. SUFFICES ASSUME Inv PROVE NoBug
    OBVIOUS
  <2>1. /\ TxOk(tx, back.tx_cons) /\ RxOk(rx) /\ bug = FALSE
        /\ StackOk /\ SendOk /\ QueueOk /\ RecvOk /\ BackOk
    BY Parts
  <2>2. {tx.pvt, tx.cons, tx.req_prod, tx.req_event, tx.rsp_prod, tx.rsp_event} \subseteq Index
    BY <2>1, TxTyped DEF TxOk
  <2>3. /\ {rx.pvt, rx.cons, rx.req_prod, rx.req_event, rx.rsp_prod, rx.rsp_event} \subseteq Index
        /\ rx.skbs \subseteq 0..RingSize - 1 /\ rx.target \in MinTarget..MaxTarget
    BY <2>1, RxTyped DEF RxOk
  <2>4. /\ send.at \in {"free", "push", "notify", "gc", "event", "recheck"}
        /\ recv.at \in {"free", "push", "notify", "final", "event", "check", "complete"}
    BY <2>1 DEF SendOk, RecvOk, Senders, Receivers
  <2>5. /\ napi \in {"off", "idle", "sched"} /\ rtnl \in {"free", "open", "close"}
        /\ {disabling, timer, running, stopped, carrier, irq, bell, bug} \subseteq BOOLEAN
        /\ link \in {"connected", "lost", "resumed", "ready", "attach"}
        /\ {back.tx, back.rx} \subseteq {"awake", "recheck", "asleep"}
    BY <2>1, BackTyped DEF StackOk, BackOk
  <2>. QED  BY <2>1, <2>2, <2>3, <2>4, <2>5 DEF NoBug, TypeOK
<1>. QED  BY <1>1, NetInv, PTL

LEMMA SetSequence ==
  ASSUME NEW S, IsFiniteSet(S)
  PROVE  ToSet(SetToSeq(S)) = S /\ Len(SetToSeq(S)) = Cardinality(S) /\ SetToSeq(S) \in Seq(S)
<1>. DEFINE n == Cardinality(S)
<1>1. n \in Nat
  BY FS_CardinalityType
<1>2. ExistsBijection(1..n, S)
  BY FS_CardinalityType
<1>3. PICK g : g \in Bijection(1..n, S)
  BY <1>2 DEF ExistsBijection
<1>4. g \in [1..n -> S] /\ IsInjective(g)
  <2>1. g \in [1..n -> S] /\ \A a, b \in 1..n : g[a] = g[b] => a = b
    BY <1>3 DEF Bijection, Injection, IsInjective
  <2>. QED  BY <2>1 DEF IsInjective
<1>5. SetToSeq(S) \in [1..n -> S] /\ IsInjective(SetToSeq(S))
  BY <1>4 DEF SetToSeq
<1>. DEFINE s == SetToSeq(S)
<1>. HIDE DEF s, n
<1>6. s \in [1..n -> S] /\ \A i, j \in 1..n : s[i] = s[j] => i = j
  BY <1>5 DEF IsInjective, s
<1>7. s \in Seq(S) /\ Len(s) = n
  BY <1>1, <1>6
<1>8. ToSet(s) = {s[i] : i \in 1..n}
  BY <1>7, Members
<1>9. IsFiniteSet(1..n) /\ Cardinality(1..n) = n
  BY <1>1, UpToCount
<1>10. s \in Injection(1..n, S)
  BY <1>6 DEF Injection, IsInjective
<1>11. S \subseteq {s[i] : i \in 1..n}
  <2>1. n = Cardinality(S)
    BY DEF n
  <2>2. s \in Surjection(1..n, S)
    BY <1>9, <1>10, <2>1, FS_Injection
  <2>. QED  BY <2>2 DEF Surjection
<1>12. {s[i] : i \in 1..n} \subseteq S
  BY <1>6
<1>. QED  BY <1>7, <1>8, <1>11, <1>12 DEF n, s

(* Every transmit id is in one place, once, and has its grant; the receive *)
(* buffers are those of the slots in use, each with its grant: no id,      *)
(* grant or buffer is lost or used twice, whatever the order of answers,   *)
(* polls and migrations. *)
THEOREM SlotsStayExact ==
  ASSUME QuietClose
  PROVE  Spec => []SlotsExact
<1>1. Inv => SlotsExact
  <2>. SUFFICES ASSUME Inv PROVE SlotsExact
    OBVIOUS
  <2>. DEFINE reqs == [i \in 1..Len(tx.reqs) |-> tx.reqs[i].id]
              own == {e.id : e \in tx.taken}
              last == SetToSeq(own)
              s1 == tx.free \o reqs
              s2 == s1 \o tx.rsps
              ids == s2 \o last
  <2>1. /\ tx \in TxRings /\ tx.free \in Seq(Ids) /\ tx.reqs \in Seq(Entry) /\ tx.rsps \in Seq(Ids)
        /\ tx.taken \subseteq Entry
        /\ Owned(tx.free, tx.reqs, tx.taken, tx.rsps) = Ids
        /\ Len(tx.free) + Len(tx.reqs) + Cardinality(tx.taken) + Len(tx.rsps) = RingSize
        /\ tx.grefs = Len(tx.free) /\ Outstanding(tx) <= RingSize
    BY Parts, TxTyped DEF TxOk, IdsOk, Accounted, IndexOk
  <2>2. own = TakenIds(tx.taken)
    BY DEF TakenIds
  <2>3. IsFiniteSet(own) /\ Cardinality(own) <= Cardinality(tx.taken) /\ Cardinality(own) \in Nat
        /\ Cardinality(tx.taken) \in Nat
    BY <2>1, <2>2, TakenIdsBound
  <2>4. own \subseteq Ids /\ own = TakenIds(tx.taken)
    BY <2>1 DEF Entry, TakenIds
  <2>5. reqs \in Seq(Ids) /\ Len(reqs) = Len(tx.reqs) /\ ToSet(reqs) = ReqIds(tx.reqs)
    <3>1. Len(tx.reqs) \in Nat /\ \A i \in 1..Len(tx.reqs) : tx.reqs[i].id \in Ids
      <4>1. Len(tx.reqs) \in Nat /\ \A i \in 1..Len(tx.reqs) : tx.reqs[i] \in Entry
        BY <2>1
      <4>2. \A e \in Entry : e.id \in Ids
        BY DEF Entry
      <4>. QED  BY <4>1, <4>2
    <3>2. reqs \in Seq(Ids) /\ Len(reqs) = Len(tx.reqs)
      BY <3>1
    <3>3. \A i \in 1..Len(tx.reqs) : reqs[i] = tx.reqs[i].id
      OBVIOUS
    <3>. HIDE DEF reqs
    <3>4. ToSet(reqs) = {reqs[i] : i \in 1..Len(reqs)}
      BY <3>2, Members
    <3>5. {reqs[i] : i \in 1..Len(reqs)} = ReqIds(tx.reqs)
      BY <3>2, <3>3 DEF ReqIds
    <3>. QED  BY <3>2, <3>4, <3>5
  <2>6. ToSet(last) = own /\ Len(last) = Cardinality(own) /\ last \in Seq(Ids)
    <3>1. ToSet(last) = own /\ Len(last) = Cardinality(own) /\ last \in Seq(own)
      BY <2>3, SetSequence
    <3>. HIDE DEF last, own
    <3>. QED  BY <2>4, <3>1
  <2>. HIDE DEF reqs, own, last
  <2>7. s1 \in Seq(Ids) /\ Len(s1) = Len(tx.free) + Len(reqs) /\ ToSet(s1) = ToSet(tx.free) \cup ToSet(reqs)
    <3>1. tx.free \in Seq(Ids) /\ reqs \in Seq(Ids)
      BY <2>1, <2>5
    <3>. QED  BY <3>1, MembersConcat
  <2>. HIDE DEF s1
  <2>8. s2 \in Seq(Ids) /\ Len(s2) = Len(s1) + Len(tx.rsps) /\ ToSet(s2) = ToSet(s1) \cup ToSet(tx.rsps)
    <3>1. s1 \in Seq(Ids) /\ tx.rsps \in Seq(Ids)
      BY <2>1, <2>7
    <3>. QED  BY <3>1, MembersConcat
  <2>. HIDE DEF s2
  <2>9. ids \in Seq(Ids) /\ Len(ids) = Len(s2) + Len(last) /\ ToSet(ids) = ToSet(s2) \cup ToSet(last)
    BY <2>6, <2>8, MembersConcat
  <2>. HIDE DEF ids
  <2>10. ToSet(ids) = Ids
    BY <2>1, <2>4, <2>5, <2>6, <2>7, <2>8, <2>9 DEF Owned
  <2>11. Len(ids) <= RingSize
    <3>1. Len(tx.free) \in Nat /\ Len(tx.reqs) \in Nat /\ Len(tx.rsps) \in Nat
      BY <2>1
    <3>2. Len(ids) = Len(tx.free) + Len(tx.reqs) + Len(tx.rsps) + Cardinality(own)
      BY <2>5, <2>6, <2>7, <2>8, <2>9
    <3>3. \A f, q, p, c, d \in Nat : f + q + d + p = RingSize /\ c <= d => f + q + p + c <= RingSize
      BY Sizes
    <3>. QED  BY <2>1, <2>3, <3>1, <3>2, <3>3
  <2>12. Len(ids) = RingSize
    <3>1. Cardinality(ToSet(ids)) <= Len(ids) /\ Len(ids) \in Nat
      BY <2>9, Members
    <3>2. Cardinality(Ids) = RingSize
      BY UpToCount, Sizes DEF Ids
    <3>. QED  BY <2>10, <2>11, <3>1, <3>2, Sizes
  <2>13. ids = tx.free \o reqs \o tx.rsps \o SetToSeq({e.id : e \in tx.taken})
    BY DEF ids, s2, s1, last, own
  <2>14. /\ rx.skbs = RxSlots(rx.cons, Outstanding(rx))
         /\ rx.grefs + Outstanding(rx) = RingSize
         /\ rx.batch + Outstanding(rx) <= RingSize
    BY Parts DEF RxOk, BuffersOk
  <2>. QED  BY <2>1, <2>10, <2>12, <2>13, <2>14 DEF SlotsExact, reqs
<1>. QED  BY <1>1, NetInv, PTL

--------------------------------------------------------------------------------
(* The rings as Ring sees them: who polls, and what counts as under way.   *)
TxReqPoll == IF back.up THEN back.tx ELSE "down"
RxReqPoll == IF back.up THEN back.rx ELSE "down"
TxRspPoll ==
    IF ~Listening THEN "down"
    ELSE CASE send.at \in {"gc", "event"} -> "awake"
           [] send.at = "recheck" -> "recheck"
           [] OTHER -> "asleep"
RxRspPoll ==
    IF ~Listening \/ ~running \/ recv.by = "open" THEN "down"
    ELSE CASE recv.at = "check" -> "recheck"
           [] napi = "idle" \/ recv.at = "complete" -> "asleep"
           [] OTHER -> "awake"
RxSignal == irq \/ send.by = "irq"
Sleeps(p, e, c) == Minus(p, c) < Minus(e, c) /\ Minus(e, c) <= RingSize + 1

(* TxRequests *)
LEMMA TxReqOps ==
  /\ \A a, k : TxRequests!Plus(a, k) = Plus(a, k) /\ TxRequests!Minus(a, k) = Minus(a, k)
  /\ \A p, e, o : TxRequests!CheckNotify(p, e, o) <=> CheckNotify(p, e, o)
  /\ \A p, e, c : TxRequests!MaySleep(p, e, c) <=> Sleeps(p, e, c)
  /\ TxRequests!Index = Index
  BY DEF TxRequests!Plus, Plus, TxRequests!Minus, Minus, TxRequests!CheckNotify, CheckNotify, TxRequests!Index, Index,
     TxRequests!MaySleep, Sleeps

LEMMA TxReqSame ==
  ASSUME tx'.req_prod = tx.req_prod, tx'.req_event = tx.req_event, back'.tx_cons = back.tx_cons, bell' = bell,
         (send'.at = "notify" <=> send.at = "notify") /\ (send.at = "notify" => send'.old = send.old), TxReqPoll' = TxReqPoll
  PROVE  UNCHANGED TxRequests!ringVars
  BY DEF TxRequests!ringVars, TxReqPoll

LEMMA TxReqPush ==
  ASSUME NEW k \in 0..RingSize,
         Minus(tx.req_prod, back.tx_cons) + k <= RingSize, tx'.req_prod = Plus(tx.req_prod, k), send.at # "notify", send'.at = "notify", send'.old = tx.req_prod,
         tx'.req_event = tx.req_event, back'.tx_cons = back.tx_cons, bell' = bell, TxReqPoll' = TxReqPoll
  PROVE  TxRequests!RingNext
<1>1. TxRequests!Push(k)
  BY TxReqOps DEF TxRequests!Push, TxReqPoll
<1>. QED  BY <1>1 DEF TxRequests!RingNext

LEMMA TxReqNotify ==
  ASSUME send.at = "notify", send'.at # "notify", bell \in BOOLEAN, bell' \in BOOLEAN, bell => bell',
         CheckNotify(tx.req_prod, tx.req_event, send.old) /\ TxReqPoll # "down" => bell',
         tx'.req_prod = tx.req_prod, tx'.req_event = tx.req_event, back'.tx_cons = back.tx_cons, TxReqPoll' = TxReqPoll
  PROVE  TxRequests!RingNext
<1>1. TxRequests!Notify
  BY TxReqOps DEF TxRequests!Notify, TxReqPoll
<1>. QED  BY <1>1 DEF TxRequests!RingNext

LEMMA TxReqConsume ==
  ASSUME NEW k \in 0..RingSize,
         TxReqPoll \in {"awake", "down"}, k <= Minus(tx.req_prod, back.tx_cons), back'.tx_cons = Plus(back.tx_cons, k),
         tx'.req_prod = tx.req_prod, tx'.req_event = tx.req_event, bell' = bell, (send'.at = "notify" <=> send.at = "notify") /\ (send.at = "notify" => send'.old = send.old), TxReqPoll' = TxReqPoll
  PROVE  TxRequests!RingNext
<1>1. TxRequests!Consume(k)
  BY TxReqOps DEF TxRequests!Consume, TxReqPoll
<1>. QED  BY <1>1 DEF TxRequests!RingNext

LEMMA TxReqSetEvent ==
  ASSUME NEW k \in 1..RingSize + 1,
         TxReqPoll \in {"awake", "down"}, tx'.req_event = Plus(back.tx_cons, k),
         TxReqPoll' = IF TxReqPoll = "down" THEN TxReqPoll ELSE "recheck",
         tx'.req_prod = tx.req_prod, back'.tx_cons = back.tx_cons, bell' = bell, (send'.at = "notify" <=> send.at = "notify") /\ (send.at = "notify" => send'.old = send.old)
  PROVE  TxRequests!RingNext
<1>1. TxRequests!SetEvent(k)
  BY TxReqOps DEF TxRequests!SetEvent, TxReqPoll
<1>. QED  BY <1>1 DEF TxRequests!RingNext

LEMMA TxReqRecheck ==
  ASSUME TxReqPoll = "recheck", TxReqPoll' \in {"awake", "asleep"}, TxReqPoll' = "asleep" => Sleeps(tx.req_prod, tx.req_event, back.tx_cons),
         tx'.req_prod = tx.req_prod, tx'.req_event = tx.req_event, back'.tx_cons = back.tx_cons, bell' = bell, (send'.at = "notify" <=> send.at = "notify") /\ (send.at = "notify" => send'.old = send.old)
  PROVE  TxRequests!RingNext
<1>1. TxRequests!Recheck
  BY TxReqOps DEF TxRequests!Recheck, TxReqPoll
<1>. QED  BY <1>1 DEF TxRequests!RingNext

LEMMA TxReqWake ==
  ASSUME TxReqPoll = "asleep", TxReqPoll' = "awake", bell' \in BOOLEAN, bell' => bell,
         tx'.req_prod = tx.req_prod, tx'.req_event = tx.req_event, back'.tx_cons = back.tx_cons, (send'.at = "notify" <=> send.at = "notify") /\ (send.at = "notify" => send'.old = send.old)
  PROVE  TxRequests!RingNext
<1>1. TxRequests!Wake
  BY TxReqOps DEF TxRequests!Wake, TxReqPoll
<1>. QED  BY <1>1 DEF TxRequests!RingNext

LEMMA TxReqBell ==
  ASSUME bell \in BOOLEAN, bell' \in BOOLEAN, TxReqPoll = "asleep" /\ ~Sleeps(tx.req_prod, tx.req_event, back.tx_cons) /\ bell => bell',
         tx'.req_prod = tx.req_prod, tx'.req_event = tx.req_event, back'.tx_cons = back.tx_cons, (send'.at = "notify" <=> send.at = "notify") /\ (send.at = "notify" => send'.old = send.old), TxReqPoll' = TxReqPoll
  PROVE  TxRequests!RingNext
<1>1. TxRequests!Bell
  BY TxReqOps DEF TxRequests!Bell, TxReqPoll
<1>. QED  BY <1>1 DEF TxRequests!RingNext

LEMMA TxReqDown ==
  ASSUME TxReqPoll' = "down", bell' \in BOOLEAN, send'.at = "notify" => send.at = "notify" /\ send'.old = send.old,
         tx'.req_prod = tx.req_prod, tx'.req_event = tx.req_event, back'.tx_cons = back.tx_cons
  PROVE  TxRequests!RingNext
<1>1. TxRequests!Down
  BY TxReqOps DEF TxRequests!Down, TxReqPoll
<1>. QED  BY <1>1 DEF TxRequests!RingNext

LEMMA TxReqUp ==
  ASSUME TxReqPoll = "down", bell' \in BOOLEAN, TxReqPoll' \in {"awake", "asleep"},
         TxReqPoll' = "asleep" => Sleeps(tx.req_prod, tx.req_event, back.tx_cons), tx'.req_prod = tx.req_prod, tx'.req_event = tx.req_event, back'.tx_cons = back.tx_cons, (send'.at = "notify" <=> send.at = "notify") /\ (send.at = "notify" => send'.old = send.old)
  PROVE  TxRequests!RingNext
<1>1. TxRequests!Up
  BY TxReqOps DEF TxRequests!Up, TxReqPoll
<1>. QED  BY <1>1 DEF TxRequests!RingNext

LEMMA TxReqReset ==
  ASSUME NEW k \in 0..RingSize,
         TxReqPoll = "down", send'.at # "notify", bell' \in BOOLEAN, back'.tx_cons = First, tx'.req_prod = Plus(First, k), tx'.req_event \in Index,
         TxReqPoll' \in {"awake", "down", "asleep"}, TxReqPoll' = "asleep" => Sleeps(tx'.req_prod, tx'.req_event, First)
  PROVE  TxRequests!RingNext
<1>1. TxRequests!Reset
  BY TxReqOps DEF TxRequests!Reset, TxReqPoll
<1>. QED  BY <1>1 DEF TxRequests!RingNext

(* RxRequests *)
LEMMA RxReqOps ==
  /\ \A a, k : RxRequests!Plus(a, k) = Plus(a, k) /\ RxRequests!Minus(a, k) = Minus(a, k)
  /\ \A p, e, o : RxRequests!CheckNotify(p, e, o) <=> CheckNotify(p, e, o)
  /\ \A p, e, c : RxRequests!MaySleep(p, e, c) <=> Sleeps(p, e, c)
  /\ RxRequests!Index = Index
  BY DEF RxRequests!Plus, Plus, RxRequests!Minus, Minus, RxRequests!CheckNotify, CheckNotify, RxRequests!Index, Index,
     RxRequests!MaySleep, Sleeps

LEMMA RxReqSame ==
  ASSUME rx'.req_prod = rx.req_prod, rx'.req_event = rx.req_event, back'.rx_cons = back.rx_cons, bell' = bell,
         (recv'.at = "notify" <=> recv.at = "notify") /\ (recv.at = "notify" => recv'.old = recv.old), RxReqPoll' = RxReqPoll
  PROVE  UNCHANGED RxRequests!ringVars
  BY DEF RxRequests!ringVars, RxReqPoll

LEMMA RxReqPush ==
  ASSUME NEW k \in 0..RingSize,
         Minus(rx.req_prod, back.rx_cons) + k <= RingSize, rx'.req_prod = Plus(rx.req_prod, k), recv.at # "notify", recv'.at = "notify", recv'.old = rx.req_prod,
         rx'.req_event = rx.req_event, back'.rx_cons = back.rx_cons, bell' = bell, RxReqPoll' = RxReqPoll
  PROVE  RxRequests!RingNext
<1>1. RxRequests!Push(k)
  BY RxReqOps DEF RxRequests!Push, RxReqPoll
<1>. QED  BY <1>1 DEF RxRequests!RingNext

LEMMA RxReqNotify ==
  ASSUME recv.at = "notify", recv'.at # "notify", bell \in BOOLEAN, bell' \in BOOLEAN, bell => bell',
         CheckNotify(rx.req_prod, rx.req_event, recv.old) /\ RxReqPoll # "down" => bell',
         rx'.req_prod = rx.req_prod, rx'.req_event = rx.req_event, back'.rx_cons = back.rx_cons, RxReqPoll' = RxReqPoll
  PROVE  RxRequests!RingNext
<1>1. RxRequests!Notify
  BY RxReqOps DEF RxRequests!Notify, RxReqPoll
<1>. QED  BY <1>1 DEF RxRequests!RingNext

LEMMA RxReqConsume ==
  ASSUME NEW k \in 0..RingSize,
         RxReqPoll \in {"awake", "down"}, k <= Minus(rx.req_prod, back.rx_cons), back'.rx_cons = Plus(back.rx_cons, k),
         rx'.req_prod = rx.req_prod, rx'.req_event = rx.req_event, bell' = bell, (recv'.at = "notify" <=> recv.at = "notify") /\ (recv.at = "notify" => recv'.old = recv.old), RxReqPoll' = RxReqPoll
  PROVE  RxRequests!RingNext
<1>1. RxRequests!Consume(k)
  BY RxReqOps DEF RxRequests!Consume, RxReqPoll
<1>. QED  BY <1>1 DEF RxRequests!RingNext

LEMMA RxReqSetEvent ==
  ASSUME NEW k \in 1..RingSize + 1,
         RxReqPoll \in {"awake", "down"}, rx'.req_event = Plus(back.rx_cons, k),
         RxReqPoll' = IF RxReqPoll = "down" THEN RxReqPoll ELSE "recheck",
         rx'.req_prod = rx.req_prod, back'.rx_cons = back.rx_cons, bell' = bell, (recv'.at = "notify" <=> recv.at = "notify") /\ (recv.at = "notify" => recv'.old = recv.old)
  PROVE  RxRequests!RingNext
<1>1. RxRequests!SetEvent(k)
  BY RxReqOps DEF RxRequests!SetEvent, RxReqPoll
<1>. QED  BY <1>1 DEF RxRequests!RingNext

LEMMA RxReqRecheck ==
  ASSUME RxReqPoll = "recheck", RxReqPoll' \in {"awake", "asleep"}, RxReqPoll' = "asleep" => Sleeps(rx.req_prod, rx.req_event, back.rx_cons),
         rx'.req_prod = rx.req_prod, rx'.req_event = rx.req_event, back'.rx_cons = back.rx_cons, bell' = bell, (recv'.at = "notify" <=> recv.at = "notify") /\ (recv.at = "notify" => recv'.old = recv.old)
  PROVE  RxRequests!RingNext
<1>1. RxRequests!Recheck
  BY RxReqOps DEF RxRequests!Recheck, RxReqPoll
<1>. QED  BY <1>1 DEF RxRequests!RingNext

LEMMA RxReqWake ==
  ASSUME RxReqPoll = "asleep", RxReqPoll' = "awake", bell' \in BOOLEAN, bell' => bell,
         rx'.req_prod = rx.req_prod, rx'.req_event = rx.req_event, back'.rx_cons = back.rx_cons, (recv'.at = "notify" <=> recv.at = "notify") /\ (recv.at = "notify" => recv'.old = recv.old)
  PROVE  RxRequests!RingNext
<1>1. RxRequests!Wake
  BY RxReqOps DEF RxRequests!Wake, RxReqPoll
<1>. QED  BY <1>1 DEF RxRequests!RingNext

LEMMA RxReqBell ==
  ASSUME bell \in BOOLEAN, bell' \in BOOLEAN, RxReqPoll = "asleep" /\ ~Sleeps(rx.req_prod, rx.req_event, back.rx_cons) /\ bell => bell',
         rx'.req_prod = rx.req_prod, rx'.req_event = rx.req_event, back'.rx_cons = back.rx_cons, (recv'.at = "notify" <=> recv.at = "notify") /\ (recv.at = "notify" => recv'.old = recv.old), RxReqPoll' = RxReqPoll
  PROVE  RxRequests!RingNext
<1>1. RxRequests!Bell
  BY RxReqOps DEF RxRequests!Bell, RxReqPoll
<1>. QED  BY <1>1 DEF RxRequests!RingNext

LEMMA RxReqDown ==
  ASSUME RxReqPoll' = "down", bell' \in BOOLEAN, recv'.at = "notify" => recv.at = "notify" /\ recv'.old = recv.old,
         rx'.req_prod = rx.req_prod, rx'.req_event = rx.req_event, back'.rx_cons = back.rx_cons
  PROVE  RxRequests!RingNext
<1>1. RxRequests!Down
  BY RxReqOps DEF RxRequests!Down, RxReqPoll
<1>. QED  BY <1>1 DEF RxRequests!RingNext

LEMMA RxReqUp ==
  ASSUME RxReqPoll = "down", bell' \in BOOLEAN, RxReqPoll' \in {"awake", "asleep"},
         RxReqPoll' = "asleep" => Sleeps(rx.req_prod, rx.req_event, back.rx_cons), rx'.req_prod = rx.req_prod, rx'.req_event = rx.req_event, back'.rx_cons = back.rx_cons, (recv'.at = "notify" <=> recv.at = "notify") /\ (recv.at = "notify" => recv'.old = recv.old)
  PROVE  RxRequests!RingNext
<1>1. RxRequests!Up
  BY RxReqOps DEF RxRequests!Up, RxReqPoll
<1>. QED  BY <1>1 DEF RxRequests!RingNext

LEMMA RxReqReset ==
  ASSUME NEW k \in 0..RingSize,
         RxReqPoll = "down", recv'.at # "notify", bell' \in BOOLEAN, back'.rx_cons = First, rx'.req_prod = Plus(First, k), rx'.req_event \in Index,
         RxReqPoll' \in {"awake", "down", "asleep"}, RxReqPoll' = "asleep" => Sleeps(rx'.req_prod, rx'.req_event, First)
  PROVE  RxRequests!RingNext
<1>1. RxRequests!Reset
  BY RxReqOps DEF RxRequests!Reset, RxReqPoll
<1>. QED  BY <1>1 DEF RxRequests!RingNext

(* TxResponses *)
LEMMA TxRspOps ==
  /\ \A a, k : TxResponses!Plus(a, k) = Plus(a, k) /\ TxResponses!Minus(a, k) = Minus(a, k)
  /\ \A p, e, o : TxResponses!CheckNotify(p, e, o) <=> CheckNotify(p, e, o)
  /\ \A p, e, c : TxResponses!MaySleep(p, e, c) <=> Sleeps(p, e, c)
  /\ TxResponses!Index = Index
  BY DEF TxResponses!Plus, Plus, TxResponses!Minus, Minus, TxResponses!CheckNotify, CheckNotify, TxResponses!Index, Index,
     TxResponses!MaySleep, Sleeps

LEMMA TxRspSame ==
  ASSUME tx'.rsp_prod = tx.rsp_prod, tx'.rsp_event = tx.rsp_event, tx'.cons = tx.cons, irq' = irq,
         (back'.tx_old # NoPush <=> back.tx_old # NoPush) /\ (back.tx_old # NoPush => back'.tx_old = back.tx_old), TxRspPoll' = TxRspPoll
  PROVE  UNCHANGED TxResponses!ringVars
  BY DEF TxResponses!ringVars, TxRspPoll

LEMMA TxRspPush ==
  ASSUME NEW k \in 0..RingSize,
         Minus(tx.rsp_prod, tx.cons) + k <= RingSize, tx'.rsp_prod = Plus(tx.rsp_prod, k), back.tx_old = NoPush, back'.tx_old # NoPush, back'.tx_old = tx.rsp_prod,
         tx'.rsp_event = tx.rsp_event, tx'.cons = tx.cons, irq' = irq, TxRspPoll' = TxRspPoll
  PROVE  TxResponses!RingNext
<1>1. TxResponses!Push(k)
  BY TxRspOps DEF TxResponses!Push, TxRspPoll
<1>. QED  BY <1>1 DEF TxResponses!RingNext

LEMMA TxRspNotify ==
  ASSUME back.tx_old # NoPush, back'.tx_old = NoPush, irq \in BOOLEAN, irq' \in BOOLEAN, irq => irq',
         CheckNotify(tx.rsp_prod, tx.rsp_event, back.tx_old) /\ TxRspPoll # "down" => irq',
         tx'.rsp_prod = tx.rsp_prod, tx'.rsp_event = tx.rsp_event, tx'.cons = tx.cons, TxRspPoll' = TxRspPoll
  PROVE  TxResponses!RingNext
<1>1. TxResponses!Notify
  BY TxRspOps DEF TxResponses!Notify, TxRspPoll
<1>. QED  BY <1>1 DEF TxResponses!RingNext

LEMMA TxRspConsume ==
  ASSUME NEW k \in 0..RingSize,
         TxRspPoll \in {"awake", "down"}, k <= Minus(tx.rsp_prod, tx.cons), tx'.cons = Plus(tx.cons, k),
         tx'.rsp_prod = tx.rsp_prod, tx'.rsp_event = tx.rsp_event, irq' = irq, (back'.tx_old # NoPush <=> back.tx_old # NoPush) /\ (back.tx_old # NoPush => back'.tx_old = back.tx_old), TxRspPoll' = TxRspPoll
  PROVE  TxResponses!RingNext
<1>1. TxResponses!Consume(k)
  BY TxRspOps DEF TxResponses!Consume, TxRspPoll
<1>. QED  BY <1>1 DEF TxResponses!RingNext

LEMMA TxRspSetEvent ==
  ASSUME NEW k \in 1..RingSize + 1,
         TxRspPoll \in {"awake", "down"}, tx'.rsp_event = Plus(tx.cons, k),
         TxRspPoll' = IF TxRspPoll = "down" THEN TxRspPoll ELSE "recheck",
         tx'.rsp_prod = tx.rsp_prod, tx'.cons = tx.cons, irq' = irq, (back'.tx_old # NoPush <=> back.tx_old # NoPush) /\ (back.tx_old # NoPush => back'.tx_old = back.tx_old)
  PROVE  TxResponses!RingNext
<1>1. TxResponses!SetEvent(k)
  BY TxRspOps DEF TxResponses!SetEvent, TxRspPoll
<1>. QED  BY <1>1 DEF TxResponses!RingNext

LEMMA TxRspRecheck ==
  ASSUME TxRspPoll = "recheck", TxRspPoll' \in {"awake", "asleep"}, TxRspPoll' = "asleep" => Sleeps(tx.rsp_prod, tx.rsp_event, tx.cons),
         tx'.rsp_prod = tx.rsp_prod, tx'.rsp_event = tx.rsp_event, tx'.cons = tx.cons, irq' = irq, (back'.tx_old # NoPush <=> back.tx_old # NoPush) /\ (back.tx_old # NoPush => back'.tx_old = back.tx_old)
  PROVE  TxResponses!RingNext
<1>1. TxResponses!Recheck
  BY TxRspOps DEF TxResponses!Recheck, TxRspPoll
<1>. QED  BY <1>1 DEF TxResponses!RingNext

LEMMA TxRspWake ==
  ASSUME TxRspPoll = "asleep", TxRspPoll' = "awake", irq' \in BOOLEAN, irq' => irq,
         tx'.rsp_prod = tx.rsp_prod, tx'.rsp_event = tx.rsp_event, tx'.cons = tx.cons, (back'.tx_old # NoPush <=> back.tx_old # NoPush) /\ (back.tx_old # NoPush => back'.tx_old = back.tx_old)
  PROVE  TxResponses!RingNext
<1>1. TxResponses!Wake
  BY TxRspOps DEF TxResponses!Wake, TxRspPoll
<1>. QED  BY <1>1 DEF TxResponses!RingNext

LEMMA TxRspBell ==
  ASSUME irq \in BOOLEAN, irq' \in BOOLEAN, TxRspPoll = "asleep" /\ ~Sleeps(tx.rsp_prod, tx.rsp_event, tx.cons) /\ irq => irq',
         tx'.rsp_prod = tx.rsp_prod, tx'.rsp_event = tx.rsp_event, tx'.cons = tx.cons, (back'.tx_old # NoPush <=> back.tx_old # NoPush) /\ (back.tx_old # NoPush => back'.tx_old = back.tx_old), TxRspPoll' = TxRspPoll
  PROVE  TxResponses!RingNext
<1>1. TxResponses!Bell
  BY TxRspOps DEF TxResponses!Bell, TxRspPoll
<1>. QED  BY <1>1 DEF TxResponses!RingNext

LEMMA TxRspDown ==
  ASSUME TxRspPoll' = "down", irq' \in BOOLEAN, back'.tx_old # NoPush => back.tx_old # NoPush /\ back'.tx_old = back.tx_old,
         tx'.rsp_prod = tx.rsp_prod, tx'.rsp_event = tx.rsp_event, tx'.cons = tx.cons
  PROVE  TxResponses!RingNext
<1>1. TxResponses!Down
  BY TxRspOps DEF TxResponses!Down, TxRspPoll
<1>. QED  BY <1>1 DEF TxResponses!RingNext

LEMMA TxRspReset ==
  ASSUME NEW k \in 0..RingSize,
         TxRspPoll = "down", back'.tx_old = NoPush, irq' \in BOOLEAN, tx'.cons = First, tx'.rsp_prod = Plus(First, k), tx'.rsp_event \in Index,
         TxRspPoll' \in {"awake", "down", "asleep"}, TxRspPoll' = "asleep" => Sleeps(tx'.rsp_prod, tx'.rsp_event, First)
  PROVE  TxResponses!RingNext
<1>1. TxResponses!Reset
  BY TxRspOps DEF TxResponses!Reset, TxRspPoll
<1>. QED  BY <1>1 DEF TxResponses!RingNext

(* RxResponses *)
LEMMA RxRspOps ==
  /\ \A a, k : RxResponses!Plus(a, k) = Plus(a, k) /\ RxResponses!Minus(a, k) = Minus(a, k)
  /\ \A p, e, o : RxResponses!CheckNotify(p, e, o) <=> CheckNotify(p, e, o)
  /\ \A p, e, c : RxResponses!MaySleep(p, e, c) <=> Sleeps(p, e, c)
  /\ RxResponses!Index = Index
  BY DEF RxResponses!Plus, Plus, RxResponses!Minus, Minus, RxResponses!CheckNotify, CheckNotify, RxResponses!Index, Index,
     RxResponses!MaySleep, Sleeps

LEMMA RxRspSame ==
  ASSUME rx'.rsp_prod = rx.rsp_prod, rx'.rsp_event = rx.rsp_event, rx'.cons = rx.cons, RxSignal' = RxSignal,
         (back'.rx_old # NoPush <=> back.rx_old # NoPush) /\ (back.rx_old # NoPush => back'.rx_old = back.rx_old), RxRspPoll' = RxRspPoll
  PROVE  UNCHANGED RxResponses!ringVars
  BY DEF RxResponses!ringVars, RxRspPoll, RxSignal

LEMMA RxRspPush ==
  ASSUME NEW k \in 0..RingSize,
         Minus(rx.rsp_prod, rx.cons) + k <= RingSize, rx'.rsp_prod = Plus(rx.rsp_prod, k), back.rx_old = NoPush, back'.rx_old # NoPush, back'.rx_old = rx.rsp_prod,
         rx'.rsp_event = rx.rsp_event, rx'.cons = rx.cons, RxSignal' = RxSignal, RxRspPoll' = RxRspPoll
  PROVE  RxResponses!RingNext
<1>1. RxResponses!Push(k)
  BY RxRspOps DEF RxResponses!Push, RxRspPoll, RxSignal
<1>. QED  BY <1>1 DEF RxResponses!RingNext

LEMMA RxRspNotify ==
  ASSUME back.rx_old # NoPush, back'.rx_old = NoPush, RxSignal \in BOOLEAN, RxSignal' \in BOOLEAN, RxSignal => RxSignal',
         CheckNotify(rx.rsp_prod, rx.rsp_event, back.rx_old) /\ RxRspPoll # "down" => RxSignal',
         rx'.rsp_prod = rx.rsp_prod, rx'.rsp_event = rx.rsp_event, rx'.cons = rx.cons, RxRspPoll' = RxRspPoll
  PROVE  RxResponses!RingNext
<1>1. RxResponses!Notify
  BY RxRspOps DEF RxResponses!Notify, RxRspPoll, RxSignal
<1>. QED  BY <1>1 DEF RxResponses!RingNext

LEMMA RxRspConsume ==
  ASSUME NEW k \in 0..RingSize,
         RxRspPoll \in {"awake", "down"}, k <= Minus(rx.rsp_prod, rx.cons), rx'.cons = Plus(rx.cons, k),
         rx'.rsp_prod = rx.rsp_prod, rx'.rsp_event = rx.rsp_event, RxSignal' = RxSignal, (back'.rx_old # NoPush <=> back.rx_old # NoPush) /\ (back.rx_old # NoPush => back'.rx_old = back.rx_old), RxRspPoll' = RxRspPoll
  PROVE  RxResponses!RingNext
<1>1. RxResponses!Consume(k)
  BY RxRspOps DEF RxResponses!Consume, RxRspPoll, RxSignal
<1>. QED  BY <1>1 DEF RxResponses!RingNext

LEMMA RxRspSetEvent ==
  ASSUME NEW k \in 1..RingSize + 1,
         RxRspPoll \in {"awake", "down"}, rx'.rsp_event = Plus(rx.cons, k),
         RxRspPoll' = IF RxRspPoll = "down" THEN RxRspPoll ELSE "recheck",
         rx'.rsp_prod = rx.rsp_prod, rx'.cons = rx.cons, RxSignal' = RxSignal, (back'.rx_old # NoPush <=> back.rx_old # NoPush) /\ (back.rx_old # NoPush => back'.rx_old = back.rx_old)
  PROVE  RxResponses!RingNext
<1>1. RxResponses!SetEvent(k)
  BY RxRspOps DEF RxResponses!SetEvent, RxRspPoll, RxSignal
<1>. QED  BY <1>1 DEF RxResponses!RingNext

LEMMA RxRspRecheck ==
  ASSUME RxRspPoll = "recheck", RxRspPoll' \in {"awake", "asleep"}, RxRspPoll' = "asleep" => Sleeps(rx.rsp_prod, rx.rsp_event, rx.cons),
         rx'.rsp_prod = rx.rsp_prod, rx'.rsp_event = rx.rsp_event, rx'.cons = rx.cons, RxSignal' = RxSignal, (back'.rx_old # NoPush <=> back.rx_old # NoPush) /\ (back.rx_old # NoPush => back'.rx_old = back.rx_old)
  PROVE  RxResponses!RingNext
<1>1. RxResponses!Recheck
  BY RxRspOps DEF RxResponses!Recheck, RxRspPoll, RxSignal
<1>. QED  BY <1>1 DEF RxResponses!RingNext

LEMMA RxRspWake ==
  ASSUME RxRspPoll = "asleep", RxRspPoll' = "awake", RxSignal' \in BOOLEAN, RxSignal' => RxSignal,
         rx'.rsp_prod = rx.rsp_prod, rx'.rsp_event = rx.rsp_event, rx'.cons = rx.cons, (back'.rx_old # NoPush <=> back.rx_old # NoPush) /\ (back.rx_old # NoPush => back'.rx_old = back.rx_old)
  PROVE  RxResponses!RingNext
<1>1. RxResponses!Wake
  BY RxRspOps DEF RxResponses!Wake, RxRspPoll, RxSignal
<1>. QED  BY <1>1 DEF RxResponses!RingNext

LEMMA RxRspBell ==
  ASSUME RxSignal \in BOOLEAN, RxSignal' \in BOOLEAN, RxRspPoll = "asleep" /\ ~Sleeps(rx.rsp_prod, rx.rsp_event, rx.cons) /\ RxSignal => RxSignal',
         rx'.rsp_prod = rx.rsp_prod, rx'.rsp_event = rx.rsp_event, rx'.cons = rx.cons, (back'.rx_old # NoPush <=> back.rx_old # NoPush) /\ (back.rx_old # NoPush => back'.rx_old = back.rx_old), RxRspPoll' = RxRspPoll
  PROVE  RxResponses!RingNext
<1>1. RxSignal' \in IF RxRspPoll = "asleep" /\ ~Sleeps(rx.rsp_prod, rx.rsp_event, rx.cons) THEN {RxSignal, TRUE} ELSE BOOLEAN
  <2>1. (RxSignal' = TRUE \/ RxSignal' = FALSE) /\ (RxSignal = TRUE \/ RxSignal = FALSE)
    BY Zenon
  <2>2. RxRspPoll = "asleep" /\ ~Sleeps(rx.rsp_prod, rx.rsp_event, rx.cons) => RxSignal' = TRUE \/ RxSignal' = RxSignal
    BY <2>1, Zenon
  <2>. QED  BY <2>1, <2>2, Zenon
<1>2. UNCHANGED <<rx.rsp_prod, RxRspPoll>> /\ rx'.rsp_event = rx.rsp_event /\ rx'.cons = rx.cons
  OBVIOUS
<1>3. RxResponses!Bell
  BY <1>1, <1>2, RxRspOps DEF RxResponses!Bell, RxRspPoll, RxSignal
<1>. QED  BY <1>3 DEF RxResponses!RingNext

LEMMA RxRspDown ==
  ASSUME RxRspPoll' = "down", RxSignal' \in BOOLEAN, back'.rx_old # NoPush => back.rx_old # NoPush /\ back'.rx_old = back.rx_old,
         rx'.rsp_prod = rx.rsp_prod, rx'.rsp_event = rx.rsp_event, rx'.cons = rx.cons
  PROVE  RxResponses!RingNext
<1>1. RxResponses!Down
  BY RxRspOps DEF RxResponses!Down, RxRspPoll, RxSignal
<1>. QED  BY <1>1 DEF RxResponses!RingNext

LEMMA RxRspUp ==
  ASSUME RxRspPoll = "down", RxSignal' \in BOOLEAN, RxRspPoll' \in {"awake", "asleep"},
         RxRspPoll' = "asleep" => Sleeps(rx.rsp_prod, rx.rsp_event, rx.cons), rx'.rsp_prod = rx.rsp_prod, rx'.rsp_event = rx.rsp_event, rx'.cons = rx.cons, (back'.rx_old # NoPush <=> back.rx_old # NoPush) /\ (back.rx_old # NoPush => back'.rx_old = back.rx_old)
  PROVE  RxResponses!RingNext
<1>1. RxResponses!Up
  BY RxRspOps DEF RxResponses!Up, RxRspPoll, RxSignal
<1>. QED  BY <1>1 DEF RxResponses!RingNext

LEMMA RxRspReset ==
  ASSUME NEW k \in 0..RingSize,
         RxRspPoll = "down", back'.rx_old = NoPush, RxSignal' \in BOOLEAN, rx'.cons = First, rx'.rsp_prod = Plus(First, k), rx'.rsp_event \in Index,
         RxRspPoll' \in {"awake", "down", "asleep"}, RxRspPoll' = "asleep" => Sleeps(rx'.rsp_prod, rx'.rsp_event, First)
  PROVE  RxResponses!RingNext
<1>1. RxResponses!Reset
  BY RxRspOps DEF RxResponses!Reset, RxRspPoll, RxSignal
<1>. QED  BY <1>1 DEF RxResponses!RingNext

--------------------------------------------------------------------------------
(* What the steps that change a ring leave of it for its other direction.  *)
LEMMA XmitSame ==
  ASSUME Inv, NEW n \in 1..MaxFrags + 1, NEW extra \in BOOLEAN, StartXmit(n, extra)
  PROVE  /\ tx'.cons = tx.cons /\ tx'.req_prod = tx.req_prod /\ tx'.req_event = tx.req_event
         /\ tx'.rsp_prod = tx.rsp_prod /\ tx'.rsp_event = tx.rsp_event
         /\ send.at = "free" /\ send.by = "none" /\ send.old = 0
         /\ send'.at \in {"free", "push"} /\ send'.by \in {"none", "xmit"} /\ send'.old = 0
<1>. USE DEF napiVars, stackVars, linkVars
<1>1. /\ TxOk(tx, back.tx_cons) /\ RxOk(rx) /\ bug = FALSE
      /\ StackOk /\ SendOk /\ QueueOk /\ RecvOk /\ BackOk
  BY Parts
<1>2. send = Free /\ (send' = send \/ send' = [Free EXCEPT !.at = "push", !.by = "xmit"])
  BY DEF StartXmit
<1>3. tx' = tx \/ tx' = Sent(tx, n, extra)
  BY DEF StartXmit, Sent
<1>4. tx \in TxRings
  BY <1>1 DEF TxOk
<1>5. /\ tx'.cons = tx.cons /\ tx'.req_prod = tx.req_prod /\ tx'.req_event = tx.req_event
      /\ tx'.rsp_prod = tx.rsp_prod /\ tx'.rsp_event = tx.rsp_event
  BY <1>3, <1>4 DEF Sent, TxRings
<1>6. send.at = "free" /\ send.by = "none" /\ send.old = 0
  BY <1>2 DEF Free
<1>7. send'.at \in {"free", "push"} /\ send'.by \in {"none", "xmit"} /\ send'.old = 0
  BY <1>2, <1>6 DEF Free
<1>. QED  BY <1>5, <1>6, <1>7

LEMMA OpenSame ==
  ASSUME Inv, Open
  PROVE  /\ rx'.cons = rx.cons /\ rx'.req_prod = rx.req_prod /\ rx'.req_event = rx.req_event
         /\ rx'.rsp_prod = rx.rsp_prod /\ rx'.rsp_event = rx.rsp_event
         /\ recv'.at # "notify" /\ recv.at # "notify"
         /\ (carrier => recv'.by = "open") /\ (~carrier => recv' = recv /\ rx' = rx)
<1>1. recv = Free /\ recv.at # "notify" /\ (~carrier => recv' = recv /\ rx' = rx)
  BY DEF Open, Free
<1>2. CASE carrier
  BY <1>1, <1>2, OpenRx
<1>3. CASE ~carrier
  BY <1>1, <1>3
<1>. QED  BY <1>2, <1>3

LEMMA PlusNone == First = Plus(First, 0)
  BY Constants DEF Plus, Index

(* A consumer that has set the event just past what it has seen, and finds *)
(* nothing new, may sleep. *)
LEMMA SleepsNext ==
  ASSUME NEW c \in Index, NEW k \in 1..RingSize + 1, NEW p \in Index, Minus(p, c) < k
  PROVE  Sleeps(p, Plus(c, k), c)
<1>1. k \in 0..RingSize + 1 /\ k <= RingSize + 1
  BY Sizes
<1>2. Minus(Plus(c, k), c) = k
  BY <1>1, PlusType
<1>. QED  BY <1>1, <1>2 DEF Sleeps

LEMMA SleepsEmpty ==
  ASSUME NEW c \in Index
  PROVE  Sleeps(c, Plus(c, 1), c)
<1>1. Minus(c, c) = 0
  BY MinusSelf
<1>2. 1 \in 1..RingSize + 1 /\ Minus(c, c) < 1
  BY <1>1, Sizes
<1>. QED  BY <1>2, SleepsNext

(* Every step follows Ring: requests of the transmit ring. *)
LEMMA TxRequestsFollow ==
  ASSUME Inv, [Next]_vars
  PROVE  [TxRequests!RingNext]_TxRequests!ringVars
<1>. USE DEF napiVars, stackVars, linkVars
<1>1. /\ TxOk(tx, back.tx_cons) /\ RxOk(rx) /\ bug = FALSE
      /\ StackOk /\ SendOk /\ QueueOk /\ RecvOk /\ BackOk
  BY Parts
<1>2. bell \in BOOLEAN /\ irq \in BOOLEAN /\ back.up \in BOOLEAN
  BY <1>1, BackTyped
<1>3. tx \in TxRings /\ rx \in RxRings
  BY <1>1 DEF TxOk, RxOk
<1>4. back \in Backs
  BY <1>1 DEF BackOk
<1>10. CASE Transmit
  <2>1. ASSUME NEW n \in 1..MaxFrags + 1, NEW extra \in BOOLEAN, StartXmit(n, extra)
         PROVE  [TxRequests!RingNext]_TxRequests!ringVars
    <3>1. UNCHANGED <<back, bell>>
      BY <2>1 DEF StartXmit
    <3>2. UNCHANGED TxRequests!ringVars
      BY <2>1, <3>1, XmitSame, TxReqSame DEF TxReqPoll
    <3>. QED  BY <3>2
  <2>2. CASE XmitPush
    <3>. DEFINE k == Minus(tx.pvt, tx.req_prod)
    <3>1. /\ UNCHANGED <<back, bell>> /\ send.at = "push"
          /\ send' = [send EXCEPT !.at = "notify", !.old = tx.req_prod] /\ tx' = [tx EXCEPT !.req_prod = tx.pvt]
      BY <2>2 DEF XmitPush
    <3>2. k \in 0..RingSize /\ Minus(tx.req_prod, back.tx_cons) + k <= RingSize /\ Plus(tx.req_prod, k) = tx.pvt
      <4>. DEFINE o == Outstanding(tx)  p == Minus(tx.req_prod, tx.cons)  q == Minus(back.tx_cons, tx.cons)
                  m == Minus(tx.req_prod, back.tx_cons)
      <4>1. /\ o \in Nat /\ p \in Nat /\ q \in Nat /\ k = o - p /\ m = p - q /\ o <= RingSize /\ p <= o
        BY <1>1, TxMeasures
      <4>2. Plus(tx.req_prod, k) = tx.pvt
        BY <1>1, TxTyped, MinusType DEF TxOk
      <4>. HIDE DEF o, p, q, m, k
      <4>3. k \in 0..RingSize /\ m + k <= RingSize
        BY <4>1, Sizes
      <4>. QED  BY <4>2, <4>3 DEF m
    <3>3. tx'.req_prod = tx.pvt /\ tx'.req_event = tx.req_event
      BY <1>1, <3>1, PushTx
    <3>4. send'.at = "notify" /\ send'.old = tx.req_prod
      BY <1>1, <3>1 DEF SendOk, Senders
    <3>. HIDE DEF k
    <3>5. TxRequests!RingNext
      BY <3>1, <3>2, <3>3, <3>4, TxReqPush DEF TxReqPoll
    <3>. QED  BY <3>5
  <2>3. CASE XmitNotify
    <3>1. /\ UNCHANGED <<tx, back>> /\ send.at = "notify" /\ send' = [send EXCEPT !.at = "gc", !.old = 0]
          /\ bell' = (bell \/ CheckNotify(tx.req_prod, tx.req_event, send.old))
      BY <2>3 DEF XmitNotify
    <3>2. send'.at = "gc"
      BY <1>1, <3>1 DEF SendOk, Senders
    <3>3. TxRequests!RingNext
      BY <1>2, <3>1, <3>2, TxReqNotify DEF TxReqPoll
    <3>. QED  BY <3>3
  <2>4. CASE Interrupt
    <3>1. /\ UNCHANGED <<tx, back, bell>> /\ send = Free
          /\ send' = IF carrier THEN [Free EXCEPT !.at = "gc", !.by = "irq"] ELSE send
      BY <2>4 DEF Interrupt
    <3>2. send'.at # "notify" /\ send.at # "notify"
      BY <3>1 DEF Free
    <3>3. UNCHANGED TxRequests!ringVars
      BY <3>1, <3>2, TxReqSame DEF TxReqPoll
    <3>. QED  BY <3>3
  <2>5. CASE TxBufGc
    <3>1. /\ UNCHANGED <<back, bell>> /\ tx' = Reclaim(tx) /\ send.at = "gc"
          /\ send' = [send EXCEPT !.at = "event", !.seen = tx.rsp_prod]
      BY <2>5 DEF TxBufGc
    <3>2. tx'.req_prod = tx.req_prod /\ tx'.req_event = tx.req_event
      BY <1>1, <3>1, ReclaimTx
    <3>3. send'.at # "notify"
      BY <1>1, <3>1 DEF SendOk, Senders
    <3>4. UNCHANGED TxRequests!ringVars
      BY <3>1, <3>2, <3>3, TxReqSame DEF TxReqPoll
    <3>. QED  BY <3>4
  <2>6. CASE TxSetEvent
    <3>1. /\ UNCHANGED <<back, bell>> /\ tx' = [tx EXCEPT !.rsp_event = TxEvent(tx, send.seen)]
          /\ send.at = "event" /\ send' = [send EXCEPT !.at = "recheck"]
      BY <2>6 DEF TxSetEvent
    <3>2. tx'.req_prod = tx.req_prod /\ tx'.req_event = tx.req_event /\ send'.at # "notify"
      BY <1>1, <1>3, <3>1 DEF TxRings, SendOk, Senders
    <3>3. UNCHANGED TxRequests!ringVars
      BY <3>1, <3>2, TxReqSame DEF TxReqPoll
    <3>. QED  BY <3>3
  <2>7. CASE TxRecheck
    <3>1. /\ UNCHANGED <<tx, back, bell>> /\ send.at = "recheck"
          /\ send' = [send EXCEPT !.at = "gc"] \/ send' = Free
      BY <2>7 DEF TxRecheck
    <3>2. send'.at # "notify"
      BY <1>1, <3>1 DEF SendOk, Senders, Free
    <3>3. UNCHANGED TxRequests!ringVars
      BY <3>1, <3>2, TxReqSame DEF TxReqPoll
    <3>. QED  BY <3>3
  <2>. QED  BY <1>10, <2>1, <2>2, <2>3, <2>4, <2>5, <2>6, <2>7 DEF Transmit
<1>11. CASE Receive
  <2>1. CASE Poll
    BY <2>1, <1>2, TxReqSame DEF Poll, TxReqPoll
  <2>2. CASE RxPush
    BY <2>2, <1>2, TxReqSame DEF RxPush, TxReqPoll
  <2>3. CASE RxNotify
    <3>1. /\ UNCHANGED <<tx, send, back>> /\ bell' = (bell \/ CheckNotify(rx.req_prod, rx.req_event, recv.old))
      BY <2>3 DEF RxNotify
    <3>2. TxRequests!RingNext
      BY <1>2, <3>1, TxReqBell DEF TxReqPoll
    <3>. QED  BY <3>2
  <2>4. CASE PollAgain
    BY <2>4, <1>2, TxReqSame DEF PollAgain, TxReqPoll
  <2>5. CASE PollLook
    BY <2>5, <1>2, TxReqSame DEF PollLook, TxReqPoll
  <2>6. CASE RxSetEvent
    BY <2>6, <1>2, TxReqSame DEF RxSetEvent, TxReqPoll
  <2>7. CASE PollCheck
    BY <2>7, <1>2, TxReqSame DEF PollCheck, TxReqPoll
  <2>8. CASE PollComplete
    BY <2>8, <1>2, TxReqSame DEF PollComplete, TxReqPoll
  <2>9. CASE RefillTimeout
    BY <2>9, <1>2, TxReqSame DEF RefillTimeout, TxReqPoll
  <2>. QED  BY <1>11, <2>1, <2>2, <2>3, <2>4, <2>5, <2>6, <2>7, <2>8, <2>9 DEF Receive
<1>12. CASE Stack
  <2>1. CASE Open
    BY <2>1, <1>2, TxReqSame DEF Open, TxReqPoll
  <2>2. CASE OpenCheck
    BY <2>2, <1>2, TxReqSame DEF OpenCheck, TxReqPoll
  <2>3. CASE OpenEnd
    BY <2>3, <1>2, TxReqSame DEF OpenEnd, TxReqPoll
  <2>4. CASE Close
    BY <2>4, <1>2, TxReqSame DEF Close, TxReqPoll
  <2>5. CASE CloseEnd
    BY <2>5, <1>2, TxReqSame DEF CloseEnd, TxReqPoll
  <2>. QED  BY <1>12, <2>1, <2>2, <2>3, <2>4, <2>5 DEF Stack
<1>13. CASE Link
  <2>1. CASE Migrate
    <3>1. /\ UNCHANGED <<tx, send>> /\ bell' = FALSE
          /\ back' = [back EXCEPT !.up = FALSE, !.tx_old = NoPush, !.rx_old = NoPush]
      BY <2>1 DEF Migrate
    <3>2. back'.up = FALSE /\ back'.tx_cons = back.tx_cons
      BY <1>1, <3>1 DEF BackOk, Backs
    <3>3. TxRequests!RingNext
      BY <3>1, <3>2, TxReqDown DEF TxReqPoll
    <3>. QED  BY <3>3
  <2>2. CASE Resume
    BY <2>2, <1>2, TxReqSame DEF Resume, TxReqPoll
  <2>3. CASE UpdateFeatures
    BY <2>3, <1>2, TxReqSame DEF UpdateFeatures, TxReqPoll
  <2>4. CASE NetworkConnect
    <3>1. UNCHANGED <<send, bell>> /\ link = "ready" /\ send = Free /\ back' = NoBack
      BY <2>4 DEF NetworkConnect
    <3>2. back.up = FALSE
      BY <1>1, <1>2, <3>1 DEF BackOk
    <3>3. send'.at # "notify"
      BY <3>1, FreeTyped
    <3>4. tx'.req_prod = Plus(First, 0) /\ tx'.req_event \in Index
      BY <2>4, Reconnected, PlusNone, PlusType, Constants, Sizes
    <3>5. TxRequests!RingNext
      BY <1>2, <3>1, <3>2, <3>3, <3>4, NoBackTyped, TxReqReset, Sizes DEF TxReqPoll
    <3>. QED  BY <3>5
  <2>5. CASE BackendConnect
    <3>1. /\ UNCHANGED <<tx, send, bell>> /\ link = "attach" /\ back' = [NoBack EXCEPT !.up = TRUE]
      BY <2>5 DEF BackendConnect
    <3>2. /\ back.up = FALSE /\ back'.up = TRUE /\ back'.tx = "awake" /\ back'.tx_cons = back.tx_cons
      BY <1>1, <3>1, NoBackTyped DEF BackOk, NoBack
    <3>3. TxRequests!RingNext
      BY <1>2, <3>1, <3>2, TxReqUp DEF TxReqPoll
    <3>. QED  BY <3>3
  <2>. QED  BY <1>13, <2>1, <2>2, <2>3, <2>4, <2>5 DEF Link
<1>14. CASE Backend
  <2>1. CASE BackTake
    <3>. DEFINE k == Head(tx.reqs).slots
    <3>1. /\ UNCHANGED <<send, bell>> /\ back.up /\ back.tx = "awake" /\ back.tx_cons # tx.req_prod
          /\ tx' = Took(tx) /\ back' = [back EXCEPT !.tx_cons = Plus(@, k)]
      BY <2>1 DEF BackTake, Took
    <3>2. TxOk(tx, back.tx_cons) /\ back.tx_cons # tx.req_prod
      BY <1>1, <3>1
    <3>3. /\ tx'.req_prod = tx.req_prod /\ tx'.req_event = tx.req_event
          /\ k \in 1..2 /\ k <= Minus(tx.req_prod, back.tx_cons)
      BY <3>1, <3>2, TakeTx
    <3>. HIDE DEF k
    <3>4. k \in 0..RingSize
      BY <3>3, Sizes
    <3>5. back'.up = back.up /\ back'.tx = back.tx /\ back'.tx_cons = Plus(back.tx_cons, k)
      BY <1>1, <3>1 DEF BackOk, Backs
    <3>6. TxRequests!RingNext
      BY <3>1, <3>3, <3>4, <3>5, TxReqConsume DEF TxReqPoll
    <3>. QED  BY <3>6
  <2>2. CASE BackAnswer
    <3>1. /\ UNCHANGED <<send, bell>> /\ back' = [back EXCEPT !.tx_old = tx.rsp_prod]
          /\ \E e \in tx.taken : tx' = Answered(tx, e)
      BY <2>2 DEF BackAnswer, Answered
    <3>2. tx'.req_prod = tx.req_prod /\ tx'.req_event = tx.req_event
      BY <1>3, <3>1 DEF Answered, TxRings
    <3>3. UNCHANGED TxRequests!ringVars
      BY <1>2, <3>1, <3>2, TxReqSame DEF TxReqPoll
    <3>. QED  BY <3>3
  <2>3. CASE BackNotifyTx
    <3>1. UNCHANGED <<tx, send, bell>> /\ back'.up = back.up /\ back'.tx = back.tx /\ back'.tx_cons = back.tx_cons
      BY <2>3, <1>4 DEF BackNotifyTx, Backs
    <3>2. UNCHANGED TxRequests!ringVars
      BY <3>1, TxReqSame DEF TxReqPoll
    <3>. QED  BY <3>2
  <2>4. CASE BackSleepTx
    <3>1. /\ UNCHANGED <<send, bell>> /\ back.up /\ back.tx = "awake"
          /\ tx' = [tx EXCEPT !.req_event = Plus(back.tx_cons, 1)] /\ back' = [back EXCEPT !.tx = "recheck"]
      BY <2>4 DEF BackSleepTx
    <3>2. tx'.req_prod = tx.req_prod /\ tx'.req_event = Plus(back.tx_cons, 1)
      BY <1>3, <3>1 DEF TxRings
    <3>3. back'.up = back.up /\ back'.tx = "recheck" /\ back'.tx_cons = back.tx_cons
      BY <1>4, <3>1 DEF Backs
    <3>4. TxRequests!RingNext
      BY <3>1, <3>2, <3>3, TxReqSetEvent, Sizes DEF TxReqPoll
    <3>. QED  BY <3>4
  <2>5. CASE BackRecheckTx
    <3>1. /\ UNCHANGED <<tx, send, bell>> /\ back.tx = "recheck"
          /\ back' = [back EXCEPT !.tx = IF back.tx_cons # tx.req_prod THEN "awake" ELSE "asleep"]
      BY <2>5 DEF BackRecheckTx
    <3>2. /\ back'.up = back.up /\ back'.tx_cons = back.tx_cons /\ back'.tx \in {"awake", "asleep"}
          /\ (back'.tx = "asleep" => back.tx_cons = tx.req_prod)
      BY <1>4, <3>1 DEF Backs
    <3>3. CASE back.up
      <4>1. back'.tx = "asleep" => Sleeps(tx.req_prod, tx.req_event, back.tx_cons)
        BY <1>1, <3>1, <3>2, <3>3, SleepsEmpty DEF BackOk, TxOk
      <4>2. TxRequests!RingNext
        BY <3>1, <3>2, <3>3, <4>1, TxReqRecheck DEF TxReqPoll
      <4>. QED  BY <4>2
    <3>4. CASE ~back.up
      <4>1. UNCHANGED TxRequests!ringVars
        BY <1>4, <3>1, <3>2, <3>4, TxReqSame DEF TxReqPoll, Backs
      <4>. QED  BY <4>1
    <3>. QED  BY <3>3, <3>4
  <2>6. CASE BackDeliver
    <3>1. UNCHANGED <<tx, send, bell>> /\ back'.up = back.up /\ back'.tx = back.tx /\ back'.tx_cons = back.tx_cons
      BY <2>6, <1>4 DEF BackDeliver, Backs
    <3>2. UNCHANGED TxRequests!ringVars
      BY <3>1, TxReqSame DEF TxReqPoll
    <3>. QED  BY <3>2
  <2>7. CASE BackNotifyRx
    <3>1. UNCHANGED <<tx, send, bell>> /\ back'.up = back.up /\ back'.tx = back.tx /\ back'.tx_cons = back.tx_cons
      BY <2>7, <1>4 DEF BackNotifyRx, Backs
    <3>2. UNCHANGED TxRequests!ringVars
      BY <3>1, TxReqSame DEF TxReqPoll
    <3>. QED  BY <3>2
  <2>8. CASE BackSleepRx
    <3>1. UNCHANGED <<tx, send, bell>> /\ back'.up = back.up /\ back'.tx = back.tx /\ back'.tx_cons = back.tx_cons
      BY <2>8, <1>4 DEF BackSleepRx, Backs
    <3>2. UNCHANGED TxRequests!ringVars
      BY <3>1, TxReqSame DEF TxReqPoll
    <3>. QED  BY <3>2
  <2>9. CASE BackRecheckRx
    <3>1. UNCHANGED <<tx, send, bell>> /\ back'.up = back.up /\ back'.tx = back.tx /\ back'.tx_cons = back.tx_cons
      BY <2>9, <1>4 DEF BackRecheckRx, Backs
    <3>2. UNCHANGED TxRequests!ringVars
      BY <3>1, TxReqSame DEF TxReqPoll
    <3>. QED  BY <3>2
  <2>10. CASE BackWake
    <3>1. /\ UNCHANGED <<tx, send>> /\ bell /\ back.up /\ back.tx # "recheck" /\ bell' = FALSE
          /\ back' = [back EXCEPT !.tx = "awake", !.rx = "awake"]
      BY <2>10 DEF BackWake
    <3>2. /\ back'.up = back.up /\ back'.tx_cons = back.tx_cons /\ back'.tx = "awake"
          /\ back.tx \in {"awake", "asleep"}
      BY <1>4, <3>1 DEF Backs
    <3>3. CASE back.tx = "asleep"
      <4>1. TxRequests!RingNext
        BY <1>2, <3>1, <3>2, <3>3, TxReqWake DEF TxReqPoll
      <4>. QED  BY <4>1
    <3>4. CASE back.tx = "awake"
      <4>1. TxRequests!RingNext
        BY <1>2, <3>1, <3>2, <3>4, TxReqBell DEF TxReqPoll
      <4>. QED  BY <4>1
    <3>. QED  BY <3>2, <3>3, <3>4
  <2>. QED  BY <1>14, <2>1, <2>2, <2>3, <2>4, <2>5, <2>6, <2>7, <2>8, <2>9, <2>10 DEF Backend
<1>15. CASE UNCHANGED vars
  BY <1>15 DEF vars, TxRequests!ringVars
<1>. QED  BY <1>10, <1>11, <1>12, <1>13, <1>14, <1>15 DEF Next

(* Every step follows Ring: requests of the receive ring. *)
LEMMA RxRequestsFollow ==
  ASSUME Inv, [Next]_vars
  PROVE  [RxRequests!RingNext]_RxRequests!ringVars
<1>. USE DEF napiVars, stackVars, linkVars
<1>1. /\ TxOk(tx, back.tx_cons) /\ RxOk(rx) /\ bug = FALSE
      /\ StackOk /\ SendOk /\ QueueOk /\ RecvOk /\ BackOk
  BY Parts
<1>2. bell \in BOOLEAN /\ irq \in BOOLEAN /\ back.up \in BOOLEAN
  BY <1>1, BackTyped
<1>3. tx \in TxRings /\ rx \in RxRings
  BY <1>1 DEF TxOk, RxOk
<1>4. back \in Backs
  BY <1>1 DEF BackOk
<1>10. CASE Transmit
  <2>1. ASSUME NEW n \in 1..MaxFrags + 1, NEW extra \in BOOLEAN, StartXmit(n, extra)
         PROVE  [RxRequests!RingNext]_RxRequests!ringVars
    <3>1. UNCHANGED <<rx, recv, bell, back>>
      BY <2>1 DEF StartXmit
    <3>2. UNCHANGED RxRequests!ringVars
      BY <3>1, RxReqSame DEF RxReqPoll
    <3>. QED  BY <3>2
  <2>2. CASE XmitPush
    <3>1. UNCHANGED <<rx, recv, bell, back>>
      BY <2>2 DEF XmitPush
    <3>2. UNCHANGED RxRequests!ringVars
      BY <3>1, RxReqSame DEF RxReqPoll
    <3>. QED  BY <3>2
  <2>3. CASE XmitNotify
    <3>1. /\ UNCHANGED <<rx, recv, back>> /\ bell' = (bell \/ CheckNotify(tx.req_prod, tx.req_event, send.old))
      BY <2>3 DEF XmitNotify
    <3>2. RxRequests!RingNext
      BY <1>2, <3>1, RxReqBell DEF RxReqPoll
    <3>. QED  BY <3>2
  <2>4. CASE Interrupt
    <3>1. UNCHANGED <<rx, recv, bell, back>>
      BY <2>4 DEF Interrupt
    <3>2. UNCHANGED RxRequests!ringVars
      BY <3>1, RxReqSame DEF RxReqPoll
    <3>. QED  BY <3>2
  <2>5. CASE TxBufGc
    <3>1. UNCHANGED <<rx, recv, bell, back>>
      BY <2>5 DEF TxBufGc
    <3>2. UNCHANGED RxRequests!ringVars
      BY <3>1, RxReqSame DEF RxReqPoll
    <3>. QED  BY <3>2
  <2>6. CASE TxSetEvent
    <3>1. UNCHANGED <<rx, recv, bell, back>>
      BY <2>6 DEF TxSetEvent
    <3>2. UNCHANGED RxRequests!ringVars
      BY <3>1, RxReqSame DEF RxReqPoll
    <3>. QED  BY <3>2
  <2>7. CASE TxRecheck
    <3>1. UNCHANGED <<rx, recv, bell, back>>
      BY <2>7 DEF TxRecheck
    <3>2. UNCHANGED RxRequests!ringVars
      BY <3>1, RxReqSame DEF RxReqPoll
    <3>. QED  BY <3>2
  <2>. QED  BY <1>10, <2>1, <2>2, <2>3, <2>4, <2>5, <2>6, <2>7 DEF Transmit
<1>11. CASE Receive
  <2>1. CASE Poll
    <3>1. UNCHANGED <<bell, back>> /\ recv.at # "notify"
      BY <2>1 DEF Poll, Free
    <3>2. rx'.req_prod = rx.req_prod /\ rx'.req_event = rx.req_event /\ recv'.at # "notify"
      BY <2>1, PollRx
    <3>3. UNCHANGED RxRequests!ringVars
      BY <3>1, <3>2, RxReqSame DEF RxReqPoll
    <3>. QED  BY <3>3
  <2>2. CASE RxPush
    <3>. DEFINE k == Minus(rx.pvt, rx.req_prod)
    <3>1. /\ UNCHANGED <<back, bell>> /\ recv.at = "push"
          /\ recv' = [recv EXCEPT !.at = "notify", !.old = rx.req_prod] /\ rx' = [rx EXCEPT !.req_prod = rx.pvt]
      BY <2>2 DEF RxPush
    <3>2. k \in 0..RingSize /\ Minus(rx.req_prod, back.rx_cons) + k <= RingSize /\ Plus(rx.req_prod, k) = rx.pvt
      <4>. DEFINE o == Outstanding(rx)  p == Minus(rx.req_prod, rx.cons)  q == Minus(rx.rsp_prod, rx.cons)
                  m == Minus(rx.req_prod, rx.rsp_prod)
      <4>1. /\ o \in 0..RingSize /\ p \in Nat /\ q \in Nat /\ k = o - p /\ m = p - q /\ p <= o
        BY <1>1, RxMeasures
      <4>2. Plus(rx.req_prod, k) = rx.pvt
        BY <1>3, RxTyped, MinusType
      <4>3. Minus(rx.req_prod, back.rx_cons) = m
        BY <1>1 DEF BackOk
      <4>. HIDE DEF o, p, q, m, k
      <4>4. k \in 0..RingSize /\ m + k <= RingSize
        BY <4>1, Sizes
      <4>. QED  BY <4>2, <4>3, <4>4
    <3>3. rx'.req_prod = rx.pvt /\ rx'.req_event = rx.req_event
      BY <1>1, <3>1, PushRx
    <3>4. recv'.at = "notify" /\ recv'.old = rx.req_prod
      BY <1>1, <3>1 DEF RecvOk, Receivers
    <3>. HIDE DEF k
    <3>5. RxRequests!RingNext
      BY <3>1, <3>2, <3>3, <3>4, RxReqPush DEF RxReqPoll
    <3>. QED  BY <3>5
  <2>3. CASE RxNotify
    <3>1. /\ UNCHANGED <<rx, back>> /\ recv.at = "notify" /\ recv' = [recv EXCEPT !.at = "final", !.old = 0]
          /\ bell' = (bell \/ CheckNotify(rx.req_prod, rx.req_event, recv.old))
      BY <2>3 DEF RxNotify
    <3>2. recv'.at = "final"
      BY <1>1, <3>1 DEF RecvOk, Receivers
    <3>3. RxRequests!RingNext
      BY <1>2, <3>1, <3>2, RxReqNotify DEF RxReqPoll
    <3>. QED  BY <3>3
  <2>4. CASE PollAgain
    <3>1. UNCHANGED <<rx, bell, back>> /\ recv.at # "notify" /\ (recv' = Free)
      BY <2>4 DEF PollAgain
    <3>2. recv'.at # "notify"
      BY <1>1, <3>1 DEF RecvOk, Receivers, Free
    <3>3. UNCHANGED RxRequests!ringVars
      BY <3>1, <3>2, RxReqSame DEF RxReqPoll
    <3>. QED  BY <3>3
  <2>5. CASE PollLook
    <3>1. UNCHANGED <<rx, bell, back>> /\ recv.at # "notify" /\ (recv' = Free \/ recv' = [recv EXCEPT !.at = "event"])
      BY <2>5 DEF PollLook
    <3>2. recv'.at # "notify"
      BY <1>1, <3>1 DEF RecvOk, Receivers, Free
    <3>3. UNCHANGED RxRequests!ringVars
      BY <3>1, <3>2, RxReqSame DEF RxReqPoll
    <3>. QED  BY <3>3
  <2>6. CASE RxSetEvent
    <3>1. /\ UNCHANGED <<bell, back>> /\ recv.at # "notify" /\ rx' = [rx EXCEPT !.rsp_event = Plus(rx.cons, 1)]
          /\ recv' = [recv EXCEPT !.at = "check"]
      BY <2>6 DEF RxSetEvent
    <3>2. rx'.req_prod = rx.req_prod /\ rx'.req_event = rx.req_event /\ recv'.at # "notify"
      BY <1>1, <1>3, <3>1 DEF RxRings, RecvOk, Receivers
    <3>3. UNCHANGED RxRequests!ringVars
      BY <3>1, <3>2, RxReqSame DEF RxReqPoll
    <3>. QED  BY <3>3
  <2>7. CASE PollCheck
    <3>1. UNCHANGED <<rx, bell, back>> /\ recv.at # "notify" /\ (recv' = Free \/ recv' = [recv EXCEPT !.at = "complete"])
      BY <2>7 DEF PollCheck
    <3>2. recv'.at # "notify"
      BY <1>1, <3>1 DEF RecvOk, Receivers, Free
    <3>3. UNCHANGED RxRequests!ringVars
      BY <3>1, <3>2, RxReqSame DEF RxReqPoll
    <3>. QED  BY <3>3
  <2>8. CASE PollComplete
    <3>1. UNCHANGED <<rx, bell, back>> /\ recv.at # "notify" /\ (recv' = Free)
      BY <2>8 DEF PollComplete
    <3>2. recv'.at # "notify"
      BY <1>1, <3>1 DEF RecvOk, Receivers, Free
    <3>3. UNCHANGED RxRequests!ringVars
      BY <3>1, <3>2, RxReqSame DEF RxReqPoll
    <3>. QED  BY <3>3
  <2>9. CASE RefillTimeout
    <3>1. UNCHANGED <<rx, recv, bell, back>>
      BY <2>9 DEF RefillTimeout
    <3>2. UNCHANGED RxRequests!ringVars
      BY <3>1, RxReqSame DEF RxReqPoll
    <3>. QED  BY <3>2
  <2>. QED  BY <1>11, <2>1, <2>2, <2>3, <2>4, <2>5, <2>6, <2>7, <2>8, <2>9 DEF Receive
<1>12. CASE Stack
  <2>1. CASE Open
    <3>1. UNCHANGED <<bell, back>>
      BY <2>1 DEF Open
    <3>2. UNCHANGED RxRequests!ringVars
      BY <2>1, <3>1, OpenSame, RxReqSame DEF RxReqPoll
    <3>. QED  BY <3>2
  <2>2. CASE OpenCheck
    <3>1. UNCHANGED <<rx, bell, back>> /\ recv.at # "notify" /\ (recv' = Free)
      BY <2>2 DEF OpenCheck
    <3>2. recv'.at # "notify"
      BY <1>1, <3>1 DEF RecvOk, Receivers, Free
    <3>3. UNCHANGED RxRequests!ringVars
      BY <3>1, <3>2, RxReqSame DEF RxReqPoll
    <3>. QED  BY <3>3
  <2>3. CASE OpenEnd
    <3>1. UNCHANGED <<rx, recv, bell, back>>
      BY <2>3 DEF OpenEnd
    <3>2. UNCHANGED RxRequests!ringVars
      BY <3>1, RxReqSame DEF RxReqPoll
    <3>. QED  BY <3>2
  <2>4. CASE Close
    <3>1. UNCHANGED <<rx, recv, bell, back>>
      BY <2>4 DEF Close
    <3>2. UNCHANGED RxRequests!ringVars
      BY <3>1, RxReqSame DEF RxReqPoll
    <3>. QED  BY <3>2
  <2>5. CASE CloseEnd
    <3>1. UNCHANGED <<rx, recv, bell, back>>
      BY <2>5 DEF CloseEnd
    <3>2. UNCHANGED RxRequests!ringVars
      BY <3>1, RxReqSame DEF RxReqPoll
    <3>. QED  BY <3>2
  <2>. QED  BY <1>12, <2>1, <2>2, <2>3, <2>4, <2>5 DEF Stack
<1>13. CASE Link
  <2>1. CASE Migrate
    <3>1. /\ UNCHANGED <<rx, recv>> /\ bell' = FALSE
          /\ back' = [back EXCEPT !.up = FALSE, !.tx_old = NoPush, !.rx_old = NoPush]
      BY <2>1 DEF Migrate
    <3>2. back'.up = FALSE /\ back'.rx_cons = back.rx_cons
      BY <1>1, <3>1 DEF BackOk, Backs
    <3>3. RxRequests!RingNext
      BY <3>1, <3>2, RxReqDown DEF RxReqPoll
    <3>. QED  BY <3>3
  <2>2. CASE Resume
    <3>1. UNCHANGED <<rx, recv, bell, back>>
      BY <2>2 DEF Resume
    <3>2. UNCHANGED RxRequests!ringVars
      BY <3>1, RxReqSame DEF RxReqPoll
    <3>. QED  BY <3>2
  <2>3. CASE UpdateFeatures
    <3>1. UNCHANGED <<rx, recv, bell, back>>
      BY <2>3 DEF UpdateFeatures
    <3>2. UNCHANGED RxRequests!ringVars
      BY <3>1, RxReqSame DEF RxReqPoll
    <3>. QED  BY <3>2
  <2>4. CASE NetworkConnect
    <3>1. UNCHANGED <<recv, bell>> /\ link = "ready" /\ recv = Free /\ back' = NoBack
      BY <2>4 DEF NetworkConnect
    <3>2. back.up = FALSE
      BY <1>1, <1>2, <3>1 DEF BackOk
    <3>3. recv'.at # "notify"
      BY <3>1, FreeTyped
    <3>4. rx'.req_prod \in Index /\ rx'.req_event \in Index
      BY <2>4, Reconnected, RxTyped DEF RxOk
    <3>. DEFINE k == Minus(rx'.req_prod, First)
    <3>5. k \in 0..RingSize /\ rx'.req_prod = Plus(First, k)
      <4>1. Plus(First, k) = rx'.req_prod /\ k \in Nat
        BY <3>4, MinusType, Constants
      <4>2. RxOk(rx') /\ rx'.cons = First
        BY <2>4, Reconnected
      <4>. DEFINE o == Outstanding(rx')
      <4>3. o \in 0..RingSize /\ k <= o
        <5>1. o \in 0..RingSize /\ Minus(rx'.req_prod, rx'.cons) <= o
          BY <4>2, RxMeasures
        <5>. QED  BY <4>2, <5>1
      <4>. HIDE DEF k, o
      <4>4. k \in 0..RingSize
        BY <4>1, <4>3, Sizes
      <4>. QED  BY <4>1, <4>4
    <3>. HIDE DEF k
    <3>6. RxRequests!RingNext
      BY <1>2, <3>1, <3>2, <3>3, <3>4, <3>5, NoBackTyped, RxReqReset DEF RxReqPoll
    <3>. QED  BY <3>6
  <2>5. CASE BackendConnect
    <3>1. /\ UNCHANGED <<rx, recv, bell>> /\ link = "attach" /\ back' = [NoBack EXCEPT !.up = TRUE]
      BY <2>5 DEF BackendConnect
    <3>2. /\ back.up = FALSE /\ back'.up = TRUE /\ back'.rx = "awake" /\ back'.rx_cons = back.rx_cons
      BY <1>1, <3>1, NoBackTyped DEF BackOk, NoBack
    <3>3. RxRequests!RingNext
      BY <1>2, <3>1, <3>2, RxReqUp DEF RxReqPoll
    <3>. QED  BY <3>3
  <2>. QED  BY <1>13, <2>1, <2>2, <2>3, <2>4, <2>5 DEF Link
<1>14. CASE Backend
  <2>1. CASE BackTake
    <3>1. UNCHANGED <<rx, recv, bell>> /\ back'.up = back.up /\ back'.rx = back.rx /\ back'.rx_cons = back.rx_cons
      BY <2>1, <1>4 DEF BackTake, Backs
    <3>2. UNCHANGED RxRequests!ringVars
      BY <3>1, RxReqSame DEF RxReqPoll
    <3>. QED  BY <3>2
  <2>2. CASE BackAnswer
    <3>1. UNCHANGED <<rx, recv, bell>> /\ back'.up = back.up /\ back'.rx = back.rx /\ back'.rx_cons = back.rx_cons
      BY <2>2, <1>4 DEF BackAnswer, Backs
    <3>2. UNCHANGED RxRequests!ringVars
      BY <3>1, RxReqSame DEF RxReqPoll
    <3>. QED  BY <3>2
  <2>3. CASE BackNotifyTx
    <3>1. UNCHANGED <<rx, recv, bell>> /\ back'.up = back.up /\ back'.rx = back.rx /\ back'.rx_cons = back.rx_cons
      BY <2>3, <1>4 DEF BackNotifyTx, Backs
    <3>2. UNCHANGED RxRequests!ringVars
      BY <3>1, RxReqSame DEF RxReqPoll
    <3>. QED  BY <3>2
  <2>4. CASE BackSleepTx
    <3>1. UNCHANGED <<rx, recv, bell>> /\ back'.up = back.up /\ back'.rx = back.rx /\ back'.rx_cons = back.rx_cons
      BY <2>4, <1>4 DEF BackSleepTx, Backs
    <3>2. UNCHANGED RxRequests!ringVars
      BY <3>1, RxReqSame DEF RxReqPoll
    <3>. QED  BY <3>2
  <2>5. CASE BackRecheckTx
    <3>1. UNCHANGED <<rx, recv, bell>> /\ back'.up = back.up /\ back'.rx = back.rx /\ back'.rx_cons = back.rx_cons
      BY <2>5, <1>4 DEF BackRecheckTx, Backs
    <3>2. UNCHANGED RxRequests!ringVars
      BY <3>1, RxReqSame DEF RxReqPoll
    <3>. QED  BY <3>2
  <2>6. CASE BackDeliver
    <3>1. /\ UNCHANGED <<recv, bell>> /\ back.up /\ back.rx = "awake" /\ Room >= MaxSlots
      BY <2>6 DEF BackDeliver
    <3>2. PICK m \in Messages :
            /\ rx' = [rx EXCEPT !.rsps = Append(@, m), !.rsp_prod = Plus(@, Slots(m))]
            /\ back' = [back EXCEPT !.rx_old = rx.rsp_prod, !.rx_cons = Plus(@, Slots(m))]
      BY <2>6 DEF BackDeliver
    <3>. DEFINE k == Slots(m)
    <3>3. rx'.req_prod = rx.req_prod /\ rx'.req_event = rx.req_event
      BY <1>3, <3>2 DEF RxRings
    <3>4. k \in 0..RingSize /\ k <= Minus(rx.req_prod, back.rx_cons)
      <4>1. Minus(rx.req_prod, rx.rsp_prod) >= MaxSlots
        BY <1>1, <3>1 DEF BackOk, Room
      <4>2. Slots(m) \in 0..RingSize /\ Slots(m) <= Minus(rx.req_prod, rx.rsp_prod)
        <5>1. Delivered(rx, m, rx')
          BY <1>1, <3>2, <4>1, DeliverRx, Zenon
        <5>. QED  BY <5>1 DEF Delivered
      <4>. QED  BY <1>1, <4>2 DEF BackOk
    <3>. HIDE DEF k
    <3>5. back' = [back EXCEPT !.rx_old = rx.rsp_prod, !.rx_cons = Plus(@, k)]
      BY <3>2 DEF k
    <3>6. back'.up = back.up /\ back'.rx = back.rx /\ back'.rx_cons = Plus(back.rx_cons, k)
      BY <1>4, <3>5 DEF Backs
    <3>7. RxRequests!RingNext
      BY <3>1, <3>3, <3>4, <3>6, RxReqConsume DEF RxReqPoll
    <3>. QED  BY <3>7
  <2>7. CASE BackNotifyRx
    <3>1. UNCHANGED <<rx, recv, bell>> /\ back'.up = back.up /\ back'.rx = back.rx /\ back'.rx_cons = back.rx_cons
      BY <2>7, <1>4 DEF BackNotifyRx, Backs
    <3>2. UNCHANGED RxRequests!ringVars
      BY <3>1, RxReqSame DEF RxReqPoll
    <3>. QED  BY <3>2
  <2>8. CASE BackSleepRx
    <3>1. /\ UNCHANGED <<recv, bell>> /\ back.up /\ back.rx = "awake"
          /\ rx' = [rx EXCEPT !.req_event = Plus(back.rx_cons, MaxSlots)] /\ back' = [back EXCEPT !.rx = "recheck"]
      BY <2>8 DEF BackSleepRx
    <3>2. rx'.req_prod = rx.req_prod /\ rx'.req_event = Plus(back.rx_cons, MaxSlots)
      BY <1>3, <3>1 DEF RxRings
    <3>3. back'.up = back.up /\ back'.rx = "recheck" /\ back'.rx_cons = back.rx_cons
      BY <1>4, <3>1 DEF Backs
    <3>4. MaxSlots \in 1..RingSize + 1
      BY MaxSlotsTyped, Sizes
    <3>5. RxRequests!RingNext
      BY <3>1, <3>2, <3>3, <3>4, RxReqSetEvent DEF RxReqPoll
    <3>. QED  BY <3>5
  <2>9. CASE BackRecheckRx
    <3>1. /\ UNCHANGED <<rx, recv, bell>> /\ back.rx = "recheck"
          /\ back' = [back EXCEPT !.rx = IF Room >= MaxSlots THEN "awake" ELSE "asleep"]
      BY <2>9 DEF BackRecheckRx
    <3>2. /\ back'.up = back.up /\ back'.rx_cons = back.rx_cons /\ back'.rx \in {"awake", "asleep"}
          /\ (back'.rx = "asleep" => ~(Room >= MaxSlots))
      BY <1>4, <3>1 DEF Backs
    <3>3. CASE back.up
      <4>1. back'.rx = "asleep" => Sleeps(rx.req_prod, rx.req_event, back.rx_cons)
        <5>. SUFFICES ASSUME ~(Room >= MaxSlots) PROVE Sleeps(rx.req_prod, rx.req_event, back.rx_cons)
          BY <3>2
        <5>1. rx.req_prod \in Index /\ back.rx_cons \in Index /\ rx.req_event = Plus(back.rx_cons, MaxSlots)
          BY <1>1, <1>3, <1>4, <3>1, <3>3, RxTyped DEF BackOk, Backs
        <5>2. Minus(rx.req_prod, back.rx_cons) < MaxSlots /\ MaxSlots \in 1..RingSize + 1
          <6>. DEFINE m == Minus(rx.req_prod, back.rx_cons)
          <6>1. m \in Nat /\ ~(m >= MaxSlots)
            BY <5>1, MinusType DEF Room
          <6>. HIDE DEF m
          <6>2. m < MaxSlots /\ MaxSlots \in 1..RingSize + 1
            BY <6>1, MaxSlotsTyped, Sizes
          <6>. QED  BY <6>2 DEF m
        <5>. QED  BY <5>1, <5>2, SleepsNext
      <4>2. RxRequests!RingNext
        BY <3>1, <3>2, <3>3, <4>1, RxReqRecheck DEF RxReqPoll
      <4>. QED  BY <4>2
    <3>4. CASE ~back.up
      <4>1. UNCHANGED RxRequests!ringVars
        BY <1>4, <3>1, <3>2, <3>4, RxReqSame DEF RxReqPoll, Backs
      <4>. QED  BY <4>1
    <3>. QED  BY <3>3, <3>4
  <2>10. CASE BackWake
    <3>1. /\ UNCHANGED <<rx, recv>> /\ bell /\ back.up /\ back.rx # "recheck" /\ bell' = FALSE
          /\ back' = [back EXCEPT !.tx = "awake", !.rx = "awake"]
      BY <2>10 DEF BackWake
    <3>2. /\ back'.up = back.up /\ back'.rx_cons = back.rx_cons /\ back'.rx = "awake"
          /\ back.rx \in {"awake", "asleep"}
      BY <1>4, <3>1 DEF Backs
    <3>3. CASE back.rx = "asleep"
      <4>1. RxRequests!RingNext
        BY <1>2, <3>1, <3>2, <3>3, RxReqWake DEF RxReqPoll
      <4>. QED  BY <4>1
    <3>4. CASE back.rx = "awake"
      <4>1. RxRequests!RingNext
        BY <1>2, <3>1, <3>2, <3>4, RxReqBell DEF RxReqPoll
      <4>. QED  BY <4>1
    <3>. QED  BY <3>2, <3>3, <3>4
  <2>. QED  BY <1>14, <2>1, <2>2, <2>3, <2>4, <2>5, <2>6, <2>7, <2>8, <2>9, <2>10 DEF Backend
<1>15. CASE UNCHANGED vars
  BY <1>15 DEF vars, RxRequests!ringVars
<1>. QED  BY <1>10, <1>11, <1>12, <1>13, <1>14, <1>15 DEF Next

(* Every step follows Ring: responses of the transmit ring. *)
LEMMA TxRspPollAt ==
  /\ ~Listening => TxRspPoll = "down"
  /\ Listening /\ send.at \in {"gc", "event"} => TxRspPoll = "awake"
  /\ Listening /\ send.at = "recheck" => TxRspPoll = "recheck"
  /\ Listening /\ send.at \in {"free", "push", "notify"} => TxRspPoll = "asleep"
  BY DEF TxRspPoll

LEMMA TxRspPollNext ==
  /\ ~Listening' => TxRspPoll' = "down"
  /\ Listening' /\ send'.at \in {"gc", "event"} => TxRspPoll' = "awake"
  /\ Listening' /\ send'.at = "recheck" => TxRspPoll' = "recheck"
  /\ Listening' /\ send'.at \in {"free", "push", "notify"} => TxRspPoll' = "asleep"
  BY DEF TxRspPoll

LEMMA TxResponsesFollow ==
  ASSUME Inv, [Next]_vars
  PROVE  [TxResponses!RingNext]_TxResponses!ringVars
<1>. USE DEF napiVars, stackVars, linkVars
<1>1. /\ TxOk(tx, back.tx_cons) /\ RxOk(rx) /\ bug = FALSE
      /\ StackOk /\ SendOk /\ QueueOk /\ RecvOk /\ BackOk
  BY Parts
<1>2. bell \in BOOLEAN /\ irq \in BOOLEAN /\ back.up \in BOOLEAN
  BY <1>1, BackTyped
<1>3. tx \in TxRings /\ rx \in RxRings
  BY <1>1 DEF TxOk, RxOk
<1>4. back \in Backs
  BY <1>1 DEF BackOk
<1>10. CASE Transmit
  <2>1. ASSUME NEW n \in 1..MaxFrags + 1, NEW extra \in BOOLEAN, StartXmit(n, extra)
         PROVE  [TxResponses!RingNext]_TxResponses!ringVars
    <3>1. UNCHANGED <<carrier, link, irq, back>>
      BY <2>1 DEF StartXmit
    <3>2. Listening' <=> Listening
      BY <3>1 DEF Listening
    <3>3. TxRspPoll' = TxRspPoll
      BY <2>1, <3>2, XmitSame, TxRspPollAt, TxRspPollNext
    <3>4. UNCHANGED TxResponses!ringVars
      BY <2>1, <3>1, <3>3, XmitSame, TxRspSame
    <3>. QED  BY <3>4
  <2>2. CASE XmitPush
    <3>1. /\ UNCHANGED <<carrier, link, irq, back>> /\ send.at = "push"
          /\ send' = [send EXCEPT !.at = "notify", !.old = tx.req_prod] /\ tx' = [tx EXCEPT !.req_prod = tx.pvt]
      BY <2>2 DEF XmitPush
    <3>2. (Listening' <=> Listening) /\ send'.at = "notify"
      BY <1>1, <3>1 DEF Listening, SendOk, Senders
    <3>3. TxRspPoll' = TxRspPoll
      BY <3>1, <3>2, TxRspPollAt, TxRspPollNext
    <3>4. tx'.rsp_prod = tx.rsp_prod /\ tx'.cons = tx.cons /\ tx'.rsp_event = tx.rsp_event
      BY <1>3, <3>1 DEF TxRings
    <3>5. UNCHANGED TxResponses!ringVars
      BY <3>1, <3>3, <3>4, TxRspSame
    <3>. QED  BY <3>5
  <2>3. CASE XmitNotify
    <3>1. /\ UNCHANGED <<tx, carrier, link, irq, back>> /\ send.at = "notify"
          /\ send' = [send EXCEPT !.at = "gc", !.old = 0]
      BY <2>3 DEF XmitNotify
    <3>2. (Listening' <=> Listening) /\ send'.at = "gc"
      BY <1>1, <3>1 DEF Listening, SendOk, Senders
    <3>3. CASE Listening
      <4>1. TxResponses!RingNext
        BY <1>2, <3>1, <3>2, <3>3, TxRspPollAt, TxRspPollNext, TxRspWake
      <4>. QED  BY <4>1
    <3>4. CASE ~Listening
      <4>1. UNCHANGED TxResponses!ringVars
        BY <3>1, <3>2, <3>4, TxRspPollAt, TxRspPollNext, TxRspSame
      <4>. QED  BY <4>1
    <3>. QED  BY <3>3, <3>4
  <2>4. CASE Interrupt
    <3>1. /\ UNCHANGED <<tx, carrier, link, back>> /\ send = Free /\ irq' = FALSE
          /\ send' = IF carrier THEN [Free EXCEPT !.at = "gc", !.by = "irq"] ELSE send
      BY <2>4 DEF Interrupt
    <3>2. (Listening' <=> Listening) /\ send.at = "free" /\ (Listening => send'.at = "gc")
      BY <3>1 DEF Listening, Free
    <3>3. CASE Listening
      <4>1. TxResponses!RingNext
        BY <1>2, <3>1, <3>2, <3>3, TxRspPollAt, TxRspPollNext, TxRspWake
      <4>. QED  BY <4>1
    <3>4. CASE ~Listening
      <4>1. TxResponses!RingNext
        BY <1>2, <3>1, <3>2, <3>4, TxRspPollAt, TxRspPollNext, TxRspBell
      <4>. QED  BY <4>1
    <3>. QED  BY <3>3, <3>4
  <2>5. CASE TxBufGc
    <3>. DEFINE k == Minus(tx.rsp_prod, tx.cons)
    <3>1. /\ UNCHANGED <<carrier, link, irq, back>> /\ tx' = Reclaim(tx) /\ send.at = "gc"
          /\ send' = [send EXCEPT !.at = "event", !.seen = tx.rsp_prod]
      BY <2>5 DEF TxBufGc
    <3>2. tx'.rsp_prod = tx.rsp_prod /\ tx'.rsp_event = tx.rsp_event /\ tx'.cons = tx.rsp_prod
      BY <1>1, <3>1, ReclaimTx
    <3>3. k \in 0..RingSize /\ Plus(tx.cons, k) = tx.rsp_prod
      <4>. DEFINE o == Outstanding(tx)  p == Minus(tx.req_prod, tx.cons)  q == Minus(back.tx_cons, tx.cons)
      <4>1. /\ o \in Nat /\ p \in Nat /\ q \in Nat /\ k \in Nat /\ k <= q /\ q <= p /\ p <= o /\ o <= RingSize
        BY <1>1, TxMeasures
      <4>2. Plus(tx.cons, k) = tx.rsp_prod
        BY <1>3, TxTyped, MinusType
      <4>. HIDE DEF o, p, q, k
      <4>3. k \in 0..RingSize
        BY <4>1, Sizes
      <4>. QED  BY <4>2, <4>3
    <3>4. k <= Minus(tx.rsp_prod, tx.cons)
      BY <3>3, Sizes
    <3>. HIDE DEF k
    <3>5. (Listening' <=> Listening) /\ send'.at = "event"
      BY <1>1, <3>1 DEF Listening, SendOk, Senders
    <3>6. TxRspPoll' = TxRspPoll /\ TxRspPoll \in {"awake", "down"}
      BY <3>1, <3>5, TxRspPollAt, TxRspPollNext
    <3>7. TxResponses!RingNext
      BY <3>1, <3>2, <3>3, <3>4, <3>6, TxRspConsume
    <3>. QED  BY <3>7
  <2>6. CASE TxSetEvent
    <3>. DEFINE k == Outstanding(tx) \div 2 + 1
    <3>1. /\ UNCHANGED <<carrier, link, irq, back>> /\ tx' = [tx EXCEPT !.rsp_event = TxEvent(tx, send.seen)]
          /\ send.at = "event" /\ send' = [send EXCEPT !.at = "recheck"]
      BY <2>6 DEF TxSetEvent
    <3>2. send.seen = tx.cons /\ tx.req_prod = tx.pvt
      BY <1>1, <3>1 DEF SendOk
    <3>3. TxEvent(tx, send.seen) = Plus(tx.cons, k)
      BY <3>2 DEF TxEvent, Outstanding
    <3>4. k \in 1..RingSize + 1
      BY <1>1, <3>2, TxEventTyped
    <3>5. tx'.rsp_prod = tx.rsp_prod /\ tx'.cons = tx.cons /\ tx'.rsp_event = Plus(tx.cons, k)
      BY <1>3, <3>1, <3>3 DEF TxRings
    <3>. HIDE DEF k
    <3>6. (Listening' <=> Listening) /\ send'.at = "recheck"
      BY <1>1, <3>1 DEF Listening, SendOk, Senders
    <3>7. /\ TxRspPoll \in {"awake", "down"}
          /\ TxRspPoll' = IF TxRspPoll = "down" THEN TxRspPoll ELSE "recheck"
      BY <3>1, <3>6, TxRspPollAt, TxRspPollNext
    <3>8. TxResponses!RingNext
      BY <3>1, <3>4, <3>5, <3>7, TxRspSetEvent
    <3>. QED  BY <3>8
  <2>7. CASE TxRecheck
    <3>1. /\ UNCHANGED <<tx, carrier, link, irq, back>> /\ send.at = "recheck"
          /\ \/ tx.rsp_prod # send.seen /\ send' = [send EXCEPT !.at = "gc"]
             \/ tx.rsp_prod = send.seen /\ send' = Free
      BY <2>7 DEF TxRecheck
    <3>2. /\ (Listening' <=> Listening) /\ send'.at \in {"gc", "free"}
          /\ (send'.at = "free" => tx.rsp_prod = tx.cons)
      BY <1>1, <3>1 DEF Listening, SendOk, Senders, Free
    <3>3. CASE Listening
      <4>1. TxRspPoll = "recheck" /\ TxRspPoll' \in {"awake", "asleep"} /\ (TxRspPoll' = "asleep" => send'.at = "free")
        BY <3>1, <3>2, <3>3, TxRspPollAt, TxRspPollNext
      <4>2. tx.rsp_prod = tx.cons => Sleeps(tx.rsp_prod, tx.rsp_event, tx.cons)
        <5>. DEFINE e == Minus(tx.rsp_event, tx.cons)  o == Outstanding(tx)
        <5>1. e \in Nat /\ o \in Nat /\ o <= RingSize /\ 1 <= e /\ e <= o \div 2 + 1 /\ Minus(tx.cons, tx.cons) = 0
          BY <1>1, <1>3, <3>1, TxMeasures, TxTyped, MinusType, MinusSelf DEF SendOk
        <5>. HIDE DEF o, e
        <5>2. Minus(tx.cons, tx.cons) < e /\ e <= RingSize + 1
          BY <5>1, Sizes
        <5>. QED  BY <5>2 DEF Sleeps, e
      <4>3. TxResponses!RingNext
        BY <3>1, <3>2, <4>1, <4>2, TxRspRecheck
      <4>. QED  BY <4>3
    <3>4. CASE ~Listening
      <4>1. UNCHANGED TxResponses!ringVars
        BY <3>1, <3>2, <3>4, TxRspPollAt, TxRspPollNext, TxRspSame
      <4>. QED  BY <4>1
    <3>. QED  BY <3>3, <3>4
  <2>. QED  BY <1>10, <2>1, <2>2, <2>3, <2>4, <2>5, <2>6, <2>7 DEF Transmit
<1>11. CASE Receive
  <2>1. CASE Poll
    <3>1. UNCHANGED <<tx, send, carrier, link, irq, back>>
      BY <2>1 DEF Poll
    <3>2. UNCHANGED TxResponses!ringVars
      BY <3>1, TxRspSame DEF TxRspPoll, Listening
    <3>. QED  BY <3>2
  <2>2. CASE RxPush
    <3>1. UNCHANGED <<tx, send, carrier, link, irq, back>>
      BY <2>2 DEF RxPush
    <3>2. UNCHANGED TxResponses!ringVars
      BY <3>1, TxRspSame DEF TxRspPoll, Listening
    <3>. QED  BY <3>2
  <2>3. CASE RxNotify
    <3>1. UNCHANGED <<tx, send, carrier, link, irq, back>>
      BY <2>3 DEF RxNotify
    <3>2. UNCHANGED TxResponses!ringVars
      BY <3>1, TxRspSame DEF TxRspPoll, Listening
    <3>. QED  BY <3>2
  <2>4. CASE PollAgain
    <3>1. UNCHANGED <<tx, send, carrier, link, irq, back>>
      BY <2>4 DEF PollAgain
    <3>2. UNCHANGED TxResponses!ringVars
      BY <3>1, TxRspSame DEF TxRspPoll, Listening
    <3>. QED  BY <3>2
  <2>5. CASE PollLook
    <3>1. UNCHANGED <<tx, send, carrier, link, irq, back>>
      BY <2>5 DEF PollLook
    <3>2. UNCHANGED TxResponses!ringVars
      BY <3>1, TxRspSame DEF TxRspPoll, Listening
    <3>. QED  BY <3>2
  <2>6. CASE RxSetEvent
    <3>1. UNCHANGED <<tx, send, carrier, link, irq, back>>
      BY <2>6 DEF RxSetEvent
    <3>2. UNCHANGED TxResponses!ringVars
      BY <3>1, TxRspSame DEF TxRspPoll, Listening
    <3>. QED  BY <3>2
  <2>7. CASE PollCheck
    <3>1. UNCHANGED <<tx, send, carrier, link, irq, back>>
      BY <2>7 DEF PollCheck
    <3>2. UNCHANGED TxResponses!ringVars
      BY <3>1, TxRspSame DEF TxRspPoll, Listening
    <3>. QED  BY <3>2
  <2>8. CASE PollComplete
    <3>1. UNCHANGED <<tx, send, carrier, link, irq, back>>
      BY <2>8 DEF PollComplete
    <3>2. UNCHANGED TxResponses!ringVars
      BY <3>1, TxRspSame DEF TxRspPoll, Listening
    <3>. QED  BY <3>2
  <2>9. CASE RefillTimeout
    <3>1. UNCHANGED <<tx, send, carrier, link, irq, back>>
      BY <2>9 DEF RefillTimeout
    <3>2. UNCHANGED TxResponses!ringVars
      BY <3>1, TxRspSame DEF TxRspPoll, Listening
    <3>. QED  BY <3>2
  <2>. QED  BY <1>11, <2>1, <2>2, <2>3, <2>4, <2>5, <2>6, <2>7, <2>8, <2>9 DEF Receive
<1>12. CASE Stack
  <2>1. CASE Open
    <3>1. UNCHANGED <<tx, send, carrier, link, irq, back>>
      BY <2>1 DEF Open
    <3>2. UNCHANGED TxResponses!ringVars
      BY <3>1, TxRspSame DEF TxRspPoll, Listening
    <3>. QED  BY <3>2
  <2>2. CASE OpenCheck
    <3>1. UNCHANGED <<tx, send, carrier, link, irq, back>>
      BY <2>2 DEF OpenCheck
    <3>2. UNCHANGED TxResponses!ringVars
      BY <3>1, TxRspSame DEF TxRspPoll, Listening
    <3>. QED  BY <3>2
  <2>3. CASE OpenEnd
    <3>1. UNCHANGED <<tx, send, carrier, link, irq, back>>
      BY <2>3 DEF OpenEnd
    <3>2. UNCHANGED TxResponses!ringVars
      BY <3>1, TxRspSame DEF TxRspPoll, Listening
    <3>. QED  BY <3>2
  <2>4. CASE Close
    <3>1. UNCHANGED <<tx, send, carrier, link, irq, back>>
      BY <2>4 DEF Close
    <3>2. UNCHANGED TxResponses!ringVars
      BY <3>1, TxRspSame DEF TxRspPoll, Listening
    <3>. QED  BY <3>2
  <2>5. CASE CloseEnd
    <3>1. UNCHANGED <<tx, send, carrier, link, irq, back>>
      BY <2>5 DEF CloseEnd
    <3>2. UNCHANGED TxResponses!ringVars
      BY <3>1, TxRspSame DEF TxRspPoll, Listening
    <3>. QED  BY <3>2
  <2>. QED  BY <1>12, <2>1, <2>2, <2>3, <2>4, <2>5 DEF Stack
<1>13. CASE Link
  <2>1. CASE Migrate
    <3>1. /\ UNCHANGED tx /\ irq' = FALSE /\ link' = "lost"
          /\ back' = [back EXCEPT !.up = FALSE, !.tx_old = NoPush, !.rx_old = NoPush]
      BY <2>1 DEF Migrate
    <3>2. back'.tx_old = NoPush /\ ~Listening'
      BY <1>4, <3>1 DEF Backs, Listening
    <3>3. TxResponses!RingNext
      BY <3>1, <3>2, TxRspPollNext, TxRspDown
    <3>. QED  BY <3>3
  <2>2. CASE Resume
    <3>1. UNCHANGED <<tx, send, irq, back>> /\ ~Listening /\ ~Listening'
      BY <2>2 DEF Resume, Listening
    <3>2. UNCHANGED TxResponses!ringVars
      BY <3>1, TxRspPollAt, TxRspPollNext, TxRspSame
    <3>. QED  BY <3>2
  <2>3. CASE UpdateFeatures
    <3>1. UNCHANGED <<tx, send, irq, back>> /\ ~Listening /\ ~Listening'
      BY <2>3 DEF UpdateFeatures, Listening
    <3>2. UNCHANGED TxResponses!ringVars
      BY <3>1, TxRspPollAt, TxRspPollNext, TxRspSame
    <3>. QED  BY <3>2
  <2>4. CASE NetworkConnect
    <3>1. /\ UNCHANGED <<send, irq>> /\ link = "ready" /\ send = Free /\ back' = NoBack
          /\ link' = "attach" /\ carrier' = TRUE
      BY <2>4 DEF NetworkConnect
    <3>2. ~Listening /\ Listening' /\ send'.at = "free"
      BY <3>1, FreeTyped DEF Listening
    <3>3. /\ tx'.rsp_prod = Plus(First, 0) /\ tx'.rsp_prod = First /\ tx'.cons = First
          /\ tx'.rsp_event = Plus(First, 1) /\ tx'.rsp_event \in Index
      BY <2>4, Reconnected, PlusNone, PlusType, Constants, Sizes
    <3>4. Sleeps(tx'.rsp_prod, tx'.rsp_event, First)
      BY <3>3, SleepsEmpty, Constants
    <3>5. 0 \in 0..RingSize
      BY Sizes
    <3>6. TxResponses!RingNext
      BY <1>2, <3>1, <3>2, <3>3, <3>4, <3>5, NoBackTyped, TxRspPollAt, TxRspPollNext, TxRspReset
    <3>. QED  BY <3>6
  <2>5. CASE BackendConnect
    <3>1. /\ UNCHANGED <<tx, send, irq, carrier>> /\ link = "attach" /\ link' = "connected"
          /\ back' = [NoBack EXCEPT !.up = TRUE]
      BY <2>5 DEF BackendConnect
    <3>2. back'.tx_old = back.tx_old /\ (Listening' <=> Listening)
      BY <1>1, <3>1, NoBackTyped DEF BackOk, NoBack, Listening
    <3>3. TxRspPoll' = TxRspPoll
      BY <3>1, <3>2 DEF TxRspPoll
    <3>4. UNCHANGED TxResponses!ringVars
      BY <3>1, <3>2, <3>3, TxRspSame
    <3>. QED  BY <3>4
  <2>. QED  BY <1>13, <2>1, <2>2, <2>3, <2>4, <2>5 DEF Link
<1>14. CASE Backend
  <2>1. CASE BackTake
    <3>1. UNCHANGED <<send, carrier, link, irq>> /\ back'.tx_old = back.tx_old /\ tx' = Took(tx)
      BY <2>1, <1>4 DEF BackTake, Took, Backs
    <3>2. tx'.rsp_prod = tx.rsp_prod /\ tx'.cons = tx.cons /\ tx'.rsp_event = tx.rsp_event
      BY <1>3, <3>1 DEF Took, TxRings
    <3>3. UNCHANGED TxResponses!ringVars
      BY <3>1, <3>2, TxRspSame DEF TxRspPoll, Listening
    <3>. QED  BY <3>3
  <2>2. CASE BackAnswer
    <3>1. /\ UNCHANGED <<send, carrier, link, irq>> /\ back.tx_old = NoPush
          /\ back' = [back EXCEPT !.tx_old = tx.rsp_prod]
      BY <2>2 DEF BackAnswer
    <3>2. PICK e \in tx.taken : tx' = Answered(tx, e)
      BY <2>2 DEF BackAnswer, Answered
    <3>. DEFINE k == e.slots
    <3>3. /\ tx'.cons = tx.cons /\ tx'.rsp_prod = Plus(tx.rsp_prod, k) /\ tx'.rsp_event = tx.rsp_event
          /\ k \in 1..2 /\ Minus(tx.rsp_prod, tx.cons) + k <= RingSize
      BY <1>1, <3>2, AnswerTx
    <3>. HIDE DEF k
    <3>4. k \in 0..RingSize
      BY <3>3, Sizes
    <3>5. back'.tx_old = tx.rsp_prod /\ tx.rsp_prod # NoPush
      BY <1>3, <1>4, <3>1, TxTyped, Constants DEF Backs
    <3>6. TxRspPoll' = TxRspPoll
      BY <3>1 DEF TxRspPoll, Listening
    <3>7. TxResponses!RingNext
      BY <3>1, <3>3, <3>4, <3>5, <3>6, TxRspPush
    <3>. QED  BY <3>7
  <2>3. CASE BackNotifyTx
    <3>1. /\ UNCHANGED <<tx, send, carrier, link>> /\ back.tx_old # NoPush /\ back' = [back EXCEPT !.tx_old = NoPush]
          /\ irq' = (irq \/ CheckNotify(tx.rsp_prod, tx.rsp_event, back.tx_old))
      BY <2>3 DEF BackNotifyTx
    <3>2. back'.tx_old = NoPush
      BY <1>4, <3>1 DEF Backs
    <3>3. TxRspPoll' = TxRspPoll
      BY <3>1 DEF TxRspPoll, Listening
    <3>4. TxResponses!RingNext
      BY <1>2, <3>1, <3>2, <3>3, TxRspNotify
    <3>. QED  BY <3>4
  <2>4. CASE BackSleepTx
    <3>1. /\ UNCHANGED <<send, carrier, link, irq>> /\ back'.tx_old = back.tx_old
          /\ tx' = [tx EXCEPT !.req_event = Plus(back.tx_cons, 1)]
      BY <2>4, <1>4 DEF BackSleepTx, Backs
    <3>2. tx'.rsp_prod = tx.rsp_prod /\ tx'.cons = tx.cons /\ tx'.rsp_event = tx.rsp_event
      BY <1>3, <3>1 DEF TxRings
    <3>3. UNCHANGED TxResponses!ringVars
      BY <3>1, <3>2, TxRspSame DEF TxRspPoll, Listening
    <3>. QED  BY <3>3
  <2>5. CASE BackRecheckTx
    <3>1. UNCHANGED <<tx, send, carrier, link, irq>> /\ back'.tx_old = back.tx_old
      BY <2>5, <1>4 DEF BackRecheckTx, Backs
    <3>2. UNCHANGED TxResponses!ringVars
      BY <3>1, TxRspSame DEF TxRspPoll, Listening
    <3>. QED  BY <3>2
  <2>6. CASE BackDeliver
    <3>1. UNCHANGED <<tx, send, carrier, link, irq>> /\ back'.tx_old = back.tx_old
      BY <2>6, <1>4 DEF BackDeliver, Backs
    <3>2. UNCHANGED TxResponses!ringVars
      BY <3>1, TxRspSame DEF TxRspPoll, Listening
    <3>. QED  BY <3>2
  <2>7. CASE BackNotifyRx
    <3>1. /\ UNCHANGED <<tx, send, carrier, link>> /\ back' = [back EXCEPT !.rx_old = NoPush]
          /\ irq' = (irq \/ CheckNotify(rx.rsp_prod, rx.rsp_event, back.rx_old))
      BY <2>7 DEF BackNotifyRx
    <3>2. back'.tx_old = back.tx_old
      BY <1>4, <3>1 DEF Backs
    <3>3. TxRspPoll' = TxRspPoll
      BY <3>1 DEF TxRspPoll, Listening
    <3>4. TxResponses!RingNext
      BY <1>2, <3>1, <3>2, <3>3, TxRspBell
    <3>. QED  BY <3>4
  <2>8. CASE BackSleepRx
    <3>1. UNCHANGED <<tx, send, carrier, link, irq>> /\ back'.tx_old = back.tx_old
      BY <2>8, <1>4 DEF BackSleepRx, Backs
    <3>2. UNCHANGED TxResponses!ringVars
      BY <3>1, TxRspSame DEF TxRspPoll, Listening
    <3>. QED  BY <3>2
  <2>9. CASE BackRecheckRx
    <3>1. UNCHANGED <<tx, send, carrier, link, irq>> /\ back'.tx_old = back.tx_old
      BY <2>9, <1>4 DEF BackRecheckRx, Backs
    <3>2. UNCHANGED TxResponses!ringVars
      BY <3>1, TxRspSame DEF TxRspPoll, Listening
    <3>. QED  BY <3>2
  <2>10. CASE BackWake
    <3>1. UNCHANGED <<tx, send, carrier, link, irq>> /\ back'.tx_old = back.tx_old
      BY <2>10, <1>4 DEF BackWake, Backs
    <3>2. UNCHANGED TxResponses!ringVars
      BY <3>1, TxRspSame DEF TxRspPoll, Listening
    <3>. QED  BY <3>2
  <2>. QED  BY <1>14, <2>1, <2>2, <2>3, <2>4, <2>5, <2>6, <2>7, <2>8, <2>9, <2>10 DEF Backend
<1>15. CASE UNCHANGED vars
  BY <1>15, TxRspSame DEF vars, TxRspPoll, Listening
<1>. QED  BY <1>10, <1>11, <1>12, <1>13, <1>14, <1>15 DEF Next

(* Every step follows Ring: responses of the receive ring.                 *)
LEMMA RxRspPollAt ==
  /\ ~Listening \/ ~running \/ recv.by = "open" => RxRspPoll = "down"
  /\ Listening /\ running /\ recv.by # "open" /\ recv.at = "check" /\ napi # "idle" => RxRspPoll = "recheck"
  /\ Listening /\ running /\ recv.by # "open" /\ recv.at # "check" /\ (napi = "idle" \/ recv.at = "complete")
       => RxRspPoll = "asleep"
  /\ Listening /\ running /\ recv.by # "open" /\ recv.at # "check" /\ napi # "idle" /\ recv.at # "complete"
       => RxRspPoll = "awake"
<1>1. CASE ~Listening \/ ~running \/ recv.by = "open"
  BY <1>1, SMT DEF RxRspPoll
<1>2. CASE Listening /\ running /\ recv.by # "open" /\ recv.at = "check" /\ napi # "idle"
  BY <1>2, SMT DEF RxRspPoll
<1>3. CASE Listening /\ running /\ recv.by # "open" /\ recv.at # "check" /\ (napi = "idle" \/ recv.at = "complete")
  BY <1>3, SMT DEF RxRspPoll
<1>4. CASE Listening /\ running /\ recv.by # "open" /\ recv.at # "check" /\ napi # "idle" /\ recv.at # "complete"
  BY <1>4, SMT DEF RxRspPoll
<1>. QED  BY <1>1, <1>2, <1>3, <1>4

LEMMA RxRspPollNext ==
  /\ ~Listening' \/ ~running' \/ recv'.by = "open" => RxRspPoll' = "down"
  /\ Listening' /\ running' /\ recv'.by # "open" /\ recv'.at = "check" /\ napi' # "idle" => RxRspPoll' = "recheck"
  /\ Listening' /\ running' /\ recv'.by # "open" /\ recv'.at # "check" /\ (napi' = "idle" \/ recv'.at = "complete")
       => RxRspPoll' = "asleep"
  /\ Listening' /\ running' /\ recv'.by # "open" /\ recv'.at # "check" /\ napi' # "idle" /\ recv'.at # "complete"
       => RxRspPoll' = "awake"
<1>1. CASE ~Listening' \/ ~running' \/ recv'.by = "open"
  BY <1>1, SMT DEF RxRspPoll
<1>2. CASE Listening' /\ running' /\ recv'.by # "open" /\ recv'.at = "check" /\ napi' # "idle"
  BY <1>2, SMT DEF RxRspPoll
<1>3. CASE Listening' /\ running' /\ recv'.by # "open" /\ recv'.at # "check" /\ (napi' = "idle" \/ recv'.at = "complete")
  BY <1>3, SMT DEF RxRspPoll
<1>4. CASE Listening' /\ running' /\ recv'.by # "open" /\ recv'.at # "check" /\ napi' # "idle" /\ recv'.at # "complete"
  BY <1>4, SMT DEF RxRspPoll
<1>. QED  BY <1>1, <1>2, <1>3, <1>4

LEMMA RxRspPollSame ==
  ASSUME UNCHANGED <<recv, napi, running, carrier, link>>
  PROVE  RxRspPoll' = RxRspPoll
  BY DEF RxRspPoll, Listening

LEMMA RxSignalSame ==
  ASSUME irq' = irq, send'.by = send.by
  PROVE  RxSignal' = RxSignal
  BY DEF RxSignal

LEMMA RxSignalTyped == RxSignal \in BOOLEAN /\ RxSignal' \in BOOLEAN
  BY DEF RxSignal

LEMMA RxResponsesFollow ==
  ASSUME Inv, Alone, [Next]_vars
  PROVE  [RxResponses!RingNext]_RxResponses!ringVars
<1>. USE DEF napiVars, stackVars, linkVars
<1>1. /\ TxOk(tx, back.tx_cons) /\ RxOk(rx) /\ bug = FALSE
      /\ StackOk /\ SendOk /\ QueueOk /\ RecvOk /\ BackOk
  BY Parts
<1>2. bell \in BOOLEAN /\ irq \in BOOLEAN /\ back.up \in BOOLEAN
  BY <1>1, BackTyped
<1>3. tx \in TxRings /\ rx \in RxRings
  BY <1>1 DEF TxOk, RxOk
<1>4. back \in Backs
  BY <1>1 DEF BackOk
<1>5. send \in Senders
  BY <1>1 DEF SendOk
<1>6. recv \in Receivers
  BY <1>1 DEF RecvOk
<1>10. CASE Transmit
  <2>1. ASSUME NEW n \in 1..MaxFrags + 1, NEW extra \in BOOLEAN, StartXmit(n, extra)
         PROVE  [RxResponses!RingNext]_RxResponses!ringVars
    <3>1. UNCHANGED <<rx, recv, napi, running, carrier, link, irq, back>>
      BY <2>1 DEF StartXmit
    <3>2. RxSignal' = RxSignal
      BY <2>1, <3>1, XmitSame DEF RxSignal
    <3>3. UNCHANGED RxResponses!ringVars
      BY <3>1, <3>2, RxRspPollSame, RxRspSame
    <3>. QED  BY <3>3
  <2>2. CASE XmitPush
    <3>1. UNCHANGED <<rx, recv, napi, running, carrier, link, irq>> /\ send'.by = send.by /\ back'.rx_old = back.rx_old
      BY <2>2, <1>5 DEF XmitPush, Senders
    <3>2. UNCHANGED RxResponses!ringVars
      BY <3>1, RxRspPollSame, RxSignalSame, RxRspSame
    <3>. QED  BY <3>2
  <2>3. CASE XmitNotify
    <3>1. UNCHANGED <<rx, recv, napi, running, carrier, link, irq>> /\ send'.by = send.by /\ back'.rx_old = back.rx_old
      BY <2>3, <1>5 DEF XmitNotify, Senders
    <3>2. UNCHANGED RxResponses!ringVars
      BY <3>1, RxRspPollSame, RxSignalSame, RxRspSame
    <3>. QED  BY <3>2
  <2>4. CASE Interrupt
    <3>1. /\ UNCHANGED <<rx, recv, napi, running, carrier, link, back>> /\ send = Free /\ irq /\ irq' = FALSE
          /\ send' = IF carrier THEN [Free EXCEPT !.at = "gc", !.by = "irq"] ELSE send
      BY <2>4 DEF Interrupt
    <3>2. RxRspPoll' = RxRspPoll
      BY <3>1, RxRspPollSame
    <3>3. CASE carrier
      <4>1. send'.by = "irq"
        BY <3>1, <3>3 DEF Free
      <4>2. RxSignal' = RxSignal
        BY <3>1, <4>1 DEF RxSignal
      <4>3. UNCHANGED RxResponses!ringVars
        BY <3>1, <3>2, <4>2, RxRspSame
      <4>. QED  BY <4>3
    <3>4. CASE ~carrier
      <4>1. RxRspPoll # "asleep"
        BY <3>4, RxRspPollAt DEF Listening
      <4>2. RxResponses!RingNext
        BY <3>1, <3>2, <4>1, RxSignalTyped, RxRspBell
      <4>. QED  BY <4>2
    <3>. QED  BY <3>3, <3>4
  <2>5. CASE TxBufGc
    <3>1. UNCHANGED <<rx, recv, napi, running, carrier, link, irq>> /\ send'.by = send.by /\ back'.rx_old = back.rx_old
      BY <2>5, <1>5 DEF TxBufGc, Senders
    <3>2. UNCHANGED RxResponses!ringVars
      BY <3>1, RxRspPollSame, RxSignalSame, RxRspSame
    <3>. QED  BY <3>2
  <2>6. CASE TxSetEvent
    <3>1. UNCHANGED <<rx, recv, napi, running, carrier, link, irq>> /\ send'.by = send.by /\ back'.rx_old = back.rx_old
      BY <2>6, <1>5 DEF TxSetEvent, Senders
    <3>2. UNCHANGED RxResponses!ringVars
      BY <3>1, RxRspPollSame, RxSignalSame, RxRspSame
    <3>. QED  BY <3>2
  <2>7. CASE TxRecheck
    <3>1. /\ UNCHANGED <<rx, recv, disabling, running, carrier, link, irq, back>> /\ send.at = "recheck"
          /\ \/ send' = [send EXCEPT !.at = "gc"] /\ napi' = napi
             \/ send' = Free /\ napi' = IF send.by = "irq" /\ Unconsumed(rx) THEN Scheduled ELSE napi
      BY <2>7 DEF TxRecheck
    <3>2. CASE send'.by = send.by
      <4>1. napi' = napi
        BY <3>1, <3>2, FreeTyped
      <4>2. UNCHANGED RxResponses!ringVars
        BY <3>1, <3>2, <4>1, RxRspPollSame, RxSignalSame, RxRspSame
      <4>. QED  BY <4>2
    <3>3. CASE send.by # "irq" /\ send' = Free
      <4>1. napi' = napi
        BY <3>1, <3>3, FreeTyped
      <4>2. RxSignal' = RxSignal
        BY <3>1, <3>3, FreeTyped DEF RxSignal
      <4>3. UNCHANGED RxResponses!ringVars
        BY <3>1, <4>1, <4>2, RxRspPollSame, RxRspSame
      <4>. QED  BY <4>3
    <3>4. CASE send.by = "irq" /\ send' = Free
      <4>1. RxSignal /\ (Listening' <=> Listening) /\ napi' = IF Unconsumed(rx) THEN Scheduled ELSE napi
        BY <1>5, <3>1, <3>4, FreeTyped DEF RxSignal, Listening, Senders
      <4>0. recv.at = "check" => recv.by = "open" \/ napi = "sched"
        BY <1>1 DEF RecvOk
      <4>2. CASE RxRspPoll # "asleep"
        <5>1. RxRspPoll' = RxRspPoll
          <6>1. napi' = napi \/ (napi = "idle" /\ napi' = "sched")
            BY <4>1 DEF Scheduled
          <6>. QED  BY <3>1, <4>0, <4>1, <4>2, <6>1, RxRspPollAt, RxRspPollNext
        <5>2. RxResponses!RingNext
          BY <3>1, <4>2, <5>1, RxSignalTyped, RxRspBell
        <5>. QED  BY <5>2
      <4>3. CASE RxRspPoll = "asleep"
        <5>1. Listening /\ running /\ recv.by # "open" /\ recv.at # "check" /\ (napi = "idle" \/ recv.at = "complete")
          BY <4>0, <4>3, RxRspPollAt
        <5>2. recv.at # "complete"
          BY <1>1, <3>4 DEF Alone, RecvOk
        <5>3. napi = "idle" /\ ~disabling /\ carrier
          BY <1>1, <5>1, <5>2 DEF StackOk, Listening
        <5>4. CASE Unconsumed(rx)
          <6>1. napi' = "sched"
            BY <4>1, <5>3, <5>4 DEF Scheduled
          <6>2. RxRspPoll' = "awake"
            BY <3>1, <4>1, <5>1, <5>2, <6>1, RxRspPollNext
          <6>3. RxResponses!RingNext
            BY <3>1, <4>1, <4>3, <6>2, RxSignalTyped, RxRspWake
          <6>. QED  BY <6>3
        <5>5. CASE ~Unconsumed(rx)
          <6>1. rx.rsp_prod = rx.cons /\ rx.rsp_event = Plus(rx.cons, 1) /\ napi' = napi
            BY <1>1, <4>1, <5>1, <5>3, <5>5 DEF Unconsumed, RecvOk
          <6>2. Sleeps(rx.rsp_prod, rx.rsp_event, rx.cons)
            BY <1>3, <6>1, RxTyped, SleepsEmpty
          <6>3. RxRspPoll' = RxRspPoll
            BY <3>1, <6>1, RxRspPollSame
          <6>4. RxResponses!RingNext
            BY <3>1, <6>2, <6>3, RxSignalTyped, RxRspBell
          <6>. QED  BY <6>4
        <5>. QED  BY <5>4, <5>5
      <4>. QED  BY <4>2, <4>3
    <3>. QED  BY <1>5, <3>1, <3>2, <3>3, <3>4 DEF Senders
  <2>. QED  BY <1>10, <2>1, <2>2, <2>3, <2>4, <2>5, <2>6, <2>7 DEF Transmit
<1>11. CASE Receive
  <2>1. CASE Poll
    <3>1. UNCHANGED <<send, napi, running, carrier, link, irq, back>> /\ napi = "sched" /\ recv = Free
      BY <2>1 DEF Poll
    <3>2. PICK k \in 0..RingSize : k <= Minus(rx.rsp_prod, rx.cons) /\ rx'.cons = Plus(rx.cons, k)
      BY <2>1, PollRx
    <3>3. rx'.rsp_prod = rx.rsp_prod /\ rx'.rsp_event = rx.rsp_event
      BY <2>1, PollRx
    <3>4. (Listening' <=> Listening) /\ recv.at = "free" /\ recv.by = "none"
      BY <3>1, FreeTyped DEF Listening
    <3>5. recv'.at \in {"push", "final"} /\ recv'.by \in {"poll", "full"}
      BY <2>1, PollRx
    <3>6. RxRspPoll' = RxRspPoll /\ RxRspPoll \in {"awake", "down"}
      BY <1>1, <3>1, <3>4, <3>5, RxRspPollAt, RxRspPollNext DEF StackOk
    <3>7. RxResponses!RingNext
      BY <3>1, <3>2, <3>3, <3>6, RxSignalSame, RxRspConsume
    <3>. QED  BY <3>7
  <2>2. CASE RxPush
    <3>1. /\ UNCHANGED <<send, napi, running, carrier, link, irq, back>> /\ recv.at = "push"
          /\ recv' = [recv EXCEPT !.at = "notify", !.old = rx.req_prod] /\ rx' = [rx EXCEPT !.req_prod = rx.pvt]
      BY <2>2 DEF RxPush
    <3>2. rx'.rsp_prod = rx.rsp_prod /\ rx'.rsp_event = rx.rsp_event /\ rx'.cons = rx.cons
      BY <1>3, <3>1 DEF RxRings
    <3>3. (Listening' <=> Listening) /\ recv'.at = "notify" /\ recv'.by = recv.by
      BY <1>6, <3>1 DEF Listening, Receivers
    <3>4. RxRspPoll' = RxRspPoll
      BY <1>1, <3>1, <3>3, RxRspPollAt, RxRspPollNext DEF StackOk
    <3>5. UNCHANGED RxResponses!ringVars
      BY <3>1, <3>2, <3>4, RxSignalSame, RxRspSame
    <3>. QED  BY <3>5
  <2>3. CASE RxNotify
    <3>1. /\ UNCHANGED <<rx, send, napi, running, carrier, link, irq, back>> /\ recv.at = "notify"
          /\ recv' = [recv EXCEPT !.at = "final", !.old = 0]
      BY <2>3 DEF RxNotify
    <3>2. (Listening' <=> Listening) /\ recv'.at = "final" /\ recv'.by = recv.by
      BY <1>6, <3>1 DEF Listening, Receivers
    <3>3. RxRspPoll' = RxRspPoll
      BY <1>1, <3>1, <3>2, RxRspPollAt, RxRspPollNext DEF StackOk
    <3>4. UNCHANGED RxResponses!ringVars
      BY <3>1, <3>3, RxSignalSame, RxRspSame
    <3>. QED  BY <3>4
  <2>4. CASE PollAgain
    <3>1. /\ UNCHANGED <<rx, send, running, disabling, carrier, link, irq, back>> /\ recv.at = "final" /\ recv.by = "full"
          /\ recv' = Free /\ napi' = IF disabling THEN "idle" ELSE napi
      BY <2>4 DEF PollAgain
    <3>2. (Listening' <=> Listening) /\ recv'.at = "free" /\ recv'.by = "none" /\ napi = "sched"
          /\ (running => napi' = napi)
      BY <1>1, <3>1, FreeTyped DEF Listening, RecvOk, StackOk
    <3>3. RxRspPoll' = RxRspPoll
      BY <1>1, <3>1, <3>2, RxRspPollAt, RxRspPollNext DEF StackOk
    <3>4. UNCHANGED RxResponses!ringVars
      BY <3>1, <3>3, RxSignalSame, RxRspSame
    <3>. QED  BY <3>4
  <2>5. CASE PollLook
    <3>1. /\ UNCHANGED <<rx, send, napi, running, carrier, link, irq, back>> /\ recv.at = "final" /\ recv.by = "poll"
          /\ recv' = Free \/ recv' = [recv EXCEPT !.at = "event"]
      BY <2>5 DEF PollLook
    <3>2. /\ (Listening' <=> Listening) /\ recv'.at \in {"free", "event"} /\ recv'.by \in {"none", "poll"}
          /\ napi = "sched"
      BY <1>1, <1>6, <3>1, FreeTyped DEF Listening, RecvOk, Receivers
    <3>3. RxRspPoll' = RxRspPoll
      BY <1>1, <3>1, <3>2, RxRspPollAt, RxRspPollNext DEF StackOk
    <3>4. UNCHANGED RxResponses!ringVars
      BY <3>1, <3>3, RxSignalSame, RxRspSame
    <3>. QED  BY <3>4
  <2>6. CASE RxSetEvent
    <3>1. /\ UNCHANGED <<send, napi, running, carrier, link, irq, back>>
          /\ rx' = [rx EXCEPT !.rsp_event = Plus(rx.cons, 1)] /\ recv' = [recv EXCEPT !.at = "check"]
          /\ recv.at = "event" \/ (recv.at = "final" /\ recv.by = "open")
      BY <2>6 DEF RxSetEvent
    <3>2. rx'.rsp_prod = rx.rsp_prod /\ rx'.rsp_event = Plus(rx.cons, 1) /\ rx'.cons = rx.cons
      BY <1>3, <3>1 DEF RxRings
    <3>3. /\ (Listening' <=> Listening) /\ recv'.at = "check" /\ recv'.by = recv.by
          /\ (recv.by # "open" => recv.at = "event" /\ napi = "sched")
      BY <1>1, <1>6, <3>1 DEF Listening, RecvOk, Receivers
    <3>4. /\ RxRspPoll \in {"awake", "down"}
          /\ RxRspPoll' = IF RxRspPoll = "down" THEN RxRspPoll ELSE "recheck"
      BY <1>1, <3>1, <3>3, RxRspPollAt, RxRspPollNext DEF StackOk
    <3>5. RxResponses!RingNext
      BY <3>1, <3>2, <3>4, RxSignalSame, RxRspSetEvent, Sizes
    <3>. QED  BY <3>5
  <2>7. CASE PollCheck
    <3>1. /\ UNCHANGED <<rx, send, napi, running, carrier, link, irq, back>> /\ recv.at = "check" /\ recv.by = "poll"
          /\ recv' = IF Unconsumed(rx) THEN Free ELSE [recv EXCEPT !.at = "complete"]
      BY <2>7 DEF PollCheck
    <3>2. /\ (Listening' <=> Listening) /\ recv'.at \in {"free", "complete"} /\ recv'.by \in {"none", "poll"}
          /\ napi = "sched" /\ (recv'.at = "complete" => ~Unconsumed(rx))
      BY <1>1, <1>6, <3>1, FreeTyped DEF Listening, RecvOk, Receivers
    <3>3. CASE Listening /\ running
      <4>1. /\ RxRspPoll = "recheck" /\ RxRspPoll' \in {"awake", "asleep"}
            /\ (RxRspPoll' = "asleep" => recv'.at = "complete")
        BY <1>1, <3>1, <3>2, <3>3, RxRspPollAt, RxRspPollNext DEF StackOk
      <4>2. ~Unconsumed(rx) => Sleeps(rx.rsp_prod, rx.rsp_event, rx.cons)
        BY <1>1, <1>3, <3>1, RxTyped, SleepsEmpty DEF Unconsumed, RecvOk
      <4>3. RxResponses!RingNext
        BY <3>1, <3>2, <4>1, <4>2, RxSignalSame, RxRspRecheck
      <4>. QED  BY <4>3
    <3>4. CASE ~Listening \/ ~running
      <4>1. RxRspPoll' = RxRspPoll
        BY <3>1, <3>2, <3>4, RxRspPollAt, RxRspPollNext
      <4>2. UNCHANGED RxResponses!ringVars
        BY <3>1, <4>1, RxSignalSame, RxRspSame
      <4>. QED  BY <4>2
    <3>. QED  BY <3>3, <3>4
  <2>8. CASE PollComplete
    <3>1. /\ UNCHANGED <<rx, send, running, carrier, link, irq, back>> /\ recv.at = "complete"
          /\ recv' = Free /\ napi' = "idle"
      BY <2>8 DEF PollComplete
    <3>2. (Listening' <=> Listening) /\ recv'.at = "free" /\ recv'.by = "none" /\ recv.by = "poll"
      BY <1>1, <3>1, FreeTyped DEF Listening, RecvOk
    <3>3. RxRspPoll' = RxRspPoll
      BY <3>1, <3>2, RxRspPollAt, RxRspPollNext
    <3>4. UNCHANGED RxResponses!ringVars
      BY <3>1, <3>3, RxSignalSame, RxRspSame
    <3>. QED  BY <3>4
  <2>9. CASE RefillTimeout
    <3>1. UNCHANGED <<rx, send, recv, running, carrier, link, irq, back>> /\ napi' = Scheduled
      BY <2>9 DEF RefillTimeout
    <3>2. CASE napi' = napi
      <4>1. UNCHANGED RxResponses!ringVars
        BY <3>1, <3>2, RxRspPollSame, RxSignalSame, RxRspSame
      <4>. QED  BY <4>1
    <3>3. CASE napi' # napi
      <4>1. napi = "idle" /\ napi' = "sched" /\ (Listening' <=> Listening)
        BY <3>1, <3>3 DEF Scheduled, Listening
      <4>2. recv.by \notin {"poll", "full"} /\ (recv.at = "check" \/ recv.at = "complete" => recv.by = "open")
        BY <1>1, <4>1 DEF RecvOk
      <4>3. CASE RxRspPoll = "asleep"
        <5>1. RxRspPoll' = "awake"
          BY <3>1, <4>1, <4>2, <4>3, RxRspPollAt, RxRspPollNext
        <5>2. RxResponses!RingNext
          BY <3>1, <4>3, <5>1, RxSignalSame, RxSignalTyped, RxRspWake
        <5>. QED  BY <5>2
      <4>4. CASE RxRspPoll # "asleep"
        <5>1. RxRspPoll' = RxRspPoll
          BY <3>1, <4>1, <4>2, <4>4, RxRspPollAt, RxRspPollNext
        <5>2. UNCHANGED RxResponses!ringVars
          BY <3>1, <5>1, RxSignalSame, RxRspSame
        <5>. QED  BY <5>2
      <4>. QED  BY <4>3, <4>4
    <3>. QED  BY <3>2, <3>3
  <2>. QED  BY <1>11, <2>1, <2>2, <2>3, <2>4, <2>5, <2>6, <2>7, <2>8, <2>9 DEF Receive
<1>12. CASE Stack
  <2>1. CASE Open
    <3>1. UNCHANGED <<send, carrier, link, irq, back>> /\ ~running
      BY <2>1 DEF Open
    <3>2. /\ rx'.cons = rx.cons /\ rx'.rsp_prod = rx.rsp_prod /\ rx'.rsp_event = rx.rsp_event
          /\ (carrier => recv'.by = "open")
      BY <2>1, OpenSame
    <3>3. RxRspPoll' = RxRspPoll
      BY <3>1, <3>2, RxRspPollAt, RxRspPollNext DEF Listening
    <3>4. UNCHANGED RxResponses!ringVars
      BY <3>1, <3>2, <3>3, RxSignalSame, RxRspSame
    <3>. QED  BY <3>4
  <2>2. CASE OpenCheck
    <3>1. /\ UNCHANGED <<rx, send, running, rtnl, disabling, carrier, link, irq, back>> /\ recv.at = "check" /\ recv.by = "open"
          /\ recv' = Free /\ napi' = IF Unconsumed(rx) THEN Scheduled ELSE napi
      BY <2>2 DEF OpenCheck
    <3>2. /\ (Listening' <=> Listening) /\ recv'.at = "free" /\ recv'.by = "none"
          /\ rtnl = "open" /\ ~disabling /\ running /\ (napi' = "idle" => ~Unconsumed(rx))
      BY <1>1, <3>1, FreeTyped DEF Listening, RecvOk, StackOk, Scheduled
    <3>3. CASE Listening
      <4>1. /\ RxRspPoll = "down" /\ RxRspPoll' \in {"awake", "asleep"} /\ (RxRspPoll' = "asleep" => napi' = "idle")
        BY <3>1, <3>2, <3>3, RxRspPollAt, RxRspPollNext
      <4>2. ~Unconsumed(rx) => Sleeps(rx.rsp_prod, rx.rsp_event, rx.cons)
        BY <1>1, <1>3, <3>1, RxTyped, SleepsEmpty DEF Unconsumed, RecvOk
      <4>3. RxResponses!RingNext
        BY <3>1, <3>2, <4>1, <4>2, RxSignalTyped, RxRspUp
      <4>. QED  BY <4>3
    <3>4. CASE ~Listening
      <4>1. RxRspPoll' = RxRspPoll
        BY <3>2, <3>4, RxRspPollAt, RxRspPollNext
      <4>2. UNCHANGED RxResponses!ringVars
        BY <3>1, <4>1, RxSignalSame, RxRspSame
      <4>. QED  BY <4>2
    <3>. QED  BY <3>3, <3>4
  <2>3. CASE OpenEnd
    <3>1. UNCHANGED <<rx, recv, napi, running, carrier, link, irq>> /\ send'.by = send.by /\ back'.rx_old = back.rx_old
      BY <2>3 DEF OpenEnd
    <3>2. UNCHANGED RxResponses!ringVars
      BY <3>1, RxRspPollSame, RxSignalSame, RxRspSame
    <3>. QED  BY <3>2
  <2>4. CASE Close
    <3>1. UNCHANGED <<rx, back>> /\ running' = FALSE
      BY <2>4 DEF Close
    <3>2. RxResponses!RingNext
      BY <3>1, RxRspPollNext, RxSignalTyped, RxRspDown
    <3>. QED  BY <3>2
  <2>5. CASE CloseEnd
    <3>1. UNCHANGED <<rx, send, recv, running, carrier, link, irq, back>> /\ ~running
      BY <2>5, <1>1 DEF CloseEnd, StackOk
    <3>2. RxRspPoll' = RxRspPoll
      BY <3>1, RxRspPollAt, RxRspPollNext
    <3>3. UNCHANGED RxResponses!ringVars
      BY <3>1, <3>2, RxSignalSame, RxRspSame
    <3>. QED  BY <3>3
  <2>. QED  BY <1>12, <2>1, <2>2, <2>3, <2>4, <2>5 DEF Stack
<1>13. CASE Link
  <2>1. CASE Migrate
    <3>1. /\ UNCHANGED rx /\ link' = "lost"
          /\ back' = [back EXCEPT !.up = FALSE, !.tx_old = NoPush, !.rx_old = NoPush]
      BY <2>1 DEF Migrate
    <3>2. back'.rx_old = NoPush /\ ~Listening'
      BY <1>4, <3>1 DEF Backs, Listening
    <3>3. RxResponses!RingNext
      BY <3>1, <3>2, RxRspPollNext, RxSignalTyped, RxRspDown
    <3>. QED  BY <3>3
  <2>2. CASE Resume
    <3>1. UNCHANGED <<rx, send, recv, napi, running, irq, back>> /\ ~Listening /\ ~Listening'
      BY <2>2 DEF Resume, Listening
    <3>2. RxRspPoll' = RxRspPoll
      BY <3>1, RxRspPollAt, RxRspPollNext
    <3>3. UNCHANGED RxResponses!ringVars
      BY <3>1, <3>2, RxSignalSame, RxRspSame
    <3>. QED  BY <3>3
  <2>3. CASE UpdateFeatures
    <3>1. UNCHANGED <<rx, send, recv, napi, running, irq, back>> /\ ~Listening /\ ~Listening'
      BY <2>3 DEF UpdateFeatures, Listening
    <3>2. RxRspPoll' = RxRspPoll
      BY <3>1, RxRspPollAt, RxRspPollNext
    <3>3. UNCHANGED RxResponses!ringVars
      BY <3>1, <3>2, RxSignalSame, RxRspSame
    <3>. QED  BY <3>3
  <2>4. CASE NetworkConnect
    <3>1. UNCHANGED <<send, irq>> /\ link = "ready" /\ back' = NoBack
      BY <2>4 DEF NetworkConnect
    <3>2. ~Listening
      BY <3>1 DEF Listening
    <3>3. /\ rx'.rsp_prod = Plus(First, 0) /\ rx'.rsp_prod = First /\ rx'.cons = First
          /\ rx'.rsp_event = Plus(First, 1) /\ rx'.rsp_event \in Index
      BY <2>4, Reconnected, PlusNone, PlusType, Constants, Sizes
    <3>4. Sleeps(rx'.rsp_prod, rx'.rsp_event, First)
      BY <3>3, SleepsEmpty, Constants
    <3>5. RxRspPoll' \in {"awake", "down", "asleep"}
      <4>1. recv' = Free
        BY <2>4 DEF NetworkConnect
      <4>2. recv'.at = "free"
        BY <4>1, FreeTyped
      <4>. QED  BY <4>2 DEF RxRspPoll
    <3>6. 0 \in 0..RingSize
      BY Sizes
    <3>7. RxResponses!RingNext
      BY <3>1, <3>2, <3>3, <3>4, <3>5, <3>6, NoBackTyped, RxRspPollAt, RxSignalTyped, RxRspReset
    <3>. QED  BY <3>7
  <2>5. CASE BackendConnect
    <3>1. /\ UNCHANGED <<rx, send, recv, napi, running, irq, carrier>> /\ link = "attach" /\ link' = "connected"
          /\ back' = [NoBack EXCEPT !.up = TRUE]
      BY <2>5 DEF BackendConnect
    <3>2. back'.rx_old = back.rx_old /\ (Listening' <=> Listening)
      BY <1>1, <3>1, NoBackTyped DEF BackOk, NoBack, Listening
    <3>3. RxRspPoll' = RxRspPoll
      BY <3>1, <3>2 DEF RxRspPoll
    <3>4. UNCHANGED RxResponses!ringVars
      BY <3>1, <3>2, <3>3, RxSignalSame, RxRspSame
    <3>. QED  BY <3>4
  <2>. QED  BY <1>13, <2>1, <2>2, <2>3, <2>4, <2>5 DEF Link
<1>14. CASE Backend
  <2>1. CASE BackTake
    <3>1. UNCHANGED <<rx, recv, napi, running, carrier, link, irq>> /\ send'.by = send.by /\ back'.rx_old = back.rx_old
      BY <2>1, <1>4 DEF BackTake, Backs
    <3>2. UNCHANGED RxResponses!ringVars
      BY <3>1, RxRspPollSame, RxSignalSame, RxRspSame
    <3>. QED  BY <3>2
  <2>2. CASE BackAnswer
    <3>1. UNCHANGED <<rx, recv, napi, running, carrier, link, irq>> /\ send'.by = send.by /\ back'.rx_old = back.rx_old
      BY <2>2, <1>4 DEF BackAnswer, Backs
    <3>2. UNCHANGED RxResponses!ringVars
      BY <3>1, RxRspPollSame, RxSignalSame, RxRspSame
    <3>. QED  BY <3>2
  <2>3. CASE BackNotifyTx
    <3>1. /\ UNCHANGED <<rx, send, recv, napi, running, carrier, link>> /\ back' = [back EXCEPT !.tx_old = NoPush]
          /\ irq' = (irq \/ CheckNotify(tx.rsp_prod, tx.rsp_event, back.tx_old))
      BY <2>3 DEF BackNotifyTx
    <3>2. back'.rx_old = back.rx_old /\ (RxSignal => RxSignal')
      BY <1>4, <3>1 DEF Backs, RxSignal
    <3>3. RxResponses!RingNext
      BY <3>1, <3>2, RxRspPollSame, RxSignalTyped, RxRspBell
    <3>. QED  BY <3>3
  <2>4. CASE BackSleepTx
    <3>1. UNCHANGED <<rx, recv, napi, running, carrier, link, irq>> /\ send'.by = send.by /\ back'.rx_old = back.rx_old
      BY <2>4, <1>4 DEF BackSleepTx, Backs
    <3>2. UNCHANGED RxResponses!ringVars
      BY <3>1, RxRspPollSame, RxSignalSame, RxRspSame
    <3>. QED  BY <3>2
  <2>5. CASE BackRecheckTx
    <3>1. UNCHANGED <<rx, recv, napi, running, carrier, link, irq>> /\ send'.by = send.by /\ back'.rx_old = back.rx_old
      BY <2>5, <1>4 DEF BackRecheckTx, Backs
    <3>2. UNCHANGED RxResponses!ringVars
      BY <3>1, RxRspPollSame, RxSignalSame, RxRspSame
    <3>. QED  BY <3>2
  <2>6. CASE BackDeliver
    <3>1. /\ UNCHANGED <<send, recv, napi, running, carrier, link, irq>> /\ Room >= MaxSlots /\ back.rx_old = NoPush
      BY <2>6 DEF BackDeliver
    <3>2. PICK m \in Messages :
            /\ rx' = [rx EXCEPT !.rsps = Append(@, m), !.rsp_prod = Plus(@, Slots(m))]
            /\ back' = [back EXCEPT !.rx_old = rx.rsp_prod, !.rx_cons = Plus(@, Slots(m))]
      BY <2>6 DEF BackDeliver
    <3>. DEFINE k == Slots(m)
    <3>3. /\ rx'.cons = rx.cons /\ rx'.rsp_prod = Plus(rx.rsp_prod, k) /\ rx'.rsp_event = rx.rsp_event
          /\ k \in 0..RingSize /\ Minus(rx.rsp_prod, rx.cons) + k <= RingSize
      <4>1. Minus(rx.req_prod, rx.rsp_prod) >= MaxSlots
        BY <1>1, <3>1 DEF BackOk, Room
      <4>2. rx' = [rx EXCEPT !.rsps = Append(@, m), !.rsp_prod = Plus(@, Slots(m))]
        BY <3>2
      <4>3. Delivered(rx, m, rx')
        BY <1>1, <4>1, <4>2, DeliverRx, Zenon
      <4>. QED  BY <4>3 DEF Delivered
    <3>. HIDE DEF k
    <3>4. back'.rx_old = rx.rsp_prod /\ rx.rsp_prod # NoPush
      BY <1>3, <1>4, <3>2, RxTyped, Constants DEF Backs
    <3>5. RxResponses!RingNext
      BY <3>1, <3>3, <3>4, RxRspPollSame, RxSignalSame, RxRspPush
    <3>. QED  BY <3>5
  <2>7. CASE BackNotifyRx
    <3>1. /\ UNCHANGED <<rx, send, recv, napi, running, carrier, link>> /\ back' = [back EXCEPT !.rx_old = NoPush]
          /\ irq' = (irq \/ CheckNotify(rx.rsp_prod, rx.rsp_event, back.rx_old)) /\ back.rx_old # NoPush
      BY <2>7 DEF BackNotifyRx
    <3>2. /\ back'.rx_old = NoPush /\ (RxSignal => RxSignal')
          /\ (CheckNotify(rx.rsp_prod, rx.rsp_event, back.rx_old) => RxSignal')
      BY <1>4, <3>1 DEF Backs, RxSignal
    <3>3. RxResponses!RingNext
      BY <3>1, <3>2, RxRspPollSame, RxSignalTyped, RxRspNotify
    <3>. QED  BY <3>3
  <2>8. CASE BackSleepRx
    <3>1. /\ UNCHANGED <<send, recv, napi, running, carrier, link, irq>> /\ back'.rx_old = back.rx_old
          /\ rx' = [rx EXCEPT !.req_event = Plus(back.rx_cons, MaxSlots)]
      BY <2>8, <1>4 DEF BackSleepRx, Backs
    <3>2. rx'.rsp_prod = rx.rsp_prod /\ rx'.cons = rx.cons /\ rx'.rsp_event = rx.rsp_event
      BY <1>3, <3>1 DEF RxRings
    <3>3. UNCHANGED RxResponses!ringVars
      BY <3>1, <3>2, RxRspPollSame, RxSignalSame, RxRspSame
    <3>. QED  BY <3>3
  <2>9. CASE BackRecheckRx
    <3>1. UNCHANGED <<rx, recv, napi, running, carrier, link, irq>> /\ send'.by = send.by /\ back'.rx_old = back.rx_old
      BY <2>9, <1>4 DEF BackRecheckRx, Backs
    <3>2. UNCHANGED RxResponses!ringVars
      BY <3>1, RxRspPollSame, RxSignalSame, RxRspSame
    <3>. QED  BY <3>2
  <2>10. CASE BackWake
    <3>1. UNCHANGED <<rx, recv, napi, running, carrier, link, irq>> /\ send'.by = send.by /\ back'.rx_old = back.rx_old
      BY <2>10, <1>4 DEF BackWake, Backs
    <3>2. UNCHANGED RxResponses!ringVars
      BY <3>1, RxRspPollSame, RxSignalSame, RxRspSame
    <3>. QED  BY <3>2
  <2>. QED  BY <1>14, <2>1, <2>2, <2>3, <2>4, <2>5, <2>6, <2>7, <2>8, <2>9, <2>10 DEF Backend
<1>15. CASE UNCHANGED vars
  BY <1>15, RxRspPollSame, RxSignalSame, RxRspSame DEF vars
<1>. QED  BY <1>10, <1>11, <1>12, <1>13, <1>14, <1>15 DEF Next

--------------------------------------------------------------------------------
(* On one CPU an interrupt handler comes to its end before polling goes on. *)
LEMMA StepAlone ==
  ASSUME OneCpu, Inv, Alone, [Next]_vars
  PROVE  Alone'
<1>. USE DEF napiVars, stackVars, linkVars
<1>1. send \in Senders /\ recv \in Receivers /\ (recv.at = "complete" => recv.by = "poll")
  BY Parts DEF SendOk, RecvOk
<1>2. CASE UNCHANGED recv /\ send'.by \in {send.by, "none", "xmit"}
  BY <1>2 DEF Alone
<1>3. CASE Transmit
  <2>1. ASSUME NEW n \in 1..MaxFrags + 1, NEW extra \in BOOLEAN, StartXmit(n, extra)
         PROVE  UNCHANGED recv /\ send'.by \in {send.by, "none", "xmit"}
    BY <2>1, XmitSame DEF StartXmit, Free
  <2>2. CASE XmitPush \/ XmitNotify \/ TxBufGc \/ TxSetEvent
    BY <1>1, <1>2, <2>2 DEF XmitPush, XmitNotify, TxBufGc, TxSetEvent, Senders
  <2>3. CASE TxRecheck
    BY <1>1, <1>2, <2>3, FreeTyped DEF TxRecheck, Senders
  <2>4. CASE Interrupt
    <3>1. recv.by # "poll" \/ recv.at \in {"push", "notify", "final"}
      BY <2>4 DEF Interrupt
    <3>. QED  BY <2>4, <3>1 DEF Interrupt, Alone
  <2>. QED  BY <1>2, <1>3, <2>1, <2>2, <2>3, <2>4 DEF Transmit
<1>4. CASE Receive
  <2>1. UNCHANGED send
    BY <1>4 DEF Receive, Poll, RxPush, RxNotify, PollAgain, PollLook, RxSetEvent, PollCheck, PollComplete, RefillTimeout
  <2>2. CASE send.by # "irq"
    BY <2>1, <2>2 DEF Alone
  <2>3. CASE recv.by = "open"
    <3>1. CASE RxPush \/ RxNotify \/ RxSetEvent
      BY <1>1, <2>3, <3>1 DEF RxPush, RxNotify, RxSetEvent, Receivers, Alone
    <3>2. CASE RefillTimeout
      BY <2>3, <3>2 DEF RefillTimeout, Alone
    <3>3. ~Poll /\ ~PollAgain /\ ~PollLook /\ ~PollCheck /\ ~PollComplete
      BY <1>1, <2>3, FreeTyped DEF Poll, PollAgain, PollLook, PollCheck, PollComplete
    <3>. QED  BY <1>4, <3>1, <3>2, <3>3 DEF Receive
  <2>. QED  BY <1>4, <2>2, <2>3 DEF Receive
<1>5. CASE Stack
  <2>1. CASE Open
    <3>1. UNCHANGED send
      BY <2>1 DEF Open
    <3>2. CASE carrier
      <4>1. recv'.by = "open"
        BY <2>1, <3>2 DEF Open, Free
      <4>. QED  BY <4>1 DEF Alone
    <3>3. CASE ~carrier
      BY <2>1, <1>2, <3>1, <3>3 DEF Open
    <3>. QED  BY <3>2, <3>3
  <2>2. CASE OpenCheck
    <3>1. recv'.by = "none"
      BY <2>2, FreeTyped DEF OpenCheck
    <3>. QED  BY <3>1 DEF Alone
  <2>3. CASE OpenEnd \/ Close \/ CloseEnd
    BY <1>2, <2>3 DEF OpenEnd, Close, CloseEnd
  <2>. QED  BY <1>5, <2>1, <2>2, <2>3 DEF Stack
<1>6. CASE Link
  BY <1>2, <1>6 DEF Link, Migrate, Resume, UpdateFeatures, NetworkConnect, BackendConnect
<1>7. CASE Backend
  <2>1. UNCHANGED <<send, recv>>
    BY <1>7 DEF Backend, BackTake, BackAnswer, BackNotifyTx, BackSleepTx, BackRecheckTx, BackDeliver, BackNotifyRx,
       BackSleepRx, BackRecheckRx, BackWake
  <2>. QED  BY Zenon, <1>2, <2>1
<1>8. CASE UNCHANGED vars
  BY <1>2, <1>8 DEF vars
<1>. QED  BY <1>3, <1>4, <1>5, <1>6, <1>7, <1>8 DEF Next

LEMMA NetAlone ==
  ASSUME QuietClose, OneCpu
  PROVE  Spec => [](Inv /\ Alone)
<1>1. Init => Inv /\ Alone
  BY InitInv, FreeTyped DEF Init, Alone
<1>2. Inv /\ Alone /\ [Next]_vars => Inv' /\ Alone'
  BY StepInv, StepAlone
<1>. QED  BY <1>1, <1>2, PTL DEF Spec

(* The rings start as Ring does. *)
LEMMA RingsStart ==
  ASSUME Init
  PROVE  TxRequests!RingInit /\ RxRequests!RingInit /\ TxResponses!RingInit /\ RxResponses!RingInit
<1>1. /\ tx.req_prod = First /\ tx.req_event = Plus(First, 1) /\ tx.rsp_prod = First
      /\ tx.rsp_event = Plus(First, 1) /\ tx.cons = First
      /\ rx.req_prod = First /\ rx.req_event = Plus(First, 1) /\ rx.rsp_prod = First
      /\ rx.rsp_event = Plus(First, 1) /\ rx.cons = First
  BY DEF Init
<1>2. /\ ~back.up /\ back.tx_cons = First /\ back.rx_cons = First /\ back.tx_old = NoPush /\ back.rx_old = NoPush
      /\ send.at = "free" /\ send.by = "none" /\ recv.at = "free" /\ ~Listening /\ irq = FALSE /\ bell = FALSE
  BY NoBackTyped, FreeTyped DEF Init, NoBack, Listening
<1>3. TxRequests!RingInit
  BY <1>1, <1>2, TxReqOps DEF TxRequests!RingInit
<1>4. RxRequests!RingInit
  BY <1>1, <1>2, RxReqOps DEF RxRequests!RingInit
<1>5. TxResponses!RingInit
  BY <1>1, <1>2, TxRspOps DEF TxResponses!RingInit
<1>6. RxResponses!RingInit
  BY <1>1, <1>2, RxRspOps DEF RxResponses!RingInit
<1>. QED  BY <1>3, <1>4, <1>5, <1>6

(* Each direction of both rings is a Ring: the network front end and its   *)
(* back end, across migrations and reconnections, take only the steps that *)
(* Ring allows of the producer and the consumer. *)
THEOREM NetImplementsRing ==
  ASSUME QuietClose, OneCpu
  PROVE  Spec => ImplementsRing
<1>1. Spec => [](Inv /\ Alone)
  BY NetAlone
<1>2. Init => TxRequests!RingInit /\ RxRequests!RingInit /\ TxResponses!RingInit /\ RxResponses!RingInit
  BY RingsStart
<1>3. Inv /\ [Next]_vars => [TxRequests!RingNext]_TxRequests!ringVars
  BY TxRequestsFollow
<1>4. Inv /\ [Next]_vars => [RxRequests!RingNext]_RxRequests!ringVars
  BY RxRequestsFollow
<1>5. Inv /\ [Next]_vars => [TxResponses!RingNext]_TxResponses!ringVars
  BY TxResponsesFollow
<1>6. Inv /\ Alone /\ [Next]_vars => [RxResponses!RingNext]_RxResponses!ringVars
  BY RxResponsesFollow
<1>. QED  BY <1>1, <1>2, <1>3, <1>4, <1>5, <1>6, PTL
     DEF Spec, ImplementsRing, TxRequests!RingSpec, RxRequests!RingSpec, TxResponses!RingSpec, RxResponses!RingSpec
--------------------------------------------------------------------------------
(* What RingProofs shows of Ring holds of each direction: no wake-up is    *)
(* lost. *)
TxRequestsP == INSTANCE RingProofs WITH
    prod <- tx.req_prod, cons <- back.tx_cons, event <- tx.req_event, bell <- bell,
    push <- send.at = "notify",
    old <- IF send.at = "notify" THEN send.old ELSE tx.req_prod,
    poll <- IF back.up THEN back.tx ELSE "down"

RxRequestsP == INSTANCE RingProofs WITH
    prod <- rx.req_prod, cons <- back.rx_cons, event <- rx.req_event, bell <- bell,
    push <- recv.at = "notify",
    old <- IF recv.at = "notify" THEN recv.old ELSE rx.req_prod,
    poll <- IF back.up THEN back.rx ELSE "down"

TxResponsesP == INSTANCE RingProofs WITH
    prod <- tx.rsp_prod, cons <- tx.cons, event <- tx.rsp_event, bell <- irq,
    push <- back.tx_old # NoPush,
    old <- IF back.tx_old # NoPush THEN back.tx_old ELSE tx.rsp_prod,
    poll <- IF ~Listening THEN "down"
            ELSE CASE send.at \in {"gc", "event"} -> "awake"
                   [] send.at = "recheck" -> "recheck"
                   [] OTHER -> "asleep"

RxResponsesP == INSTANCE RingProofs WITH
    prod <- rx.rsp_prod, cons <- rx.cons, event <- rx.rsp_event,
    bell <- irq \/ send.by = "irq",
    push <- back.rx_old # NoPush,
    old <- IF back.rx_old # NoPush THEN back.rx_old ELSE rx.rsp_prod,
    poll <- IF ~Listening \/ ~running \/ recv.by = "open" THEN "down"
            ELSE CASE recv.at = "check" -> "recheck"
                   [] napi = "idle" \/ recv.at = "complete" -> "asleep"
                   [] OTHER -> "awake"

LEMMA TxRequestsNotify == TxRequests!RingSpec => []TxRequests!NoLostNotify
<1>1. TxRequestsP!RingSpec => []TxRequestsP!NoLostNotify
  BY TxRequestsP!RingLosesNoNotification, RingAssumption
<1>2. TxRequestsP!RingInit <=> TxRequests!RingInit
  BY DEF TxRequestsP!RingInit, TxRequests!RingInit, TxRequestsP!Plus, TxRequests!Plus
<1>3. [TxRequestsP!RingNext]_TxRequestsP!ringVars <=> [TxRequests!RingNext]_TxRequests!ringVars
  BY DEF TxRequestsP!RingNext, TxRequests!RingNext, TxRequestsP!ringVars, TxRequests!ringVars,
         TxRequestsP!Push, TxRequests!Push, TxRequestsP!Consume, TxRequests!Consume, TxRequestsP!SetEvent,
         TxRequests!SetEvent, TxRequestsP!Notify, TxRequests!Notify, TxRequestsP!Recheck, TxRequests!Recheck,
         TxRequestsP!MaySleep, TxRequests!MaySleep, TxRequestsP!Wake, TxRequests!Wake, TxRequestsP!Bell,
         TxRequests!Bell, TxRequestsP!Down, TxRequests!Down, TxRequestsP!Up, TxRequests!Up,
         TxRequestsP!Reset, TxRequests!Reset, TxRequestsP!Plus, TxRequests!Plus, TxRequestsP!Minus,
         TxRequests!Minus, TxRequestsP!CheckNotify, TxRequests!CheckNotify, TxRequestsP!Index,
         TxRequests!Index
<1>4. TxRequestsP!NoLostNotify <=> TxRequests!NoLostNotify
  BY DEF TxRequestsP!NoLostNotify, TxRequests!NoLostNotify, TxRequestsP!Minus, TxRequests!Minus
<1>. QED  BY <1>1, <1>2, <1>3, <1>4, PTL DEF TxRequestsP!RingSpec, TxRequests!RingSpec

LEMMA RxRequestsNotify == RxRequests!RingSpec => []RxRequests!NoLostNotify
<1>1. RxRequestsP!RingSpec => []RxRequestsP!NoLostNotify
  BY RxRequestsP!RingLosesNoNotification, RingAssumption
<1>2. RxRequestsP!RingInit <=> RxRequests!RingInit
  BY DEF RxRequestsP!RingInit, RxRequests!RingInit, RxRequestsP!Plus, RxRequests!Plus
<1>3. [RxRequestsP!RingNext]_RxRequestsP!ringVars <=> [RxRequests!RingNext]_RxRequests!ringVars
  BY DEF RxRequestsP!RingNext, RxRequests!RingNext, RxRequestsP!ringVars, RxRequests!ringVars,
         RxRequestsP!Push, RxRequests!Push, RxRequestsP!Consume, RxRequests!Consume, RxRequestsP!SetEvent,
         RxRequests!SetEvent, RxRequestsP!Notify, RxRequests!Notify, RxRequestsP!Recheck, RxRequests!Recheck,
         RxRequestsP!MaySleep, RxRequests!MaySleep, RxRequestsP!Wake, RxRequests!Wake, RxRequestsP!Bell,
         RxRequests!Bell, RxRequestsP!Down, RxRequests!Down, RxRequestsP!Up, RxRequests!Up,
         RxRequestsP!Reset, RxRequests!Reset, RxRequestsP!Plus, RxRequests!Plus, RxRequestsP!Minus,
         RxRequests!Minus, RxRequestsP!CheckNotify, RxRequests!CheckNotify, RxRequestsP!Index,
         RxRequests!Index
<1>4. RxRequestsP!NoLostNotify <=> RxRequests!NoLostNotify
  BY DEF RxRequestsP!NoLostNotify, RxRequests!NoLostNotify, RxRequestsP!Minus, RxRequests!Minus
<1>. QED  BY <1>1, <1>2, <1>3, <1>4, PTL DEF RxRequestsP!RingSpec, RxRequests!RingSpec

LEMMA TxResponsesNotify == TxResponses!RingSpec => []TxResponses!NoLostNotify
<1>1. TxResponsesP!RingSpec => []TxResponsesP!NoLostNotify
  BY TxResponsesP!RingLosesNoNotification, RingAssumption
<1>2. TxResponsesP!RingInit <=> TxResponses!RingInit
  BY DEF TxResponsesP!RingInit, TxResponses!RingInit, TxResponsesP!Plus, TxResponses!Plus
<1>3. [TxResponsesP!RingNext]_TxResponsesP!ringVars <=> [TxResponses!RingNext]_TxResponses!ringVars
  BY DEF TxResponsesP!RingNext, TxResponses!RingNext, TxResponsesP!ringVars, TxResponses!ringVars,
         TxResponsesP!Push, TxResponses!Push, TxResponsesP!Consume, TxResponses!Consume,
         TxResponsesP!SetEvent, TxResponses!SetEvent, TxResponsesP!Notify, TxResponses!Notify,
         TxResponsesP!Recheck, TxResponses!Recheck, TxResponsesP!MaySleep, TxResponses!MaySleep,
         TxResponsesP!Wake, TxResponses!Wake, TxResponsesP!Bell, TxResponses!Bell, TxResponsesP!Down,
         TxResponses!Down, TxResponsesP!Up, TxResponses!Up, TxResponsesP!Reset, TxResponses!Reset,
         TxResponsesP!Plus, TxResponses!Plus, TxResponsesP!Minus, TxResponses!Minus,
         TxResponsesP!CheckNotify, TxResponses!CheckNotify, TxResponsesP!Index, TxResponses!Index
<1>4. TxResponsesP!NoLostNotify <=> TxResponses!NoLostNotify
  BY DEF TxResponsesP!NoLostNotify, TxResponses!NoLostNotify, TxResponsesP!Minus, TxResponses!Minus
<1>. QED  BY <1>1, <1>2, <1>3, <1>4, PTL DEF TxResponsesP!RingSpec, TxResponses!RingSpec

LEMMA RxResponsesNotify == RxResponses!RingSpec => []RxResponses!NoLostNotify
<1>1. RxResponsesP!RingSpec => []RxResponsesP!NoLostNotify
  BY RxResponsesP!RingLosesNoNotification, RingAssumption
<1>2. RxResponsesP!RingInit <=> RxResponses!RingInit
  BY DEF RxResponsesP!RingInit, RxResponses!RingInit, RxResponsesP!Plus, RxResponses!Plus
<1>3. [RxResponsesP!RingNext]_RxResponsesP!ringVars <=> [RxResponses!RingNext]_RxResponses!ringVars
  BY DEF RxResponsesP!RingNext, RxResponses!RingNext, RxResponsesP!ringVars, RxResponses!ringVars,
         RxResponsesP!Push, RxResponses!Push, RxResponsesP!Consume, RxResponses!Consume,
         RxResponsesP!SetEvent, RxResponses!SetEvent, RxResponsesP!Notify, RxResponses!Notify,
         RxResponsesP!Recheck, RxResponses!Recheck, RxResponsesP!MaySleep, RxResponses!MaySleep,
         RxResponsesP!Wake, RxResponses!Wake, RxResponsesP!Bell, RxResponses!Bell, RxResponsesP!Down,
         RxResponses!Down, RxResponsesP!Up, RxResponses!Up, RxResponsesP!Reset, RxResponses!Reset,
         RxResponsesP!Plus, RxResponses!Plus, RxResponsesP!Minus, RxResponses!Minus,
         RxResponsesP!CheckNotify, RxResponses!CheckNotify, RxResponsesP!Index, RxResponses!Index
<1>4. RxResponsesP!NoLostNotify <=> RxResponses!NoLostNotify
  BY DEF RxResponsesP!NoLostNotify, RxResponses!NoLostNotify, RxResponsesP!Minus, RxResponses!Minus
<1>. QED  BY <1>1, <1>2, <1>3, <1>4, PTL DEF RxResponsesP!RingSpec, RxResponses!RingSpec

--------------------------------------------------------------------------------
(* A queue stays stopped only with answers to come.                        *)
LEMMA TxNotStuckHolds ==
  ASSUME Inv, TxRequests!NoLostNotify, TxResponses!NoLostNotify
  PROVE  TxNotStuck
<1>. SUFFICES ASSUME Served, running, stopped, rtnl = "free", send = Free, ~irq, back.tx_old = NoPush,
                     tx.taken = {}
              PROVE  tx.reqs # <<>> /\ (back.tx # "asleep" \/ bell)
  BY DEF TxNotStuck
<1>1. TxOk(tx, back.tx_cons) /\ StackOk /\ SendOk /\ QueueOk /\ BackOk
  BY Parts
<1>2. tx \in TxRings /\ back.tx_cons \in Index
  BY <1>1 DEF TxOk
<1>3. send.at = "free" /\ carrier /\ link = "connected"
  BY FreeTyped DEF Served
<1>. DEFINE out == Outstanding(tx)
            ahead == Minus(tx.rsp_prod, tx.cons)
            event == Minus(tx.rsp_event, tx.cons)
            taken == Minus(back.tx_cons, tx.cons)
            waiting == Weigh(tx.reqs, Len(tx.reqs))
<1>4. out \in Nat /\ ahead \in Nat /\ event \in Nat /\ taken \in Nat
  BY <1>2, TxTyped, MinusType DEF Outstanding
<1>5. 1 <= out
  <2>1. ~(Outstanding(tx) < MaxTarget - MaxFrags - 2)
    BY <1>1 DEF QueueOk, SlotAvailable
  <2>. QED  BY <1>4, <2>1, Sizes, Constants
<1>6. event <= out \div 2 + 1
  BY <1>1, <1>3 DEF SendOk
<1>7. ahead < event
  <2>1. TxRspPoll = "asleep"
    BY <1>3, SMT DEF TxRspPoll, Listening
  <2>2. TxResponses!Minus(tx.rsp_prod, tx.cons) < TxResponses!Minus(tx.rsp_event, tx.cons)
    BY <2>1 DEF TxResponses!NoLostNotify, TxRspPoll
  <2>. QED  BY <2>2, TxRspOps
<1>8. taken = ahead /\ out = taken + waiting
  <2>1. taken = ahead + WeighSet({}) /\ out = taken + waiting
    BY <1>1 DEF TxOk, IndexOk
  <2>. HIDE DEF taken, ahead, out, waiting
  <2>. QED  BY <1>4, <2>1, WeighSetNone
<1>9. waiting \in Nat
  <2>1. Len(tx.reqs) \in Nat
    BY <1>2, TxTyped
  <2>. QED  BY <2>1, WeighTyped
<1>10. waiting # 0
  <2>. HIDE DEF out, ahead, event, taken, waiting
  <2>. QED  BY <1>4, <1>5, <1>6, <1>7, <1>8, <1>9
<1>11. tx.reqs # <<>>
  <2>1. Weigh(<<>>, Len(<<>>)) = 0
    <3>1. Len(<<>>) = 0
      OBVIOUS
    <3>. QED  BY <3>1, WeighTyped
  <2>. QED  BY <1>10, <2>1
<1>12. ASSUME back.tx = "asleep", ~bell
       PROVE  FALSE
  <2>1. back.up /\ send.at # "notify" /\ send.at # "push"
    BY <1>1, <1>3 DEF BackOk
  <2>2. TxRequests!Minus(tx.req_prod, back.tx_cons) < TxRequests!Minus(tx.req_event, back.tx_cons)
    BY <1>12, <2>1 DEF TxRequests!NoLostNotify
  <2>3. Minus(tx.req_prod, back.tx_cons) < Minus(tx.req_event, back.tx_cons)
    BY <2>2, TxReqOps
  <2>4. tx.req_event = Plus(back.tx_cons, 1) /\ tx.req_prod = tx.pvt
    BY <1>1, <1>12, <2>1 DEF BackOk, SendOk
  <2>5. Minus(tx.req_event, back.tx_cons) = 1
    BY <1>2, <2>4, PlusType, Sizes
  <2>6. tx.req_prod = back.tx_cons
    BY <1>2, <2>3, <2>5, TxTyped, MinusType
  <2>7. out = taken
    BY <2>4, <2>6 DEF Outstanding
  <2>. HIDE DEF out, taken, waiting
  <2>. QED  BY <1>4, <1>8, <1>9, <1>10, <2>7
<1>. QED  BY <1>11, <1>12

(* The stack's queue is not stopped for good: while it is stopped, an      *)
(* answer is still to come from a back end that is awake or about to be    *)
(* woken, or the driver is about to look (network_maybe_wake_tx).          *)
THEOREM QueueIsWoken ==
  ASSUME QuietClose
  PROVE  Spec => []TxNotStuck
<1>1. Spec => []Inv
  BY NetInv
<1>2. Init => TxRequests!RingInit /\ TxResponses!RingInit
  BY RingsStart
<1>3. Inv /\ [Next]_vars => [TxRequests!RingNext]_TxRequests!ringVars
  BY TxRequestsFollow
<1>4. Inv /\ [Next]_vars => [TxResponses!RingNext]_TxResponses!ringVars
  BY TxResponsesFollow
<1>5. Spec => TxRequests!RingSpec /\ TxResponses!RingSpec
  BY <1>1, <1>2, <1>3, <1>4, PTL DEF Spec, TxRequests!RingSpec, TxResponses!RingSpec
<1>6. Inv /\ TxRequests!NoLostNotify /\ TxResponses!NoLostNotify => TxNotStuck
  BY TxNotStuckHolds
<1>. QED  BY <1>1, <1>5, <1>6, TxRequestsNotify, TxResponsesNotify, PTL
--------------------------------------------------------------------------------
(* The front end keeps the back end in buffers.                            *)
(* The largest packet fits in what a poll leaves on the ring at least.     *)
RoomForOne == MaxSlots <= MinTarget /\ MaxSlots <= MinTarget - MinTarget \div 2 + 1

(* The indices have not wrapped between what is published and what is not. *)
NotWrapped == rx.req_prod <= rx.pvt

LEMMA StockedSame ==
  ASSUME Stocked, rx'.pvt = rx.pvt, rx'.cons = rx.cons, timer' = timer, carrier' /\ running' => carrier /\ running,
         napi = "sched" /\ recv.by \notin {"poll", "full"} => napi' = "sched" /\ recv'.by \notin {"poll", "full"}
  PROVE  Stocked'
  BY DEF Stocked, Enough, Outstanding

LEMMA StockedEnough ==
  ASSUME timer \/ Enough(rx), rx'.pvt = rx.pvt, rx'.cons = rx.cons, timer' = timer
  PROVE  Stocked'
  BY DEF Stocked, Enough, Outstanding

LEMMA StepStocked ==
  ASSUME OneCpu, Inv, Stocked, [Next]_vars
  PROVE  Stocked'
<1>. USE DEF napiVars, stackVars, linkVars
<1>1. send \in Senders /\ recv \in Receivers /\ rx \in RxRings /\ StackOk /\ RecvOk
  BY Parts DEF SendOk, RecvOk, RxOk
<1>2. CASE Transmit
  <2>1. UNCHANGED <<rx, recv, timer, carrier, running>>
    BY <1>2 DEF Transmit, StartXmit, XmitPush, XmitNotify, Interrupt, TxBufGc, TxSetEvent, TxRecheck
  <2>2. napi = "sched" => napi' = "sched"
    <3>1. CASE TxRecheck
      BY <3>1 DEF TxRecheck, Scheduled
    <3>2. CASE ~TxRecheck
      BY <1>2, <3>2 DEF Transmit, StartXmit, XmitPush, XmitNotify, Interrupt, TxBufGc, TxSetEvent
    <3>. QED  BY <3>1, <3>2
  <2>. QED  BY <2>1, <2>2, StockedSame
<1>3. CASE Receive
  <2>1. CASE Poll
    <3>1. timer' \in BOOLEAN /\ (~timer' => Enough(rx'))
      BY <2>1, PollRx
    <3>. QED  BY <3>1 DEF Stocked
  <2>2. CASE RxPush
    <3>1. UNCHANGED <<napi, timer, carrier, running>> /\ rx'.pvt = rx.pvt /\ rx'.cons = rx.cons /\ recv'.by = recv.by
      BY <1>1, <2>2 DEF RxPush, Receivers, RxRings
    <3>. QED  BY <3>1, StockedSame
  <2>3. CASE RxNotify
    <3>1. UNCHANGED <<rx, napi, timer, carrier, running>> /\ recv'.by = recv.by
      BY <1>1, <2>3 DEF RxNotify, Receivers
    <3>. QED  BY <3>1, StockedSame
  <2>4. CASE PollAgain \/ PollComplete
    <3>1. UNCHANGED <<rx, timer, carrier, running>> /\ recv.by \in {"poll", "full"}
      BY <1>1, <2>4 DEF PollAgain, PollComplete, RecvOk
    <3>2. CASE carrier /\ running
      BY <3>1, <3>2, StockedEnough DEF Stocked
    <3>3. CASE ~carrier \/ ~running
      BY <3>1, <3>3 DEF Stocked
    <3>. QED  BY <3>2, <3>3
  <2>5. CASE PollLook \/ PollCheck
    <3>1. UNCHANGED <<rx, timer, carrier, running>> /\ recv.by = "poll"
      BY <2>5 DEF PollLook, PollCheck
    <3>2. CASE carrier /\ running
      BY <3>1, <3>2, StockedEnough DEF Stocked
    <3>3. CASE ~carrier \/ ~running
      BY <3>1, <3>3 DEF Stocked
    <3>. QED  BY <3>2, <3>3
  <2>6. CASE RxSetEvent
    <3>1. UNCHANGED <<napi, timer, carrier, running>> /\ rx'.pvt = rx.pvt /\ rx'.cons = rx.cons /\ recv'.by = recv.by
      BY <1>1, <2>6 DEF RxSetEvent, Receivers, RxRings
    <3>. QED  BY <3>1, StockedSame
  <2>7. CASE RefillTimeout
    <3>1. UNCHANGED <<carrier, running, recv>> /\ recv.by \notin {"poll", "full"} /\ napi' = Scheduled
      BY <2>7 DEF RefillTimeout
    <3>2. running => napi' = "sched"
      BY <1>1, <3>1 DEF StackOk, Scheduled
    <3>. QED  BY <3>1, <3>2 DEF Stocked
  <2>. QED  BY <1>3, <2>1, <2>2, <2>3, <2>4, <2>5, <2>6, <2>7 DEF Receive
<1>4. CASE Stack
  <2>1. CASE Open
    <3>1. UNCHANGED carrier
      BY <2>1 DEF Open
    <3>2. CASE carrier
      <4>1. timer' \in BOOLEAN /\ (~timer' => Enough(rx'))
        BY <2>1, <3>2, OpenRx
      <4>. QED  BY <4>1 DEF Stocked
    <3>. QED  BY <3>1, <3>2 DEF Stocked
  <2>2. CASE OpenCheck
    <3>1. UNCHANGED <<rx, timer, carrier, running>> /\ recv'.by = "none" /\ (napi = "sched" => napi' = "sched")
      BY <2>2, FreeTyped DEF OpenCheck, Scheduled
    <3>. QED  BY <3>1, StockedSame
  <2>3. CASE OpenEnd
    BY <2>3, StockedSame DEF OpenEnd
  <2>4. CASE Close
    BY <2>4 DEF Close, Stocked
  <2>5. CASE CloseEnd
    <3>1. ~running' /\ ~running
      BY <1>1, <2>5 DEF CloseEnd, StackOk
    <3>. QED  BY <3>1 DEF Stocked
  <2>. QED  BY <1>4, <2>1, <2>2, <2>3, <2>4, <2>5 DEF Stack
<1>5. CASE Link
  <2>1. CASE Migrate \/ UpdateFeatures \/ BackendConnect
    BY <2>1, StockedSame DEF Migrate, UpdateFeatures, BackendConnect
  <2>2. CASE Resume
    BY <2>2 DEF Resume, Stocked
  <2>3. CASE NetworkConnect
    <3>1. timer' \in BOOLEAN /\ (~timer' => Enough(rx'))
      BY <2>3, Reconnected
    <3>. QED  BY <3>1 DEF Stocked
  <2>. QED  BY <1>5, <2>1, <2>2, <2>3 DEF Link
<1>6. CASE Backend
  <2>1. UNCHANGED <<recv, napi, timer, carrier, running>>
    BY <1>6 DEF Backend, BackTake, BackAnswer, BackNotifyTx, BackSleepTx, BackRecheckTx, BackDeliver, BackNotifyRx,
       BackSleepRx, BackRecheckRx, BackWake
  <2>2. CASE BackDeliver
    <3>1. PICK m \in Messages : rx' = [rx EXCEPT !.rsps = Append(@, m), !.rsp_prod = Plus(@, Slots(m))]
      BY <2>2 DEF BackDeliver
    <3>2. rx'.pvt = rx.pvt /\ rx'.cons = rx.cons
      BY <1>1, <3>1 DEF RxRings
    <3>. QED  BY <2>1, <3>2, StockedSame
  <2>3. CASE BackSleepRx
    <3>1. rx'.pvt = rx.pvt /\ rx'.cons = rx.cons
      BY <1>1, <2>3 DEF BackSleepRx, RxRings
    <3>. QED  BY <2>1, <3>1, StockedSame
  <2>4. CASE ~BackDeliver /\ ~BackSleepRx
    <3>1. UNCHANGED rx
      BY <1>6, <2>4 DEF Backend, BackTake, BackAnswer, BackNotifyTx, BackSleepTx, BackRecheckTx, BackNotifyRx,
         BackRecheckRx, BackWake
    <3>. QED  BY <2>1, <3>1, StockedSame
  <2>. QED  BY Zenon, <2>2, <2>3, <2>4
<1>7. CASE UNCHANGED vars
  BY <1>7, StockedSame DEF vars
<1>. QED  BY <1>2, <1>3, <1>4, <1>5, <1>6, <1>7 DEF Next

LEMMA PostedSame ==
  ASSUME Posted, rx'.pvt = rx.pvt, rx'.req_prod = rx.req_prod, recv'.at # "push" => recv.at # "push"
  PROVE  Posted'
  BY DEF Posted

LEMMA PostedNone ==
  ASSUME ~(rx'.pvt > rx'.req_prod), NotWrapped', RxOk(rx')
  PROVE  Posted'
<1>1. rx'.pvt \in Index /\ rx'.req_prod \in Index
  BY RxTyped DEF RxOk
<1>2. rx'.pvt \in Nat /\ rx'.req_prod \in Nat
  BY <1>1, Constants
<1>. QED  BY <1>2 DEF Posted, NotWrapped

LEMMA StepPosted ==
  ASSUME Inv, Posted, NotWrapped', [Next]_vars
  PROVE  Posted'
<1>. USE DEF napiVars, stackVars, linkVars
<1>1. recv \in Receivers /\ rx \in RxRings /\ StackOk /\ RecvOk
  BY Parts DEF RecvOk, RxOk
<1>2. CASE Transmit
  <2>1. UNCHANGED <<rx, recv>>
    BY <1>2 DEF Transmit, StartXmit, XmitPush, XmitNotify, Interrupt, TxBufGc, TxSetEvent, TxRecheck
  <2>. QED  BY <2>1, PostedSame
<1>3. CASE Receive
  <2>1. CASE Poll
    <3>1. /\ RxOk(rx') /\ recv'.at \in {"push", "final"}
          /\ (recv'.at = "final" => ~(rx'.pvt > rx'.req_prod))
      BY <2>1, PollRx
    <3>. QED  BY <3>1, PostedNone DEF Posted
  <2>2. CASE RxPush
    <3>1. rx'.req_prod = rx'.pvt
      BY <1>1, <2>2 DEF RxPush, RxRings
    <3>. QED  BY <3>1 DEF Posted
  <2>3. CASE RxNotify
    BY <2>3, PostedSame DEF RxNotify
  <2>4. CASE PollAgain \/ PollLook \/ PollCheck \/ PollComplete
    BY <2>4, PostedSame DEF PollAgain, PollLook, PollCheck, PollComplete
  <2>5. CASE RxSetEvent
    <3>1. rx'.pvt = rx.pvt /\ rx'.req_prod = rx.req_prod /\ recv.at # "push"
      BY <1>1, <2>5 DEF RxSetEvent, RxRings
    <3>. QED  BY <3>1, PostedSame
  <2>6. CASE RefillTimeout
    BY <2>6, PostedSame DEF RefillTimeout
  <2>. QED  BY <1>3, <2>1, <2>2, <2>3, <2>4, <2>5, <2>6 DEF Receive
<1>4. CASE Stack
  <2>1. CASE Open
    <3>1. CASE carrier
      <4>1. /\ RxOk(rx') /\ recv'.at \in {"push", "final"}
            /\ (recv'.at = "final" => ~(rx'.pvt > rx'.req_prod))
        BY <2>1, <3>1, OpenRx
      <4>. QED  BY <4>1, PostedNone DEF Posted
    <3>2. CASE ~carrier
      BY <2>1, <3>2, PostedSame DEF Open
    <3>. QED  BY <3>1, <3>2
  <2>2. CASE OpenCheck
    BY <2>2, PostedSame DEF OpenCheck
  <2>3. CASE OpenEnd \/ Close \/ CloseEnd
    BY <2>3, PostedSame DEF OpenEnd, Close, CloseEnd
  <2>. QED  BY <1>4, <2>1, <2>2, <2>3 DEF Stack
<1>5. CASE Link
  <2>1. CASE NetworkConnect
    BY <2>1, Reconnected, PostedNone
  <2>2. CASE ~NetworkConnect
    BY <1>5, <2>2, PostedSame DEF Link, Migrate, Resume, UpdateFeatures, BackendConnect
  <2>. QED  BY <2>1, <2>2
<1>6. CASE Backend
  <2>1. UNCHANGED recv
    BY <1>6 DEF Backend, BackTake, BackAnswer, BackNotifyTx, BackSleepTx, BackRecheckTx, BackDeliver, BackNotifyRx,
       BackSleepRx, BackRecheckRx, BackWake
  <2>2. CASE BackDeliver
    <3>1. PICK m \in Messages : rx' = [rx EXCEPT !.rsps = Append(@, m), !.rsp_prod = Plus(@, Slots(m))]
      BY <2>2 DEF BackDeliver
    <3>2. rx'.pvt = rx.pvt /\ rx'.req_prod = rx.req_prod
      BY <1>1, <3>1 DEF RxRings
    <3>. QED  BY <2>1, <3>2, PostedSame
  <2>3. CASE BackSleepRx
    <3>1. rx'.pvt = rx.pvt /\ rx'.req_prod = rx.req_prod
      BY <1>1, <2>3 DEF BackSleepRx, RxRings
    <3>. QED  BY <2>1, <3>1, PostedSame
  <2>4. CASE ~BackDeliver /\ ~BackSleepRx
    <3>1. UNCHANGED rx
      BY <1>6, <2>4 DEF Backend, BackTake, BackAnswer, BackNotifyTx, BackSleepTx, BackRecheckTx, BackNotifyRx,
         BackRecheckRx, BackWake
    <3>. QED  BY <2>1, <3>1, PostedSame
  <2>. QED  BY Zenon, <2>2, <2>3, <2>4
<1>7. CASE UNCHANGED vars
  BY <1>7, PostedSame DEF vars
<1>. QED  BY <1>2, <1>3, <1>4, <1>5, <1>6, <1>7 DEF Next

LEMMA RxNotStuckHolds ==
  ASSUME Inv, RxResponses!NoLostNotify
  PROVE  RxNotStuck
<1>. SUFFICES ASSUME Served, running, rtnl = "free", Unconsumed(rx), napi = "idle",
                     ~irq, back.rx_old = NoPush, send.by # "irq"
              PROVE  FALSE
  BY DEF RxNotStuck
<1>1. RecvOk /\ rx \in RxRings /\ carrier /\ link = "connected"
  BY Parts DEF RxOk, Served
<1>2. recv.by # "open" /\ recv.at # "check"
  BY <1>1 DEF RecvOk
<1>3. RxRspPoll = "asleep"
  BY <1>1, <1>2, RxRspPollAt DEF Listening
<1>4. RxResponses!Minus(rx.rsp_prod, rx.cons) < RxResponses!Minus(rx.rsp_event, rx.cons)
  BY <1>3 DEF RxResponses!NoLostNotify, RxRspPoll
<1>5. Minus(rx.rsp_prod, rx.cons) < Minus(rx.rsp_event, rx.cons)
  BY <1>4, RxRspOps
<1>6. rx.rsp_event = Plus(rx.cons, 1)
  BY <1>1, <1>2 DEF RecvOk
<1>7. Minus(rx.rsp_event, rx.cons) = 1
  BY <1>1, <1>6, RxTyped, PlusType, Sizes
<1>8. rx.rsp_prod = rx.cons
  BY <1>1, <1>5, <1>7, RxTyped, MinusType
<1>. QED  BY <1>8 DEF Unconsumed

LEMMA RxFedHolds ==
  ASSUME RoomForOne, Inv, Stocked, Posted, RxRequests!NoLostNotify
  PROVE  RxFed
<1>. SUFFICES ASSUME Served, running, rtnl = "free", back.rx = "asleep", ~bell,
                     ~timer, ~Unconsumed(rx), napi # "sched", recv = Free
              PROVE  FALSE
  BY DEF RxFed
<1>1. BackOk /\ rx \in RxRings /\ carrier /\ link = "connected" /\ recv.at = "free"
  BY Parts, FreeTyped DEF RxOk, Served
<1>2. Enough(rx) /\ rx.req_prod = rx.pvt
  BY <1>1 DEF Stocked, Posted
<1>3. back.up /\ back.rx_cons = rx.cons /\ rx.req_event = Plus(rx.cons, MaxSlots)
  BY <1>1 DEF BackOk, Unconsumed
<1>4. RxRequests!Minus(rx.req_prod, back.rx_cons) < RxRequests!Minus(rx.req_event, back.rx_cons)
  BY <1>1, <1>3 DEF RxRequests!NoLostNotify
<1>5. Minus(rx.pvt, rx.cons) < Minus(rx.req_event, rx.cons)
  BY <1>2, <1>3, <1>4, RxReqOps
<1>6. Minus(rx.req_event, rx.cons) = MaxSlots
  <2>1. MaxSlots \in 0..RingSize + 1
    BY MaxSlotsTyped, Sizes
  <2>. QED  BY <1>1, <1>3, <2>1, RxTyped, PlusType
<1>7. Outstanding(rx) < MaxSlots /\ Outstanding(rx) \in Nat
  BY <1>1, <1>5, <1>6, RxTyped, MinusType DEF Outstanding
<1>8. MaxSlots <= MinTarget /\ MaxSlots <= MinTarget - MinTarget \div 2 + 1 /\ MinTarget \in Nat /\ MaxSlots \in Nat
  BY MaxSlotsTyped, Constants DEF RoomForOne
<1>9. MinTarget <= Outstanding(rx) \/ MinTarget - MinTarget \div 2 + 1 <= Outstanding(rx)
  BY <1>2 DEF Enough
<1>. DEFINE out == Outstanding(rx)
<1>. HIDE DEF out
<1>10. out < MaxSlots /\ out \in Nat /\ (MinTarget <= out \/ MinTarget - MinTarget \div 2 + 1 <= out)
  BY <1>7, <1>9 DEF out
<1>. QED  BY <1>8, <1>10

(* Packets that have arrived are polled: no wake-up from the back end is   *)
(* lost on the receive ring. *)
THEOREM PacketsArePolled ==
  ASSUME QuietClose, OneCpu
  PROVE  Spec => []RxNotStuck
<1>1. Spec => [](Inv /\ Alone)
  BY NetAlone
<1>2. Init => RxResponses!RingInit
  BY RingsStart
<1>3. Inv /\ Alone /\ [Next]_vars => [RxResponses!RingNext]_RxResponses!ringVars
  BY RxResponsesFollow
<1>4. Spec => RxResponses!RingSpec
  BY <1>1, <1>2, <1>3, PTL DEF Spec, RxResponses!RingSpec
<1>5. Inv /\ RxResponses!NoLostNotify => RxNotStuck
  BY RxNotStuckHolds
<1>. QED  BY <1>1, <1>4, <1>5, RxResponsesNotify, PTL

(* Neither side waits for the other on the receive ring, as long as the    *)
(* largest packet fits in the buffers a poll leaves and the indices do not *)
(* wrap. *)
THEOREM ReceiveRingAlive ==
  ASSUME QuietClose, OneCpu, RoomForOne
  PROVE  Spec /\ []NotWrapped => []RxAlive
<1>1. Spec => [](Inv /\ Alone)
  BY NetAlone
<1>2. Init => RxRequests!RingInit
  BY RingsStart
<1>3. Inv /\ [Next]_vars => [RxRequests!RingNext]_RxRequests!ringVars
  BY RxRequestsFollow
<1>4. Spec => RxRequests!RingSpec
  BY <1>1, <1>2, <1>3, PTL DEF Spec, RxRequests!RingSpec
<1>5. Init => Stocked /\ Posted
  BY DEF Init, Stocked, Posted
<1>6. Inv /\ Stocked /\ [Next]_vars => Stocked'
  BY StepStocked
<1>7. Inv /\ Posted /\ NotWrapped' /\ [Next]_vars => Posted'
  BY StepPosted
<1>8. Spec /\ []NotWrapped => [](Stocked /\ Posted)
  BY <1>1, <1>5, <1>6, <1>7, PTL DEF Spec
<1>9. Inv /\ Stocked /\ Posted /\ RxRequests!NoLostNotify => RxFed
  BY RxFedHolds
<1>10. RxNotStuck /\ RxFed => RxAlive
  BY DEF RxAlive
<1>. QED  BY <1>1, <1>4, <1>8, <1>9, <1>10, RxRequestsNotify, PacketsArePolled, PTL
================================================================================
