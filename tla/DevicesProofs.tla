----------------------------- MODULE DevicesProofs ----------------------------
(***************************************************************************)
(* Proofs about Devices, for any set of devices, any bound on the waiting  *)
(* events, and any environments in which the host keeps to GoodHost: no    *)
(* bug that the kernel would stop at, no directory brought back, and no    *)
(* change of a back end missed.                                            *)
(*                                                                         *)
(* None of them is inductive.  Two threads own a device in turn and see    *)
(* its directory and each other late, so the invariant (Inv) says for each *)
(* device what its struct may still say while its directory has gone or is *)
(* another (DevOk), what xenwatch knows of the device it is busy with      *)
(* (BusyOk), what the resuming thread knows of those it has still to come  *)
(* to (ResumeOk, InOrder), and that whatever the driver has not followed   *)
(* yet is in the queue or in xenwatch's hands (FollowOk).  There is one    *)
(* lemma for each action, that it keeps Inv.                               *)
(***************************************************************************)
EXTENDS Devices, SequenceTheorems, FiniteSetTheorems, TLAPS

(* What the theorems assume of the host: the tools delete what they like,  *)
(* and back ends answer when they like, but nothing else that is listed at *)
(* Cases happens; Devices breaks one of the properties with each of those. *)
GoodHost == \A c \in Cases : c.may \subseteq {"sudden", "gone", "slow"}

Entry == [there : BOOLEAN, gen : Nat, front : States, back : States,
          keys : {"none", "old", "current"}, mapped : {"none", "old", "current"}]
Device == [on : {"none", "plain", "probing", "bound", "failed", "leaving"},
           gen : Nat, state : States, otherend : Nat,
           watch : {"none", "on", "going"}, ring : BOOLEAN]
Left == [start : [Nodes -> {"none", "new", "connected", "closed"}], creates : Nat, unplugs : Nat,
         migrations : Nat, failures : Nat, may : SUBSET {"sudden", "gone", "slow"}]

(* Where xenwatch, the thread that resumes and the boot are.               *)
XwSteps == {"probe", "details", "bind", "fatal", "unfit", "remove", "close",
            "connect", "connected", "closed"}
SusSteps == {"unwatch", "wait", "details", "fatal", "restart", "watch"}
XwOk == xw = Idle \/ \E w \in XwSteps, n \in Nodes : xw = <<w, n>>
SusOk == sus \in {Idle, <<"stopped">>, <<"rewatch">>, <<"resume">>}
         \/ \E w \in SusSteps, n \in Nodes : sus = <<w, n>>
BootOk ==
    \/ boot \in {<<"enumerate">>, <<"watch">>, <<"done">>}
    \/ \E S \in SUBSET Nodes : boot = <<"reset", S>>
    \/ \E w \in {"write", "wait"}, S \in SUBSET Nodes, n \in Nodes,
          to \in {"Closing", "Closed", "Initialising"} : boot = <<w, S, n, to>>

Busy(w, n) == xw = <<w, n>>
Stage(w, n) == sus = <<w, n>>

Shapes ==
    /\ store \in [Nodes -> Entry] /\ dev \in [Nodes -> Device]
    /\ bus \in Seq(Nodes) /\ queue \in Seq(Events)
    /\ fe \in BOOLEAN /\ loaded \in BOOLEAN /\ resumed \subseteq Nodes /\ bug = FALSE
    /\ path \in Nat \ {0} /\ left \in Left
    /\ XwOk /\ SusOk /\ BootOk

Queued == {queue[i] : i \in 1 .. Len(queue)}
Listed(d) == d.on \in {"plain", "probing", "bound", "failed"}
BusOk ==
    /\ \A i, j \in 1 .. Len(bus) : bus[i] = bus[j] => i = j
    /\ \A n \in Nodes : OnBus(n) <=> Listed(dev[n])

(* A directory is there with both states or not at all; the guest is never *)
(* in InitWait.                                                            *)
EntryOk(s) ==
    /\ s.there <=> s.front # "Unknown"
    /\ s.there <=> s.back # "Unknown"
    /\ s.front # "InitWait"

(* Before the drivers: nobody acts but the boot.                           *)
Early ==
    /\ \A n \in Nodes : boot[1] \in {"write", "wait"} /\ boot[3] = n => store[n].there
    /\ boot # <<"done">> => ~fe /\ ~loaded /\ xw = Idle /\ queue = <<>>
    /\ boot \notin {<<"watch">>, <<"done">>} => bus = <<>>
    /\ boot = <<"done">> => fe
    /\ sus = <<"stopped">> => left.migrations > 0
    /\ ~loaded => sus = Idle /\ \A n \in Nodes : dev[n].on \in {"none", "plain"}

(* The resume, from Migrate on.  n is pending until it has been reset.     *)
Calm == sus \in {Idle, <<"stopped">>}
Fading(n) == Stage("details", n) \/ Stage("fatal", n)
Restarting(n) == Stage("restart", n) \/ Stage("watch", n)
Unwatched(n) == Fading(n) \/ Restarting(n)
At(n) == Stage("unwatch", n) \/ Stage("wait", n) \/ Unwatched(n)
Walking == sus = <<"resume">> \/ \E n \in Nodes : At(n)
Pending(n) == sus = <<"rewatch">> \/ At(n) \/ (Walking /\ n \notin resumed)

(* A device, from its directory to the driver.                             *)
InProbe(n) == Busy("details", n) \/ Busy("bind", n) \/ Busy("fatal", n) \/ Busy("unfit", n)
Probes == \E n \in Nodes : InProbe(n)
Working(n) == Busy("connect", n) \/ Busy("connected", n) \/ Busy("closed", n)
DevOk(n) ==
    /\ dev[n].on # "none" => dev[n].gen = store[n].gen
    /\ dev[n].on = "none" => dev[n] = NoDevice
    /\ dev[n].on # "bound" => dev[n].watch = "none" /\ ~dev[n].ring
    /\ dev[n].otherend <= path
    /\ dev[n].on \in {"plain", "probing"} =>
         dev[n].state = "Initialising" /\ (store[n].there => store[n].front = "Initialising")
    /\ dev[n].on = "bound" => dev[n].state \in {"Initialising", "Connected", "Closing", "Closed"}
    /\ dev[n].on = "plain" /\ loaded => Probes
    /\ Listed(dev[n]) /\ ~store[n].there =>
         fe /\ (Event("device", n) \in Queued \/ Busy("remove", n))
    /\ dev[n].on = "bound" /\ store[n].there /\ ~At(n) => dev[n].watch = "on"
    /\ Event("otherend", n) \in Queued => dev[n].on = "bound"

(* What xenwatch knows of the device it is busy with.                      *)
BusyOk(n) ==
    /\ Busy("probe", n) => Calm /\ dev[n].on = "none"
    /\ InProbe(n) => Calm /\ loaded
    /\ InProbe(n) <=> dev[n].on = "probing"
    /\ Busy("bind", n) => dev[n].otherend = path
    /\ Busy("remove", n) => ~store[n].there /\ Listed(dev[n])
    /\ Busy("close", n) <=> dev[n].on = "leaving"
    /\ (Busy("remove", n) \/ Busy("close", n)) => Calm \/ Fading(n)
    /\ (Busy("connect", n) \/ Busy("connected", n)) =>
         /\ dev[n].on = "bound" /\ dev[n].state = "Initialising" /\ ~Pending(n)
         /\ store[n].there => store[n].back = "InitWait" \/ Event("otherend", n) \in Queued
    /\ Busy("connect", n) => store[n].there /\ ~dev[n].ring
    /\ Busy("closed", n) =>
         /\ dev[n].on = "bound" /\ ~Unwatched(n)
         /\ store[n].there =>
              \/ store[n].back \in {"Closing", "Closed"}
              \/ store[n].front = "Initialising" /\ ~Pending(n)
    /\ dev[n].on = "bound" /\ dev[n].state = "Initialising" /\ dev[n].ring => Busy("connected", n)

(* What the thread that resumes knows of each, and of the one it is at.    *)
ResumeOk(n) ==
    /\ ~Calm => /\ loaded /\ (dev[n].on \in {"none", "bound", "failed"} \/ Fading(n))
                /\ store[n].there => dev[n].on \in {"bound", "failed"}
                /\ ~store[n].there => ~Listed(dev[n]) \/ Fading(n)
    /\ At(n) => n \in resumed /\ dev[n].on \in {"none", "bound", "leaving"}
    /\ At(n) => store[n].there \/ (Fading(n) /\ \A i \in 1 .. Len(bus) : bus[i] \in resumed)
    /\ Stage("fatal", n) => ~store[n].there
    /\ Stage("unwatch", n) => dev[n].watch = "on"
    /\ Stage("wait", n) <=> dev[n].watch = "going"
    /\ Unwatched(n) => dev[n].watch = "none" /\ Event("otherend", n) \notin Queued /\ ~Working(n)
    /\ Stage("watch", n) => dev[n].state = "Initialising" /\ ~dev[n].ring
    /\ Restarting(n) => dev[n].otherend = path
    /\ Pending(n) /\ dev[n].on = "bound" /\ dev[n].otherend = path /\ dev[n].state = "Initialising"
         => Restarting(n)
    /\ Pending(n) /\ dev[n].on = "bound" /\ store[n].there =>
         \/ /\ store[n].front = "Initialising"
            /\ store[n].back \in {"Initialising", "InitWait", "Closing"}
         \/ store[n].front = "Closed" /\ store[n].back \in {"Closing", "Closed"}

(* The devices resumed are the first on the bus. *)
InOrder == Walking =>
    \A i, j \in 1 .. Len(bus) : i < j /\ bus[j] \in resumed => bus[i] \in resumed

(* The driver follows the other end, or is about to look. *)
FollowOk(n) == dev[n].on = "bound" /\ store[n].there /\ ~Pending(n) =>
    /\ dev[n].otherend = path
    /\ \/ dev[n].state = store[n].front
       \/ /\ dev[n].state = "Initialising" /\ store[n].front = "Closed"
          /\ store[n].back \in {"Closing", "Closed"}
          /\ Event("otherend", n) \in Queued \/ Busy("closed", n)
    /\ \/ Answer(store[n].back, dev[n].state) = "nothing"
       \/ Event("otherend", n) \in Queued \/ Working(n)

NodeOk(n) == EntryOk(store[n]) /\ DevOk(n) /\ BusyOk(n) /\ ResumeOk(n) /\ FollowOk(n)
Inv == Shapes /\ BusOk /\ Early /\ InOrder /\ \A n \in Nodes : NodeOk(n)
--------------------------------------------------------------------------------
(* Induction over numbers without an operator for a parameter, and what    *)
(* follows for a recursive function.                                       *)

(* A set of naturals has a least element: as k grows, 0..k does.           *)
LEMMA LeastElement ==
  ASSUME NEW T, T \subseteq Nat, T # {}
  PROVE  \E x \in T : \A y \in T : x <= y
<1>. DEFINE R == StrictSubsetOrdering(Nat)
            S == FiniteSubsetsOf(Nat)
            U == {0..k : k \in T}
<1>1. IsWellFoundedOn(R, S)
  BY FS_StrictSubsetOrderingWellFounded
<1>2. U \subseteq S /\ U # {}
  <2>1. \A k \in T : IsFiniteSet(0..k) /\ 0..k \in SUBSET Nat
    BY FS_Interval
  <2>. QED  BY <2>1 DEF FiniteSubsetsOf
<1>3. \E u \in U : \A v \in U : ~ (<<v, u>> \in R)
  <2>. HIDE DEF R, S, U
  <2>. QED  BY <1>1, <1>2, WFMin
<1>4. PICK x \in T : \A y \in T : ~ (<<0..y, 0..x>> \in R)
  BY <1>3
<1>5. ASSUME NEW y \in T, y < x PROVE FALSE
  <2>1. 0..y \subseteq 0..x /\ x \in 0..x /\ x \notin 0..y
    BY <1>5
  <2>2. 0..y \in SUBSET Nat /\ 0..x \in SUBSET Nat /\ 0..y # 0..x
    BY <2>1
  <2>3. <<0..y, 0..x>> \in R
    BY <2>1, <2>2 DEF StrictSubsetOrdering
  <2>. QED  BY <2>3, <1>4
<1>. QED  BY <1>5

(* Induction up to m, on the set of numbers it has been shown for.         *)
LEMMA UpTo ==
  ASSUME NEW m \in Nat, NEW T, 0 \in T, \A n \in 1..m : n - 1 \in T => n \in T
  PROVE  \A n \in 0..m : n \in T
<1>. DEFINE Rest == (0..m) \ T
<1>1. SUFFICES ASSUME Rest # {} PROVE FALSE
  OBVIOUS
<1>2. Rest \subseteq Nat
  OBVIOUS
<1>3. \E x \in Rest : \A y \in Rest : x <= y
  <2>. HIDE DEF Rest
  <2>. QED  BY <1>1, <1>2, LeastElement
<1>4. PICK x \in Rest : \A y \in Rest : x <= y
  BY <1>3
<1>5. x \in 1..m /\ x - 1 \in 0..m /\ ~(x <= x - 1)
  OBVIOUS
<1>6. x - 1 \in T
  BY <1>4, <1>5
<1>. QED  BY <1>5, <1>6

(* A function may be defined by what it is at 0 and its step F.            *)
Recursion(g, m, e, F) == g[0] = e /\ \A i \in 1..m : g[i] = F[<<g[i - 1], i>>]

(* Such a function exists, whatever the step is.                           *)
LEMMA RecursionWorks ==
  ASSUME NEW m \in Nat, NEW S, NEW e \in S, NEW F \in [S \X (1..m) -> S]
  PROVE  \E g \in [0..m -> S] : Recursion(g, m, e, F)
<1>. DEFINE Rec(n, g) == Recursion(g, n, e, F)
            T == {n \in 0..m : \E g \in [0..n -> S] : Rec(n, g)}
<1>1. 0 \in T
  <2>. DEFINE h == [i \in 0..0 |-> e]
  <2>1. h \in [0..0 -> S] /\ h[0] = e
    OBVIOUS
  <2>2. 1..0 = {} /\ 0 \in 0..m
    OBVIOUS
  <2>. HIDE DEF h
  <2>. QED  BY <2>1, <2>2 DEF Recursion
<1>2. ASSUME NEW n \in 1..m, n - 1 \in T PROVE n \in T
  <2>1. PICK g \in [0..(n - 1) -> S] : Rec(n - 1, g)
    BY <1>2
  <2>. DEFINE h == [i \in 0..n |-> IF i = n THEN F[<<g[n - 1], n>>] ELSE g[i]]
  <2>2. n - 1 \in 0..(n - 1) /\ \A i \in 0..n : i # n => i \in 0..(n - 1)
    OBVIOUS
  <2>3. h \in [0..n -> S]
    BY <2>1, <2>2
  <2>4. \A i \in 0..(n - 1) : h[i] = g[i]
    OBVIOUS
  <2>5. h[n] = F[<<g[n - 1], n>>]
    OBVIOUS
  <2>6. h[0] = e
    BY <2>1, <2>4 DEF Recursion
  <2>7. ASSUME NEW i \in 1..n PROVE h[i] = F[<<h[i - 1], i>>]
    <3>. HIDE DEF h
    <3>1. h[i - 1] = g[i - 1]
      BY <2>4
    <3>2. CASE i = n
      BY <2>5, <3>1, <3>2
    <3>3. CASE i # n
      <4>1. i \in 1..(n - 1) /\ i \in 0..(n - 1)
        BY <3>3
      <4>. QED BY <2>1, <2>4, <3>1, <4>1 DEF Recursion
    <3>. QED  BY <3>2, <3>3
  <2>. HIDE DEF h
  <2>8. Rec(n, h)
    BY <2>6, <2>7 DEF Recursion
  <2>. QED  BY <2>3, <2>8
<1>. HIDE DEF T
<1>3. m \in 0..m /\ \A n \in 0..m : n \in T
  BY <1>1, <1>2, UpTo
<1>. QED  BY <1>3 DEF T

--------------------------------------------------------------------------------
(* A loop of m steps, each from what is allowed after i - 1 steps to what  *)
(* is allowed after i.                                                     *)
Runs(g, m, e, N, I) ==
    /\ g[0] = e /\ \A i \in 1..m : g[i] = N[<<g[i - 1], i>>]
    /\ \A i \in 0..m : g[i] \in I[i]

(* A loop with an invariant has a run in which it holds throughout.        *)
LEMMA LoopRuns ==
  ASSUME NEW m \in Nat, NEW S, NEW e, NEW N, NEW I \in [0..m -> SUBSET S],
         e \in I[0], \A i \in 1..m : \A x \in I[i - 1] : N[<<x, i>>] \in I[i]
  PROVE  \E g \in [0..m -> S] : Runs(g, m, e, N, I)
<1>. DEFINE F == [p \in S \X (1..m) |-> IF N[p] \in S THEN N[p] ELSE p[1]]
<1>1. F \in [S \X (1..m) -> S]
  OBVIOUS
<1>2. 0 \in 0..m /\ e \in S
  OBVIOUS
<1>3. \E g \in [0..m -> S] : Recursion(g, m, e, F)
  <2>. HIDE DEF F
  <2>. QED  BY <1>1, <1>2, RecursionWorks
<1>. PICK g \in [0..m -> S] : Recursion(g, m, e, F)
  BY <1>3
<1>4. \A i \in 1..m : i - 1 \in 0..m /\ i \in 0..m
  OBVIOUS
<1>5. ASSUME NEW i \in 1..m, g[i - 1] \in I[i - 1] PROVE g[i] = N[<<g[i - 1], i>>] /\ g[i] \in I[i]
  <2>1. N[<<g[i - 1], i>>] \in I[i] /\ N[<<g[i - 1], i>>] \in S /\ g[i - 1] \in S
    BY <1>4, <1>5
  <2>2. <<g[i - 1], i>> \in S \X (1..m)
    BY <2>1
  <2>3. F[<<g[i - 1], i>>] = N[<<g[i - 1], i>>]
    BY <2>1, <2>2
  <2>4. g[i] = F[<<g[i - 1], i>>]
    <3>. HIDE DEF F
    <3>. QED  BY DEF Recursion
  <2>. QED  BY <2>1, <2>3, <2>4
<1>6. g[0] = e
  BY DEF Recursion
<1>. HIDE DEF F
<1>. DEFINE T == {i \in 0..m : g[i] \in I[i]}
<1>7. 0 \in T
  BY <1>2, <1>6
<1>8. \A i \in 1..m : i - 1 \in T => i \in T
  BY <1>4, <1>5
<1>9. \A i \in 0..m : i \in T
  <2>. HIDE DEF T
  <2>. QED  BY <1>7, <1>8, UpTo
<1>10. \A i \in 1..m : g[i] = N[<<g[i - 1], i>>]
  BY <1>4, <1>5, <1>9
<1>. QED  BY <1>6, <1>9, <1>10 DEF Runs

(* Two functions that follow the same loop agree.                          *)
Follows(f, m, S, e, N) == f[0] = e /\ \A i \in 1..m : f[i - 1] \in S => f[i] = N[<<f[i - 1], i>>]
Reaches(f, m, I) == \A i \in 0..m : f[i] \in I[i]

(* Any other run of the loop is that one.                                  *)
LEMMA LoopUnique ==
  ASSUME NEW m \in Nat, NEW S, NEW e, NEW N, NEW I, NEW g \in [0..m -> S],
         Runs(g, m, e, N, I), NEW f, Follows(f, m, S, e, N)
  PROVE  Reaches(f, m, I)
<1>. DEFINE T == {i \in 0..m : f[i] = g[i]}
<1>1. 0 \in T
  BY DEF Runs, Follows
<1>2. ASSUME NEW i \in 1..m, i - 1 \in T PROVE i \in T
  <2>1. i - 1 \in 0..m /\ i \in 0..m /\ f[i - 1] = g[i - 1] /\ g[i - 1] \in S
    BY <1>2
  <2>. QED  BY <2>1 DEF Runs, Follows
<1>3. \A i \in 0..m : i \in T
  <2>. HIDE DEF T
  <2>. QED  BY <1>1, <1>2, UpTo
<1>4. \A i \in 0..m : g[i] \in I[i]
  BY DEF Runs
<1>. QED  BY <1>3, <1>4 DEF Reaches
--------------------------------------------------------------------------------
(* Lists. *)

(* r is what s has of S up to k, from the places h. *)
Picked(r, s, S, k, h) ==
    /\ \A i \in 1 .. Len(r) : r[i] = s[h[i]] /\ s[h[i]] \in S
    /\ \A i, j \in 1 .. Len(r) : i < j => h[i] < h[j]
    /\ \A j \in 1 .. k : s[j] \in S => \E i \in 1 .. Len(r) : h[i] = j
Picks(T, s, S, k) == {r \in Seq(T) : \E h \in [1 .. Len(r) -> 1 .. k] : Picked(r, s, S, k, h)}

LEMMA PickMore ==
  ASSUME NEW T, NEW s \in Seq(T), NEW S, NEW k \in 1 .. Len(s), NEW r \in Picks(T, s, S, k - 1)
  PROVE  (IF s[k] \in S THEN Append(r, s[k]) ELSE r) \in Picks(T, s, S, k)
<1>. PICK h \in [1 .. Len(r) -> 1 .. (k - 1)] : Picked(r, s, S, k - 1, h)
  BY DEF Picks
<1>1. r \in Seq(T) /\ Len(r) \in Nat /\ s[k] \in T /\ k \in Nat /\ Len(s) \in Nat
  BY DEF Picks
<1>2. \A i \in 1 .. Len(r) : h[i] \in 1 .. (k - 1) /\ h[i] \in 1 .. k /\ h[i] < k
  BY <1>1
<1>3. CASE s[k] \in S
  <2>. DEFINE q == Append(r, s[k])
              g == [i \in 1 .. Len(q) |-> IF i = Len(q) THEN k ELSE h[i]]
  <2>1. q \in Seq(T) /\ Len(q) = Len(r) + 1 /\ q[Len(q)] = s[k]
          /\ \A i \in 1 .. Len(r) : q[i] = r[i]
    BY <1>1
  <2>2. \A i \in 1 .. Len(q) : i # Len(q) => i \in 1 .. Len(r)
    BY <1>1, <2>1
  <2>3. Len(q) \in 1 .. Len(q) /\ \A i \in 1 .. Len(r) : i \in 1 .. Len(q) /\ i # Len(q)
    BY <1>1, <2>1
  <2>. HIDE DEF q
  <2>4. g \in [1 .. Len(q) -> 1 .. k] /\ g[Len(q)] = k /\ \A i \in 1 .. Len(r) : g[i] = h[i]
    BY <1>1, <1>2, <2>2, <2>3
  <2>. HIDE DEF g
  <2>5. \A i \in 1 .. Len(q) : q[i] = s[g[i]] /\ s[g[i]] \in S
    BY <1>3, <2>1, <2>2, <2>4 DEF Picked
  <2>6. \A i, j \in 1 .. Len(q) : i < j => g[i] < g[j]
    <3>. SUFFICES ASSUME NEW i \in 1 .. Len(q), NEW j \in 1 .. Len(q), i < j PROVE g[i] < g[j]
      OBVIOUS
    <3>1. i # Len(q) /\ i \in 1 .. Len(r)
      BY <1>1, <2>1, <2>2
    <3>2. CASE j = Len(q)
      BY <1>2, <2>4, <3>1, <3>2
    <3>3. CASE j # Len(q)
      BY <2>2, <2>4, <3>1, <3>3 DEF Picked
    <3>. QED  BY <3>2, <3>3
  <2>7. ASSUME NEW j \in 1 .. k, s[j] \in S PROVE \E i \in 1 .. Len(q) : g[i] = j
    <3>1. CASE j = k
      BY <2>3, <2>4, <3>1
    <3>2. CASE j # k
      <4>1. j \in 1 .. (k - 1)
        BY <1>1, <3>2
      <4>2. \E i \in 1 .. Len(r) : h[i] = j
        BY <2>7, <4>1 DEF Picked
      <4>. QED  BY <2>3, <2>4, <4>2
    <3>. QED  BY <3>1, <3>2
  <2>8. Picked(q, s, S, k, g)
    BY <2>5, <2>6, <2>7 DEF Picked
  <2>9. q \in Picks(T, s, S, k)
    BY <2>1, <2>4, <2>8 DEF Picks
  <2>. QED  BY <1>3, <2>9 DEF q
<1>4. CASE s[k] \notin S
  <2>1. h \in [1 .. Len(r) -> 1 .. k]
    BY <1>1, <1>2
  <2>2. \A j \in 1 .. k : s[j] \in S => j \in 1 .. (k - 1)
    BY <1>1, <1>4
  <2>3. Picked(r, s, S, k, h)
    BY <2>2 DEF Picked
  <2>. QED  BY <1>1, <1>4, <2>1, <2>3 DEF Picks
<1>. QED  BY <1>3, <1>4

LEMMA AmongPicks ==
  ASSUME NEW T, NEW s \in Seq(T), NEW S
  PROVE  Among(s, S) \in Picks(T, s, S, Len(s))
<1>. DEFINE m == Len(s)
            Q == Seq(T)
            N == [p \in Q \X (1..m) |-> IF s[p[2]] \in S THEN Append(p[1], s[p[2]]) ELSE p[1]]
            I == [k \in 0..m |-> Picks(T, s, S, k)]
            Step(g, i) == IF s[i] \in S THEN Append(g[i - 1], s[i]) ELSE g[i - 1]
            Rec(g) == g = [i \in 0 .. m |-> IF i = 0 THEN <<>> ELSE Step(g, i)]
            f == CHOOSE g : Rec(g)
            e == <<>>
<1>1. m \in Nat /\ e \in Q /\ \A i \in 1..m : i - 1 \in 0..m /\ i \in 0..m /\ s[i] \in T
  OBVIOUS
<1>2. I \in [0..m -> SUBSET Q] /\ \A k \in 0..m : I[k] = Picks(T, s, S, k)
  BY DEF Picks
<1>3. e \in I[0]
  <2>. DEFINE h == [i \in 1..0 |-> 0]
  <2>1. h \in [1 .. Len(e) -> 1 .. 0] /\ Len(e) = 0
    OBVIOUS
  <2>2. Picked(e, s, S, 0, h)
    BY <2>1 DEF Picked
  <2>. HIDE DEF h
  <2>3. e \in Seq(T) /\ e \in Picks(T, s, S, 0)
    BY <1>1, <2>1, <2>2 DEF Picks
  <2>. QED  BY <1>1, <1>2, <2>3
<1>. HIDE DEF I
<1>4. \A i \in 1..m : \A x \in I[i - 1] : x \in Q
        /\ N[<<x, i>>] = (IF s[i] \in S THEN Append(x, s[i]) ELSE x) /\ N[<<x, i>>] \in I[i]
  <2>. SUFFICES ASSUME NEW i \in 1..m, NEW x \in I[i - 1]
       PROVE x \in Q /\ N[<<x, i>>] = (IF s[i] \in S THEN Append(x, s[i]) ELSE x)
         /\ N[<<x, i>>] \in I[i]
    OBVIOUS
  <2>1. x \in Q /\ x \in Picks(T, s, S, i - 1)
    BY <1>1, <1>2
  <2>2. <<x, i>> \in Q \X (1..m)
    BY <2>1
  <2>3. N[<<x, i>>] = (IF s[i] \in S THEN Append(x, s[i]) ELSE x)
    BY <2>2
  <2>. HIDE DEF N
  <2>4. (IF s[i] \in S THEN Append(x, s[i]) ELSE x) \in Picks(T, s, S, i)
    BY <2>1, PickMore
  <2>. QED  BY <1>1, <1>2, <2>1, <2>3, <2>4
<1>5. \E g \in [0..m -> Q] : Runs(g, m, e, N, I)
  <2>. HIDE DEF m, Q, N, e
  <2>. QED  BY <1>1, <1>2, <1>3, <1>4, LoopRuns
<1>. PICK g \in [0..m -> Q] : Runs(g, m, e, N, I)
  BY <1>5
<1>6. Rec(g)
  <2>1. g[0] = e /\ \A i \in 1..m : g[i] = Step(g, i)
    <3>. HIDE DEF N
    <3>. QED  BY <1>1, <1>4 DEF Runs
  <2>2. \A i \in 0..m : g[i] = IF i = 0 THEN <<>> ELSE Step(g, i)
    <3>. HIDE DEF Step
    <3>. QED  BY <1>1, <2>1
  <2>. HIDE DEF Step
  <2>. QED  BY <2>2
<1>7. Rec(f)
  <2>. HIDE DEF Rec
  <2>. QED  BY <1>6
<1>8. Among(s, S) = f[m]
  BY DEF Among
<1>. HIDE DEF f
<1>9. f[0] = <<>> /\ \A i \in 1..m : f[i] = Step(f, i)
  <2>1. 0 \in 0..m /\ \A i \in 1..m : i \in 0..m /\ i # 0
    BY <1>1
  <2>. HIDE DEF Step
  <2>. QED  BY <1>7, <2>1
<1>10. \A i \in 1..m : f[i - 1] \in Q => f[i] = N[<<f[i - 1], i>>]
  <2>. SUFFICES ASSUME NEW i \in 1..m, f[i - 1] \in Q PROVE f[i] = N[<<f[i - 1], i>>]
    OBVIOUS
  <2>. DEFINE x == f[i - 1]
  <2>1. <<x, i>> \in Q \X (1..m)
    OBVIOUS
  <2>. HIDE DEF x
  <2>2. N[<<x, i>>] = (IF s[i] \in S THEN Append(x, s[i]) ELSE x)
    BY <2>1
  <2>. HIDE DEF N
  <2>. QED  BY <1>9, <2>2 DEF x
<1>11. Follows(f, m, Q, e, N)
  <2>. HIDE DEF N, Q
  <2>. QED  BY <1>9, <1>10 DEF Follows
<1>12. Reaches(f, m, I)
  <2>. HIDE DEF N, Q, m, e
  <2>. QED  BY <1>1, <1>11, LoopUnique
<1>13. m \in 0..m
  BY <1>1
<1>. QED  BY <1>2, <1>8, <1>12, <1>13 DEF Reaches

(* What is left of a list: the members of S, and in their order.           *)
Rest(r, s, S) ==
    /\ {r[i] : i \in 1 .. Len(r)} = {s[i] : i \in 1 .. Len(s)} \cap S
    /\ \E h \in [1 .. Len(r) -> 1 .. Len(s)] : Picked(r, s, S, Len(s), h)

LEMMA AmongSeq ==
  ASSUME NEW T, NEW s \in Seq(T), NEW S
  PROVE  Among(s, S) \in Seq(T) /\ Len(Among(s, S)) \in Nat /\ Rest(Among(s, S), s, S)
<1>. DEFINE r == Among(s, S)
<1>1. r \in Seq(T) /\ \E h \in [1 .. Len(r) -> 1 .. Len(s)] : Picked(r, s, S, Len(s), h)
  BY AmongPicks DEF Picks
<1>. HIDE DEF r
<1>. PICK h \in [1 .. Len(r) -> 1 .. Len(s)] : Picked(r, s, S, Len(s), h)
  BY <1>1
<1>2. Len(r) \in Nat
  BY <1>1
<1>3. {r[i] : i \in 1 .. Len(r)} = {s[i] : i \in 1 .. Len(s)} \cap S
  <2>1. /\ \A i \in 1 .. Len(r) : r[i] \in S /\ \E j \in 1 .. Len(s) : r[i] = s[j]
        /\ \A j \in 1 .. Len(s) : s[j] \in S => \E i \in 1 .. Len(r) : r[i] = s[j]
    BY DEF Picked
  <2>2. {r[i] : i \in 1 .. Len(r)} \subseteq {s[i] : i \in 1 .. Len(s)} \cap S
    BY <2>1
  <2>3. ASSUME NEW j \in 1 .. Len(s), s[j] \in S PROVE s[j] \in {r[i] : i \in 1 .. Len(r)}
    <3>1. PICK i \in 1 .. Len(r) : r[i] = s[j]
      BY Zenon, <2>1, <2>3
    <3>. QED  BY Zenon, <3>1
  <2>. QED  BY <2>2, <2>3
<1>4. r \in Seq(T) /\ Len(r) \in Nat /\ Rest(r, s, S)
  BY <1>1, <1>2, <1>3 DEF Rest
<1>. QED  BY <1>4 DEF r
--------------------------------------------------------------------------------
(* The list of events, as a set. *)
LEMMA EventsDiffer ==
  /\ \A w \in {"device", "key", "otherend"}, n \in Nodes : Event(w, n) \in Events
  /\ \A n, m : Event("device", n) # Event("otherend", m) /\ Event("device", n) # Event("key", m)
               /\ Event("otherend", n) # Event("key", m)
  /\ \A w, n, m : Event(w, n) = Event(w, m) => n = m
  /\ \A w, v, n, m : Event(w, n) = Event(v, m) => n = m /\ w = v
  BY DEF Event, Events

LEMMA QueueAppend ==
  ASSUME queue \in Seq(Events), NEW e \in Events, queue' = Append(queue, e)
  PROVE  queue' \in Seq(Events) /\ Queued' = Queued \cup {e}
<1>1. /\ Len(queue) \in Nat /\ Len(queue') = Len(queue) + 1 /\ queue'[Len(queue) + 1] = e
      /\ \A i \in 1 .. Len(queue) : queue'[i] = queue[i]
      /\ queue' \in Seq(Events)
  OBVIOUS
<1>2. 1 .. Len(queue') = (1 .. Len(queue)) \cup {Len(queue) + 1}
  BY <1>1
<1>. QED  BY <1>1, <1>2 DEF Queued

LEMMA QueueTail ==
  ASSUME queue \in Seq(Events), queue # <<>>, queue' = Tail(queue)
  PROVE  queue' \in Seq(Events) /\ Head(queue) \in Queued /\ Queued = Queued' \cup {Head(queue)}
<1>1. /\ Len(queue) \in Nat /\ Len(queue) >= 1 /\ Len(queue') = Len(queue) - 1
           /\ Head(queue) = queue[1]
      /\ \A i \in 1 .. Len(queue') : queue'[i] = queue[i + 1]
      /\ queue' \in Seq(Events)
  OBVIOUS
<1>2. \A i \in 1 .. Len(queue) : i = 1 \/ (i - 1 \in 1 .. Len(queue') /\ queue[i] = queue'[i - 1])
  BY <1>1
<1>3. \A i \in 1 .. Len(queue') : i + 1 \in 1 .. Len(queue)
  BY <1>1
<1>4. Head(queue) \in Queued
  <2>1. 1 \in 1 .. Len(queue)
    BY <1>1
  <2>. QED  BY <1>1, <2>1 DEF Queued
<1>5. \A i \in 1 .. Len(queue) : queue[i] \in Queued' \cup {Head(queue)}
  BY <1>1, <1>2 DEF Queued
<1>6. Queued' \subseteq Queued
  BY <1>1, <1>3 DEF Queued
<1>7. Queued \subseteq Queued' \cup {Head(queue)}
  <2>1. \A e \in Queued : \E i \in 1 .. Len(queue) : e = queue[i]
    BY DEF Queued
  <2>. QED  BY <1>5, <2>1
<1>. QED  BY <1>1, <1>4, <1>6, <1>7

LEMMA QueueJoin ==
  ASSUME queue \in Seq(Events), NEW q \in Seq(Events), queue' = queue \o q
  PROVE  queue' \in Seq(Events) /\ Queued' = Queued \cup {q[i] : i \in 1 .. Len(q)}
<1>1. /\ Len(queue) \in Nat /\ Len(q) \in Nat /\ Len(queue') = Len(queue) + Len(q)
      /\ \A i \in 1 .. Len(queue) : queue'[i] = queue[i]
      /\ \A i \in 1 .. Len(q) : queue'[Len(queue) + i] = q[i]
      /\ queue' \in Seq(Events)
  OBVIOUS
<1>2. \A i \in 1 .. Len(queue') : i \in 1 .. Len(queue)
        \/ (i - Len(queue) \in 1 .. Len(q) /\ Len(queue) + (i - Len(queue)) = i)
  BY <1>1
<1>3. /\ \A i \in 1 .. Len(queue) : i \in 1 .. Len(queue')
      /\ \A i \in 1 .. Len(q) : Len(queue) + i \in 1 .. Len(queue')
  BY <1>1
<1>4. \A i \in 1 .. Len(queue') : queue'[i] \in Queued \cup {q[j] : j \in 1 .. Len(q)}
  <2>. SUFFICES ASSUME NEW i \in 1 .. Len(queue')
                PROVE  queue'[i] \in Queued \cup {q[j] : j \in 1 .. Len(q)}
    OBVIOUS
  <2>1. CASE i \in 1 .. Len(queue)
    <3>1. queue'[i] = queue[i]
      BY <1>1, <2>1
    <3>. QED  BY <2>1, <3>1 DEF Queued
  <2>2. CASE i - Len(queue) \in 1 .. Len(q) /\ Len(queue) + (i - Len(queue)) = i
    <3>1. queue'[i] = q[i - Len(queue)]
      BY <1>1, <2>2
    <3>. QED  BY <2>2, <3>1
  <2>. QED  BY <1>2, <2>1, <2>2
<1>5. Queued \subseteq Queued' /\ {q[j] : j \in 1 .. Len(q)} \subseteq Queued'
  <2>1. ASSUME NEW i \in 1 .. Len(queue) PROVE queue[i] \in Queued'
    <3>1. i \in 1 .. Len(queue') /\ queue'[i] = queue[i]
      BY <1>1, <1>3
    <3>. QED  BY <3>1 DEF Queued
  <2>2. ASSUME NEW i \in 1 .. Len(q) PROVE q[i] \in Queued'
    <3>1. Len(queue) + i \in 1 .. Len(queue') /\ queue'[Len(queue) + i] = q[i]
      BY <1>1, <1>3
    <3>. QED  BY <3>1 DEF Queued
  <2>3. Queued \subseteq Queued'
    BY <2>1 DEF Queued
  <2>. QED  BY <2>2, <2>3
<1>6. Queued' \subseteq Queued \cup {q[j] : j \in 1 .. Len(q)}
  <2>1. \A e \in Queued' : \E i \in 1 .. Len(queue') : e = queue'[i]
    BY DEF Queued
  <2>. QED  BY <1>4, <2>1
<1>. QED  BY <1>1, <1>5, <1>6

LEMMA QueueFront ==
  ASSUME queue \in Seq(Events), NEW n \in Nodes, NEW w \in {"device", "key"},
         queue' = queue \o FrontFires(w, n)
  PROVE  /\ queue' \in Seq(Events)
         /\ Queued' = Queued \cup (IF fe /\ HostKnows THEN {Event(w, n)} ELSE {})
<1>. DEFINE q == FrontFires(w, n)
<1>1. Event(w, n) \in Events
  BY EventsDiffer
<1>2. q \in Seq(Events)
        /\ {q[i] : i \in 1 .. Len(q)} = (IF fe /\ HostKnows THEN {Event(w, n)} ELSE {})
  BY <1>1 DEF FrontFires
<1>. HIDE DEF q
<1>. QED  BY <1>2, QueueJoin DEF q

LEMMA QueueOther ==
  ASSUME queue \in Seq(Events), NEW n \in Nodes, queue' = queue \o OtherendFires(n)
  PROVE  /\ queue' \in Seq(Events)
         /\ Queued' = Queued \cup (IF dev[n].watch = "on" /\ dev[n].otherend = path /\ HostKnows
                                   THEN {Event("otherend", n)} ELSE {})
<1>. DEFINE q == OtherendFires(n)
<1>1. Event("otherend", n) \in Events
  BY EventsDiffer
<1>2. q \in Seq(Events) /\ {q[i] : i \in 1 .. Len(q)} =
        (IF dev[n].watch = "on" /\ dev[n].otherend = path /\ HostKnows
         THEN {Event("otherend", n)} ELSE {})
  BY <1>1 DEF OtherendFires
<1>. HIDE DEF q
<1>. QED  BY <1>2, QueueJoin DEF q

LEMMA QueueFires ==
  ASSUME queue \in Seq(Events), NEW n \in Nodes, Fires(n)
  PROVE  /\ queue' \in Seq(Events)
         /\ Queued' = Queued \cup (IF fe /\ HostKnows THEN {Event("device", n)} ELSE {})
                             \cup (IF dev[n].watch = "on" /\ dev[n].otherend = path /\ HostKnows
                                   THEN {Event("otherend", n)} ELSE {})
<1>. DEFINE p == FrontFires("device", n)
            q == OtherendFires(n)
            r == p \o q
<1>1. Event("otherend", n) \in Events /\ Event("device", n) \in Events
  BY EventsDiffer
<1>2. q \in Seq(Events) /\ {q[i] : i \in 1 .. Len(q)} =
        (IF dev[n].watch = "on" /\ dev[n].otherend = path /\ HostKnows
         THEN {Event("otherend", n)} ELSE {})
  BY <1>1 DEF OtherendFires
<1>3. p \in Seq(Events)
        /\ {p[i] : i \in 1 .. Len(p)} = (IF fe /\ HostKnows THEN {Event("device", n)} ELSE {})
  BY <1>1 DEF FrontFires
<1>4. queue' = (queue \o p) \o q
  BY DEF Fires
<1>. HIDE DEF p, q
<1>5. queue' = queue \o r
  BY <1>2, <1>3, <1>4
<1>6. r \in Seq(Events)
        /\ {r[i] : i \in 1 .. Len(r)} = {p[i] : i \in 1 .. Len(p)} \cup {q[i] : i \in 1 .. Len(q)}
  <2>1. /\ Len(p) \in Nat /\ Len(q) \in Nat /\ Len(r) = Len(p) + Len(q)
        /\ \A i \in 1 .. Len(p) : r[i] = p[i]
        /\ \A i \in 1 .. Len(q) : r[Len(p) + i] = q[i]
        /\ r \in Seq(Events)
    BY <1>2, <1>3
  <2>. HIDE DEF r
  <2>2. \A i \in 1 .. Len(r) : i \in 1 .. Len(p)
          \/ (i - Len(p) \in 1 .. Len(q) /\ Len(p) + (i - Len(p)) = i)
    BY <2>1
  <2>3. /\ \A i \in 1 .. Len(p) : i \in 1 .. Len(r)
        /\ \A i \in 1 .. Len(q) : Len(p) + i \in 1 .. Len(r)
    BY <2>1
  <2>4. \A i \in 1 .. Len(r) : r[i] \in {p[j] : j \in 1 .. Len(p)} \cup {q[j] : j \in 1 .. Len(q)}
    <3>. SUFFICES ASSUME NEW i \in 1 .. Len(r)
                  PROVE  r[i] \in {p[j] : j \in 1 .. Len(p)} \cup {q[j] : j \in 1 .. Len(q)}
      OBVIOUS
    <3>1. CASE i \in 1 .. Len(p)
      <4>1. r[i] = p[i]
        BY <2>1, <3>1
      <4>. QED  BY <3>1, <4>1
    <3>2. CASE i - Len(p) \in 1 .. Len(q) /\ Len(p) + (i - Len(p)) = i
      <4>1. r[i] = q[i - Len(p)]
        BY <2>1, <3>2
      <4>. QED  BY <3>2, <4>1
    <3>. QED  BY <2>2, <3>1, <3>2
  <2>5. {p[j] : j \in 1 .. Len(p)} \subseteq {r[i] : i \in 1 .. Len(r)}
    BY <2>1, <2>3
  <2>6. {q[j] : j \in 1 .. Len(q)} \subseteq {r[i] : i \in 1 .. Len(r)}
    BY <2>1, <2>3
  <2>. QED  BY <2>1, <2>4, <2>5, <2>6
<1>. HIDE DEF r
<1>. QED  BY <1>2, <1>3, <1>5, <1>6, QueueJoin

LEMMA QueueWithout ==
  ASSUME queue \in Seq(Events), NEW n \in Nodes, queue' = Without(n)
  PROVE  queue' \in Seq(Events) /\ Queued' = Queued \ {Event("otherend", n)}
<1>. DEFINE S == Events \ {Event("otherend", n)}
<1>1. queue' = Among(queue, S)
  BY DEF Without
<1>2. queue' \in Seq(Events) /\ Queued' = Queued \cap S
  <2>. HIDE DEF S
  <2>1. Among(queue, S) \in Seq(Events) /\ Rest(Among(queue, S), queue, S)
    BY AmongSeq
  <2>. QED  BY <1>1, <2>1 DEF Queued, Rest
<1>3. Queued \subseteq Events
  BY DEF Queued
<1>. QED  BY <1>2, <1>3

LEMMA QueuePrefix ==
  ASSUME queue \in Seq(Events), NEW k \in 0 .. Len(queue), queue' = SubSeq(queue, 1, k)
  PROVE  queue' \in Seq(Events) /\ Queued' \subseteq Queued
<1>1. /\ Len(queue) \in Nat /\ Len(queue') = k
      /\ \A i \in 1 .. k : queue'[i] = queue[i] /\ i \in 1 .. Len(queue)
      /\ queue' \in Seq(Events)
  OBVIOUS
<1>. QED  BY <1>1 DEF Queued

LEMMA QueueSame ==
  ASSUME queue' = queue
  PROVE  Queued' = Queued
  BY DEF Queued

(* The bus. *)
LEMMA BusAppend ==
  ASSUME bus \in Seq(Nodes), NEW n \in Nodes, ~OnBus(n), bus' = Append(bus, n),
         \A i, j \in 1 .. Len(bus) : bus[i] = bus[j] => i = j
  PROVE  /\ bus' \in Seq(Nodes)
         /\ \A i, j \in 1 .. Len(bus') : bus'[i] = bus'[j] => i = j
         /\ \A m \in Nodes : OnBus(m)' <=> OnBus(m) \/ m = n
<1>1. /\ Len(bus) \in Nat /\ Len(bus') = Len(bus) + 1 /\ bus'[Len(bus) + 1] = n
      /\ \A i \in 1 .. Len(bus) : bus'[i] = bus[i]
      /\ bus' \in Seq(Nodes)
  OBVIOUS
<1>2. \A i \in 1 .. Len(bus') : i \in 1 .. Len(bus) \/ i = Len(bus) + 1
  BY <1>1
<1>3. Len(bus) + 1 \in 1 .. Len(bus') /\ \A i \in 1 .. Len(bus) : i \in 1 .. Len(bus')
  BY <1>1
<1>. QED  BY <1>1, <1>2, <1>3 DEF OnBus

LEMMA BusShrinks ==
  ASSUME bus \in Seq(Nodes), NEW n \in Nodes, bus' = BusWithout(n),
         \A i, j \in 1 .. Len(bus) : bus[i] = bus[j] => i = j
  PROVE  /\ bus' \in Seq(Nodes)
         /\ \A i, j \in 1 .. Len(bus') : bus'[i] = bus'[j] => i = j
         /\ \A m \in Nodes : OnBus(m)' <=> OnBus(m) /\ m # n
         /\ \A S : (\A i \in 1 .. Len(bus) : bus[i] \in S)
              => \A i \in 1 .. Len(bus') : bus'[i] \in S
         /\ \A S : (\A i, j \in 1 .. Len(bus) : i < j /\ bus[j] \in S => bus[i] \in S)
                   => \A i, j \in 1 .. Len(bus') : i < j /\ bus'[j] \in S => bus'[i] \in S
<1>. DEFINE T == Nodes \ {n}
<1>1. bus' = Among(bus, T)
  BY DEF BusWithout
<1>2. bus' \in Seq(Nodes) /\ Len(bus') \in Nat /\ Rest(bus', bus, T)
  <2>. HIDE DEF T
  <2>1. Among(bus, T) \in Seq(Nodes) /\ Len(Among(bus, T)) \in Nat /\ Rest(Among(bus, T), bus, T)
    BY AmongSeq
  <2>. QED  BY <1>1, <2>1
<1>3. PICK h \in [1 .. Len(bus') -> 1 .. Len(bus)] : Picked(bus', bus, T, Len(bus), h)
  BY <1>2 DEF Rest
<1>4. \A i, j \in 1 .. Len(bus') : bus'[i] = bus'[j] => i = j
  <2>. SUFFICES ASSUME NEW i \in 1 .. Len(bus'), NEW j \in 1 .. Len(bus'), bus'[i] = bus'[j], i # j PROVE FALSE
    OBVIOUS
  <2>0. h[i] \in 1 .. Len(bus) /\ h[j] \in 1 .. Len(bus)
        /\ bus'[i] = bus[h[i]] /\ bus'[j] = bus[h[j]]
        /\ (i < j => h[i] < h[j]) /\ (j < i => h[j] < h[i])
    BY <1>3 DEF Picked
  <2>1. bus[h[i]] = bus[h[j]]
    BY <2>0
  <2>2. h[i] = h[j] /\ h[i] \in Nat
    BY <2>0, <2>1
  <2>3. i < j \/ j < i
    BY <1>2
  <2>. QED  BY <2>0, <2>2, <2>3
<1>5. \A m \in Nodes : OnBus(m)' <=> OnBus(m) /\ m # n
  BY <1>2 DEF OnBus, Rest
<1>6. ASSUME NEW S, \A i \in 1 .. Len(bus) : bus[i] \in S, NEW i \in 1 .. Len(bus')
      PROVE  bus'[i] \in S
  BY <1>3, <1>6 DEF Picked
<1>7. ASSUME NEW S, \A i, j \in 1 .. Len(bus) : i < j /\ bus[j] \in S => bus[i] \in S,
             NEW i \in 1 .. Len(bus'), NEW j \in 1 .. Len(bus'), i < j /\ bus'[j] \in S
      PROVE  bus'[i] \in S
  <2>1. h[i] \in 1 .. Len(bus) /\ h[j] \in 1 .. Len(bus) /\ h[i] < h[j]
        /\ bus'[i] = bus[h[i]] /\ bus'[j] = bus[h[j]]
    BY <1>3, <1>7 DEF Picked
  <2>2. bus[h[i]] \in S
    BY <1>7, <2>1
  <2>. QED  BY <2>1, <2>2
<1>8. \A S : (\A i \in 1 .. Len(bus) : bus[i] \in S) => \A i \in 1 .. Len(bus') : bus'[i] \in S
  BY <1>6
<1>9. \A S : (\A i, j \in 1 .. Len(bus) : i < j /\ bus[j] \in S => bus[i] \in S)
                   => \A i, j \in 1 .. Len(bus') : i < j /\ bus'[j] \in S => bus'[i] \in S
  BY <1>7
<1>. QED  BY <1>2, <1>4, <1>5, <1>8, <1>9
--------------------------------------------------------------------------------
(* Where each thread is: one place at a time.                              *)
LEMMA Places ==
  /\ \A w, n : <<w, n>> # Idle /\ <<w, n>> # <<"stopped">> /\ <<w, n>> # <<"rewatch">>
       /\ <<w, n>> # <<"resume">>
  /\ \A w, v, n, m : <<w, n>> = <<v, m>> <=> (w = v /\ n = m)
  /\ \A w, v : <<w>> = <<v>> <=> w = v
  BY DEF Idle

LEMMA Parts ==
  ASSUME Inv
  PROVE  Shapes /\ BusOk /\ Early /\ InOrder /\ \A n \in Nodes : NodeOk(n)
  BY DEF Inv

LEMMA Typed ==
  ASSUME Shapes, NEW n \in Nodes
  PROVE  /\ store[n] \in Entry /\ dev[n] \in Device
         /\ store[n].there \in BOOLEAN /\ store[n].gen \in Nat /\ store[n].front \in States
              /\ store[n].back \in States
         /\ dev[n].gen \in Nat /\ dev[n].state \in States /\ dev[n].otherend \in Nat
              /\ dev[n].ring \in BOOLEAN
  BY DEF Shapes, Entry, Device

(* What a back end, or the tools that unplug it, may write. *)
MayTell(n, to) ==
    \/ store[n].back = "Initialising" /\ to = "InitWait"
    \/ store[n].back = "InitWait" /\ store[n].front = "Connected" /\ to \in {"Connected", "Closing"}
    \/ BackendOwes(n) /\ to = Awaited(store[n].front)
    \/ store[n].back \in {"InitWait", "Connected"} /\ to = "Closing"

LEMMA TellStep ==
  ASSUME Inv, NEW n \in Nodes, NEW to, MayTell(n, to), Tell(n, to),
         left' \in Left, left'.migrations = left.migrations
  PROVE  Inv'
<1>1. Shapes /\ BusOk /\ Early /\ InOrder /\ \A m \in Nodes : NodeOk(m)
  BY Parts
<1>2. to \in States /\ to # "Unknown" /\ store[n].back # "Unknown"
  BY DEF MayTell, BackendOwes, Awaited, States
<1>3. /\ store' \in [Nodes -> Entry]
      /\ \A m \in Nodes : m # n => store'[m] = store[m]
      /\ store'[n].back = to /\ store'[n].there = store[n].there /\ store'[n].gen = store[n].gen
      /\ store'[n].front = store[n].front
  <2>1. store[n] \in Entry /\ store \in [Nodes -> Entry]
    BY <1>1, Typed DEF Shapes
  <2>. QED  BY <1>2, <2>1 DEF Tell, Put, Entry
<1>4. UNCHANGED <<path, bus, dev, fe, loaded, xw, sus, resumed, boot, bug>>
  BY DEF Tell, Aside, driver
<1>5. queue' \in Seq(Events) /\ Queued' = Queued \cup
        (IF dev[n].watch = "on" /\ dev[n].otherend = path /\ HostKnows
         THEN {Event("otherend", n)} ELSE {})
  BY <1>1, QueueOther DEF Tell, Shapes
<1>6. Shapes'
  BY <1>1, <1>3, <1>4, <1>5 DEF Shapes, XwOk, SusOk, BootOk
<1>7. BusOk'
  BY <1>1, <1>4 DEF BusOk, OnBus
<1>8. InOrder'
  BY <1>1, <1>4 DEF InOrder, Walking, At, Unwatched, Fading, Restarting, Stage
<1>9. Early'
  <2>1. boot # <<"done">> => queue' = queue
    <3>. SUFFICES ASSUME boot # <<"done">> PROVE OtherendFires(n) = <<>> /\ queue \o <<>> = queue
      BY DEF Tell
    <3>1. dev[n].watch = "none"
      BY <1>1 DEF Early, NodeOk, DevOk
    <3>. QED  BY <1>1, <3>1 DEF OtherendFires, Shapes
  <2>2. \A m \in Nodes : store'[m].there = store[m].there
    BY <1>3
  <2>. QED  BY <1>1, <1>4, <2>1, <2>2 DEF Early
<1>10. dev[n].on = "bound" /\ ~Pending(n) => Event("otherend", n) \in Queued'
  <2>. SUFFICES ASSUME dev[n].on = "bound", ~Pending(n) PROVE Event("otherend", n) \in Queued'
    OBVIOUS
  <2>1. store[n].there
    BY <1>1, <1>2 DEF NodeOk, EntryOk
  <2>2. dev[n].otherend = path /\ dev[n].watch = "on" /\ HostKnows
    BY <1>1, <2>1 DEF NodeOk, FollowOk, DevOk, Pending, HostKnows
  <2>. QED  BY <1>5, <2>2
<1>11. ASSUME NEW m \in Nodes PROVE NodeOk(m)'
  <2>0. EntryOk(store[m]) /\ DevOk(m) /\ BusyOk(m) /\ ResumeOk(m) /\ FollowOk(m)
    BY <1>1 DEF NodeOk
  <2>1. EntryOk(store[m])'
    BY <2>0, <1>2, <1>3 DEF EntryOk
  <2>2. Calm' = Calm /\ At(m)' = At(m) /\ Pending(m)' = Pending(m) /\ Unwatched(m)' = Unwatched(m)
          /\ Fading(m)' = Fading(m)
        /\ Restarting(m)' = Restarting(m) /\ \A w : Busy(w, m)' = Busy(w, m)
             /\ Stage(w, m)' = Stage(w, m)
        /\ InProbe(m)' = InProbe(m) /\ Working(m)' = Working(m)
    BY <1>4 DEF Calm, At, Pending, Walking, Unwatched, Fading, Restarting, Stage, InProbe, Working,
       Busy
  <2>20. Event("otherend", m) \in Queued' => dev[m].on = "bound"
    BY <1>1, <1>5, EventsDiffer DEF NodeOk, DevOk
  <2>3. DevOk(m)'
    BY <2>0, <2>2, <2>20, <1>3, <1>4, <1>5 DEF DevOk, Probes, InProbe, Busy
  <2>4. Event("otherend", m) \in Queued => Event("otherend", m) \in Queued'
    BY <1>5
  <2>40. Pending(m) /\ dev[m].on = "bound" /\ store[m].there => store[m].front # "Initialising"
           \/ store[m].back # "Closed"
    BY <2>0 DEF ResumeOk
  <2>5. BusyOk(m)'
    BY <2>0, <2>2, <2>4, <2>40, <1>3, <1>4, <1>10 DEF BusyOk, MayTell, BackendOwes, Awaited
  <2>6. Unwatched(m) => Event("otherend", m) \notin Queued'
    BY <1>5, <2>0, EventsDiffer DEF ResumeOk
  <2>7. ResumeOk(m)'
    BY <2>0, <2>2, <2>6, <1>3, <1>4 DEF ResumeOk, MayTell, Awaited
  <2>8. FollowOk(m)'
    BY <2>0, <2>2, <2>4, <1>3, <1>4, <1>10 DEF FollowOk, MayTell, Awaited
  <2>. QED  BY <2>1, <2>3, <2>5, <2>7, <2>8 DEF NodeOk
<1>. QED  BY <1>6, <1>7, <1>8, <1>9, <1>11 DEF Inv

LEMMA SetFacts ==
  ASSUME dev \in [Nodes -> Device], NEW n \in Nodes, NEW d \in Device, Set(n, d)
  PROVE  dev' \in [Nodes -> Device] /\ dev'[n] = d /\ \A m \in Nodes : m # n => dev'[m] = dev[m]
  BY DEF Set

LEMMA PutFacts ==
  ASSUME store \in [Nodes -> Entry], NEW n \in Nodes, NEW s \in Entry, Put(n, s)
  PROVE  store' \in [Nodes -> Entry] /\ store'[n] = s /\ \A m \in Nodes : m # n
    => store'[m] = store[m]
  BY DEF Put
--------------------------------------------------------------------------------
(* Where xenwatch is, in terms of Busy, and the thread that resumes.       *)
LEMMA NotBusy ==
  /\ xw = Idle => \A w, m : ~Busy(w, m)
  /\ xw' = Idle => \A w, m : ~Busy(w, m)'
  BY DEF Busy, Idle

LEMMA IsBusy ==
  ASSUME NEW v, NEW n
  PROVE  /\ xw = <<v, n>> => xw # Idle /\ \A w, m : Busy(w, m) <=> (w = v /\ m = n)
         /\ xw' = <<v, n>> => \A w, m : Busy(w, m)' <=> (w = v /\ m = n)
  BY DEF Busy, Idle

(* Nobody works on anything before the boot is done.                       *)
LEMMA LateOnly ==
  ASSUME Inv, xw # Idle \/ queue # <<>> \/ loaded
  PROVE  boot = <<"done">> /\ fe
  BY Parts DEF Early

LEMMA DevChangedStep ==
  ASSUME Inv, NEW n \in Nodes, DevChanged(n)
  PROVE  Inv'
<1>1. Shapes /\ BusOk /\ Early /\ InOrder /\ \A m \in Nodes : NodeOk(m)
  BY Parts
<1>2. UNCHANGED <<path, fe, loaded, sus, resumed, boot, left, store, bus, dev, bug>>
  BY DEF DevChanged, Elsewhere
<1>3. /\ xw = Idle /\ queue # <<>> /\ \A w, m : ~Busy(w, m)
      /\ Head(queue) = Event("device", n) \/ Head(queue) = Event("key", n)
  BY NotBusy DEF DevChanged, Take
<1>4. queue' \in Seq(Events) /\ Head(queue) \in Queued /\ Queued = Queued' \cup {Head(queue)}
  BY <1>1, <1>3, QueueTail DEF DevChanged, Shapes
<1>5. \/ /\ xw' = <<"probe", n>> /\ store[n].there /\ ~Listed(dev[n])
         /\ \A w, m : Busy(w, m)' <=> (w = "probe" /\ m = n)
      \/ /\ xw' = <<"remove", n>> /\ ~store[n].there /\ Listed(dev[n])
         /\ \A w, m : Busy(w, m)' <=> (w = "remove" /\ m = n)
      \/ /\ xw' = Idle /\ (Head(queue) = Event("device", n) => (store[n].there <=> Listed(dev[n])))
         /\ \A w, m : ~Busy(w, m)'
  <2>1. OnBus(n) <=> Listed(dev[n])
    BY <1>1 DEF BusOk
  <2>2. Head(queue).watch = "device" <=> Head(queue) = Event("device", n)
    BY <1>3 DEF Event
  <2>3. store[n].there \in BOOLEAN
    BY <1>1, Typed
  <2>. QED  BY <2>1, <2>2, <2>3, NotBusy, IsBusy DEF DevChanged
<1>6. boot = <<"done">> /\ fe
  BY <1>3, LateOnly
<1>7. \A m : Event("otherend", m) \in Queued' <=> Event("otherend", m) \in Queued
  BY <1>3, <1>4, EventsDiffer
<1>8. /\ store[n].there /\ ~Listed(dev[n]) => Calm /\ dev[n].on = "none"
      /\ ~store[n].there /\ Listed(dev[n]) => Calm \/ Fading(n)
  <2>1. dev[n].on \in {"none", "plain", "probing", "bound", "failed", "leaving"}
    BY <1>1, Typed DEF Device
  <2>2. dev[n].on # "leaving"
    BY <1>1, <1>3 DEF NodeOk, BusyOk
  <2>. QED  BY <1>1, <2>1, <2>2 DEF NodeOk, ResumeOk, Listed
<1>9. Shapes'
  BY <1>1, <1>2, <1>4, <1>5, <1>6 DEF Shapes, XwOk, XwSteps, SusOk, BootOk
<1>10. BusOk'
  BY <1>1, <1>2 DEF BusOk, OnBus
<1>11. InOrder'
  BY <1>1, <1>2 DEF InOrder, Walking, At, Unwatched, Fading, Restarting, Stage
<1>12. Early'
  BY <1>1, <1>2, <1>6 DEF Early
<1>13. ASSUME NEW m \in Nodes PROVE NodeOk(m)'
  <2>1. EntryOk(store[m]) /\ DevOk(m) /\ BusyOk(m) /\ ResumeOk(m) /\ FollowOk(m)
    BY <1>1 DEF NodeOk
  <2>2. /\ Calm' = Calm /\ At(m)' = At(m) /\ Pending(m)' = Pending(m)
        /\ Unwatched(m)' = Unwatched(m) /\ Fading(m)' = Fading(m) /\ Restarting(m)' = Restarting(m)
        /\ \A w : Stage(w, m)' = Stage(w, m)
    BY <1>2 DEF Calm, At, Pending, Walking, Unwatched, Fading, Restarting, Stage
  <2>3. EntryOk(store[m])'
    BY <2>1, <1>2
  <2>4. DevOk(m)'
    BY <2>1, <2>2, <1>2, <1>3, <1>4, <1>5, EventsDiffer DEF DevOk, Probes, InProbe
  <2>5. BusyOk(m)'
    BY <2>1, <2>2, <1>2, <1>3, <1>5, <1>8 DEF BusyOk, InProbe
  <2>6. ResumeOk(m)'
    BY <2>1, <2>2, <1>2, <1>5, <1>7 DEF ResumeOk, Working
  <2>7. FollowOk(m)'
    BY <2>1, <2>2, <1>2, <1>3, <1>7 DEF FollowOk, Working
  <2>. QED  BY <2>3, <2>4, <2>5, <2>6, <2>7 DEF NodeOk
<1>. QED  BY <1>9, <1>10, <1>11, <1>12, <1>13 DEF Inv

LEMMA ProbeDetailsStep ==
  ASSUME Inv, NEW n \in Nodes, ProbeDetails(n)
  PROVE  Inv'
<1>1. Shapes /\ BusOk /\ Early /\ InOrder /\ \A m \in Nodes : NodeOk(m)
  BY Parts
<1>2. UNCHANGED <<path, fe, loaded, sus, resumed, boot, left, store, bus, queue, bug>>
  BY DEF ProbeDetails, Elsewhere
<1>3. /\ Queued' = Queued /\ xw = <<"details", n>> /\ xw # Idle
      /\ \A w, m : Busy(w, m) <=> (w = "details" /\ m = n)
  BY <1>2, QueueSame, IsBusy DEF ProbeDetails
<1>4. boot = <<"done">> /\ fe /\ loaded /\ Calm /\ dev[n].on = "probing"
  BY <1>1, <1>3, LateOnly DEF NodeOk, BusyOk, InProbe
<1>5. /\ dev' \in [Nodes -> Device] /\ \A m \in Nodes : m # n => dev'[m] = dev[m]
      /\ dev'[n].on = "probing" /\ UNCHANGED <<dev[n].gen, dev[n].state, dev[n].watch, dev[n].ring>>
      /\ \/ /\ xw' = <<"bind", n>> /\ dev'[n].otherend = path
            /\ \A w, m : Busy(w, m)' <=> (w = "bind" /\ m = n)
         \/ /\ xw' = <<"fatal", n>> /\ dev'[n].otherend = dev[n].otherend
            /\ \A w, m : Busy(w, m)' <=> (w = "fatal" /\ m = n)
  <2>1. dev \in [Nodes -> Device] /\ dev[n] \in Device /\ path \in Nat
    BY <1>1, <1>3, Typed DEF Shapes
  <2>2. dev[n].on = "probing"
    BY <1>4
  <2>3. CASE Offered(n)
    <3>. DEFINE d == [dev[n] EXCEPT !.otherend = path]
    <3>1. d \in Device /\ d.on = "probing" /\ d.gen = dev[n].gen /\ d.state = dev[n].state
          /\ d.watch = dev[n].watch /\ d.ring = dev[n].ring /\ d.otherend = path
      BY <2>1, <2>2 DEF Device
    <3>2. Set(n, d) /\ xw' = <<"bind", n>>
      BY <2>3 DEF ProbeDetails
    <3>. HIDE DEF d
    <3>. QED  BY <2>1, <3>1, <3>2, SetFacts, IsBusy
  <2>4. CASE ~Offered(n)
    <3>1. dev' = dev /\ xw' = <<"fatal", n>>
      BY <2>4 DEF ProbeDetails
    <3>. QED  BY <2>1, <2>2, <3>1, IsBusy
  <2>. QED  BY <2>3, <2>4
<1>6. path \in Nat /\ InProbe(n)' /\ Probes'
  BY <1>1, <1>5 DEF Shapes, InProbe, Probes
<1>7. Shapes'
  BY <1>1, <1>2, <1>4, <1>5 DEF Shapes, XwOk, XwSteps, SusOk, BootOk
<1>8. BusOk'
  BY <1>1, <1>2, <1>4, <1>5 DEF BusOk, OnBus, Listed
<1>9. InOrder'
  BY <1>1, <1>2 DEF InOrder, Walking, At, Unwatched, Fading, Restarting, Stage
<1>10. Early'
  BY <1>1, <1>2, <1>4 DEF Early
<1>11. ASSUME NEW m \in Nodes PROVE NodeOk(m)'
  <2>1. EntryOk(store[m]) /\ DevOk(m) /\ BusyOk(m) /\ ResumeOk(m) /\ FollowOk(m)
    BY <1>1 DEF NodeOk
  <2>2. /\ Calm' = Calm /\ At(m)' = At(m) /\ Pending(m)' = Pending(m)
        /\ Unwatched(m)' = Unwatched(m) /\ Fading(m)' = Fading(m) /\ Restarting(m)' = Restarting(m)
        /\ \A w : Stage(w, m)' = Stage(w, m)
    BY <1>2, <1>3, <1>4, <1>5, <1>6 DEF Calm, At, Pending, Walking, Unwatched, Fading, Restarting,
       Stage
  <2>3. EntryOk(store[m])'
    BY <2>1, <1>2
  <2>4. DevOk(m)'
    BY <2>1, <2>2, <1>2, <1>3, <1>4, <1>5, <1>6 DEF DevOk, Listed
  <2>5. BusyOk(m)'
    BY <2>1, <2>2, <1>2, <1>3, <1>5 DEF BusyOk, InProbe
  <2>6. ResumeOk(m)'
    BY <2>1, <2>2, <1>2, <1>3, <1>4, <1>5 DEF ResumeOk, Working
  <2>7. FollowOk(m)'
    BY <2>1, <2>2, <1>2, <1>3, <1>5, <1>6 DEF FollowOk, Working
  <2>. QED  BY <2>3, <2>4, <2>5, <2>6, <2>7 DEF NodeOk
<1>. QED  BY <1>7, <1>8, <1>9, <1>10, <1>11 DEF Inv

LEMMA BackendStep ==
  ASSUME Inv, NEW n \in Nodes, Backend(n) \/ Unplug(n)
  PROVE  Inv'
<1>1. left \in Left
  BY Parts DEF Shapes
<1>2. CASE BackendReady(n)
  BY <1>1, <1>2, TellStep DEF BackendReady, MayTell
<1>3. CASE BackendConnects(n)
  BY <1>1, <1>3, TellStep DEF BackendConnects, MayTell
<1>4. CASE BackendFollows(n)
  BY <1>1, <1>4, TellStep DEF BackendFollows, MayTell
<1>5. CASE Unplug(n)
  <2>1. left' \in Left /\ left'.migrations = left.migrations
    BY <1>1, <1>5 DEF Unplug, Left
  <2>. QED  BY <1>5, <2>1, TellStep DEF Unplug, MayTell
<1>. QED  BY <1>2, <1>3, <1>4, <1>5 DEF Backend

(* K is the device the next probe is of, if there is one.                  *)
Continues(d, K) ==
    /\ dev' \in [Nodes -> Device]
    /\ \A m \in Nodes : m \notin K => dev'[m] = d[m]
    /\ \A m \in K :
         /\ d[m].on = "plain" /\ dev'[m].on = "probing" /\ dev'[m].gen = d[m].gen
         /\ dev'[m].state = d[m].state /\ dev'[m].otherend = d[m].otherend
         /\ dev'[m].watch = d[m].watch /\ dev'[m].ring = d[m].ring
    /\ K = {} => \A m \in Nodes : d[m].on # "plain"
    /\ \A w, m : Busy(w, m)' <=> (w = "details" /\ m \in K)
    /\ xw' = Idle \/ \E k \in Nodes : xw' = <<"details", k>>

LEMMA ContinueFacts ==
  ASSUME bus \in Seq(Nodes), NEW d \in [Nodes -> Device], Continue(d),
         \A m \in Nodes : OnBus(m) <=> Listed(d[m])
  PROVE  \E K \in SUBSET Nodes : Continues(d, K)
<1>. DEFINE S == {n \in Nodes : d[n].on = "plain"}
<1>1. Plain(d) \in Seq(Nodes)
        /\ {Plain(d)[i] : i \in 1 .. Len(Plain(d))} = {bus[i] : i \in 1 .. Len(bus)} \cap S
  <2>1. Plain(d) = Among(bus, S)
    BY DEF Plain
  <2>. HIDE DEF S
  <2>. QED  BY <2>1, AmongSeq DEF Rest
<1>2. \A m \in S : m \in {bus[i] : i \in 1 .. Len(bus)}
  BY DEF OnBus, Listed
<1>3. CASE Plain(d) = <<>>
  <2>1. dev' = d /\ xw' = Idle
    BY <1>3 DEF Continue
  <2>2. S = {}
    BY <1>1, <1>2, <1>3
  <2>3. Continues(d, {})
    BY <2>1, <2>2, NotBusy DEF Continues
  <2>. QED  BY <2>3
<1>4. CASE Plain(d) # <<>>
  <2>. DEFINE k == Head(Plain(d))
              e == [d[k] EXCEPT !.on = "probing"]
  <2>1. k \in S
    <3>. HIDE DEF S
    <3>1. 1 \in 1 .. Len(Plain(d)) /\ k = Plain(d)[1]
      BY <1>1, <1>4
    <3>. QED  BY <1>1, <3>1
  <2>2. dev' = [d EXCEPT ![k] = e] /\ xw' = <<"details", k>>
    BY <1>4 DEF Continue
  <2>3. /\ e \in Device /\ e.on = "probing" /\ e.gen = d[k].gen /\ e.state = d[k].state
        /\ e.otherend = d[k].otherend /\ e.watch = d[k].watch /\ e.ring = d[k].ring
    BY <2>1 DEF Device
  <2>4. k \in Nodes /\ d[k].on = "plain"
    BY <2>1
  <2>. HIDE DEF k, e
  <2>5. dev' \in [Nodes -> Device] /\ dev'[k] = e /\ \A m \in Nodes : m # k => dev'[m] = d[m]
    BY <2>2, <2>3, <2>4
  <2>6. Continues(d, {k})
    BY <2>2, <2>3, <2>4, <2>5, IsBusy DEF Continues
  <2>. QED  BY <2>4, <2>6
<1>. QED  BY <1>3, <1>4

(* The same when the device before was n, which is e now.                  *)
Goes(n, e, K) ==
    /\ dev' \in [Nodes -> Device] /\ dev'[n] = e /\ n \notin K
    /\ \A m \in Nodes : m \notin K /\ m # n => dev'[m] = dev[m]
    /\ \A m \in K :
         /\ m # n /\ dev[m].on = "plain" /\ dev'[m].on = "probing" /\ dev'[m].gen = dev[m].gen
         /\ dev'[m].state = dev[m].state /\ dev'[m].otherend = dev[m].otherend
         /\ dev'[m].watch = dev[m].watch /\ dev'[m].ring = dev[m].ring
    /\ K = {} => \A m \in Nodes : dev'[m].on # "plain"
    /\ K # {} => Probes'
    /\ \A w, m : Busy(w, m)' <=> (w = "details" /\ m \in K)
    /\ xw' = Idle \/ \E k \in Nodes : xw' = <<"details", k>>

LEMMA GoesOn ==
  ASSUME Inv, NEW n \in Nodes, NEW e \in Device, Listed(dev[n]), e.on \in {"bound", "failed"},
         NEW d, d = [dev EXCEPT ![n] = e], Continue(d)
  PROVE  \E K \in SUBSET Nodes : Goes(n, e, K)
<1>1. bus \in Seq(Nodes) /\ dev \in [Nodes -> Device]
        /\ \A m \in Nodes : OnBus(m) <=> Listed(dev[m])
  BY Parts DEF Shapes, BusOk
<1>2. d \in [Nodes -> Device] /\ d[n] = e /\ \A m \in Nodes : m # n => d[m] = dev[m]
  BY <1>1
<1>3. \A m \in Nodes : OnBus(m) <=> Listed(d[m])
  BY <1>1, <1>2 DEF Listed
<1>4. PICK K \in SUBSET Nodes : Continues(d, K)
  BY <1>1, <1>2, <1>3, ContinueFacts
<1>5. n \notin K
  BY <1>2, <1>4 DEF Continues
<1>6. K # {} => Probes'
  BY <1>4 DEF Continues, Probes, InProbe
<1>. QED  BY <1>2, <1>4, <1>5, <1>6 DEF Continues, Goes

(* What __xenbus_switch_state did.                                        *)
Switched(n, to) ==
    /\ store' \in [Nodes -> Entry] /\ \A m \in Nodes : m # n => store'[m] = store[m]
    /\ store'[n].there = store[n].there /\ store'[n].gen = store[n].gen
    /\ store'[n].back = store[n].back
    /\ store[n].there /\ dev[n].state # to => store'[n].front = to
    /\ ~store[n].there \/ dev[n].state = to => store'[n].front = store[n].front
    /\ queue' \in Seq(Events)
    /\ \A m : Event("otherend", m) \in Queued' <=> Event("otherend", m) \in Queued
    /\ \A m : Event("device", m) \in Queued => Event("device", m) \in Queued'

LEMMA SwitchFacts ==
  ASSUME Inv, NEW n \in Nodes, NEW to \in {"Connected", "Closing", "Closed"}, SwitchState(n, to)
  PROVE  sus # <<"stopped">> /\ Switched(n, to)
<1>1. Shapes /\ NodeOk(n) /\ store[n] \in Entry /\ store \in [Nodes -> Entry]
        /\ queue \in Seq(Events)
  BY Parts, Typed DEF Shapes
<1>2. sus # <<"stopped">>
  BY DEF SwitchState, Talks
<1>3. Writes(n, to) <=> store[n].there /\ dev[n].state # to
  BY <1>1 DEF Writes, NodeOk, EntryOk
<1>4. CASE Writes(n, to)
  <2>. DEFINE s == [store[n] EXCEPT !.front = to]
  <2>1. s \in Entry /\ s.there = store[n].there /\ s.gen = store[n].gen /\ s.back = store[n].back
          /\ s.front = to
    BY <1>1 DEF Entry, States
  <2>2. Put(n, s) /\ queue' = queue \o FrontFires("key", n)
    BY <1>4 DEF SwitchState
  <2>3. queue' \in Seq(Events)
          /\ Queued' = Queued \cup (IF fe /\ HostKnows THEN {Event("key", n)} ELSE {})
    BY <1>1, <2>2, QueueFront
  <2>. HIDE DEF s
  <2>. QED  BY <1>1, <1>2, <1>3, <1>4, <2>1, <2>2, <2>3, PutFacts, EventsDiffer DEF Switched
<1>5. CASE ~Writes(n, to)
  <2>1. store' = store /\ queue' = queue
    BY <1>5 DEF SwitchState
  <2>. QED  BY <1>1, <1>2, <1>3, <1>5, <2>1, QueueSame DEF Switched
<1>. QED  BY <1>4, <1>5

LEMMA CalmFacts ==
  ASSUME Calm
  PROVE  ~Walking /\ \A m : ~At(m) /\ ~Pending(m) /\ ~Unwatched(m) /\ ~Fading(m) /\ ~Restarting(m)
                            /\ \A w : ~Stage(w, m)
  BY Places DEF Calm, Walking, At, Pending, Unwatched, Fading, Restarting, Stage, Idle

LEMMA RegisterDriverStep ==
  ASSUME Inv, RegisterDriver
  PROVE  Inv'
<1>1. Shapes /\ BusOk /\ Early /\ InOrder /\ \A m \in Nodes : NodeOk(m)
  BY Parts
<1>2. UNCHANGED <<store, path, left, bus, fe, queue, sus, resumed, boot, bug>> /\ loaded' = TRUE
  BY DEF RegisterDriver, host
<1>3. /\ ~loaded /\ boot = <<"done">> /\ xw = Idle /\ Calm /\ Queued' = Queued
      /\ \A w, m : ~Busy(w, m)
  BY <1>1, <1>2, QueueSame, NotBusy DEF RegisterDriver, Early, Calm
<1>4. \A m \in Nodes : dev[m].on \in {"none", "plain"}
  BY <1>1, <1>3 DEF Early
<1>5. \E K \in SUBSET Nodes : Continues(dev, K)
  <2>1. bus \in Seq(Nodes) /\ dev \in [Nodes -> Device]
          /\ \A m \in Nodes : OnBus(m) <=> Listed(dev[m])
    BY <1>1 DEF Shapes, BusOk
  <2>. QED  BY <2>1, ContinueFacts DEF RegisterDriver
<1>6. PICK K \in SUBSET Nodes : Continues(dev, K)
  BY <1>5
<1>7. /\ dev' \in [Nodes -> Device] /\ \A m \in Nodes : m \notin K => dev'[m] = dev[m]
      /\ \A m \in K : /\ dev[m].on = "plain" /\ dev'[m].on = "probing" /\ dev'[m].gen = dev[m].gen
                      /\ dev'[m].state = dev[m].state /\ dev'[m].otherend = dev[m].otherend
                      /\ dev'[m].watch = dev[m].watch /\ dev'[m].ring = dev[m].ring
      /\ K = {} => \A m \in Nodes : dev[m].on # "plain"
      /\ \A w, m : Busy(w, m)' <=> (w = "details" /\ m \in K)
      /\ xw' = Idle \/ \E k \in Nodes : xw' = <<"details", k>>
  BY <1>6 DEF Continues
<1>8. K # {} => Probes'
  BY <1>7 DEF Probes, InProbe
<1>9. /\ ~Walking
      /\ \A m : ~At(m) /\ ~Pending(m) /\ ~Unwatched(m) /\ ~Fading(m) /\ ~Restarting(m)
      /\ \A w, m : ~Stage(w, m)
  BY <1>3, CalmFacts
<1>10. Shapes'
  BY <1>1, <1>2, <1>3, <1>7 DEF Shapes, XwOk, XwSteps, SusOk, BootOk
<1>11. BusOk'
  BY <1>1, <1>2, <1>7 DEF BusOk, OnBus, Listed
<1>12. InOrder'
  BY <1>2, <1>9 DEF InOrder, Walking, At, Unwatched, Fading, Restarting, Stage
<1>13. Early'
  BY <1>1, <1>2, <1>3 DEF Early
<1>14. ASSUME NEW m \in Nodes PROVE NodeOk(m)'
  <2>1. EntryOk(store[m]) /\ DevOk(m) /\ BusyOk(m) /\ ResumeOk(m) /\ FollowOk(m)
    BY <1>1 DEF NodeOk
  <2>2. /\ Calm' = Calm /\ At(m)' = At(m) /\ Pending(m)' = Pending(m)
        /\ Unwatched(m)' = Unwatched(m) /\ Fading(m)' = Fading(m) /\ Restarting(m)' = Restarting(m)
        /\ \A w : Stage(w, m)' = Stage(w, m)
    BY <1>2 DEF Calm, At, Pending, Walking, Unwatched, Fading, Restarting, Stage
  <2>3. EntryOk(store[m])'
    BY <2>1, <1>2
  <2>4. DevOk(m)'
    BY <2>1, <1>2, <1>3, <1>7, <1>9 DEF DevOk, Probes, InProbe, Listed
  <2>5. BusyOk(m)'
    BY <2>2, <1>2, <1>3, <1>4, <1>7 DEF BusyOk, InProbe
  <2>6. ResumeOk(m)'
    BY <2>1, <2>2, <1>3, <1>7, <1>9 DEF ResumeOk
  <2>7. FollowOk(m)'
    BY <1>4, <1>7 DEF FollowOk
  <2>. QED  BY <2>3, <2>4, <2>5, <2>6, <2>7 DEF NodeOk
<1>. QED  BY <1>10, <1>11, <1>12, <1>13, <1>14 DEF Inv

LEMMA ProbeRefusesStep ==
  ASSUME Inv, NEW n \in Nodes, ProbeRefuses(n)
  PROVE  Inv'
<1>1. Shapes /\ BusOk /\ Early /\ InOrder /\ \A m \in Nodes : NodeOk(m)
  BY Parts
<1>2. UNCHANGED <<store, path, bus, dev, fe, loaded, queue, sus, resumed, boot, bug>>
  BY DEF ProbeRefuses, driver
<1>3. /\ Queued' = Queued /\ xw = <<"bind", n>> /\ xw # Idle /\ xw' = <<"unfit", n>>
      /\ \A w, m : Busy(w, m) <=> (w = "bind" /\ m = n)
      /\ \A w, m : Busy(w, m)' <=> (w = "unfit" /\ m = n)
  BY <1>2, QueueSame, IsBusy DEF ProbeRefuses
<1>4. boot = <<"done">> /\ fe /\ loaded /\ Calm
  BY <1>1, <1>3, LateOnly DEF NodeOk, BusyOk, InProbe
<1>5. left' \in Left /\ left'.migrations = left.migrations
  <2>1. left \in Left
    BY <1>1 DEF Shapes
  <2>. QED  BY <2>1 DEF ProbeRefuses, Left
<1>6. InProbe(n)' /\ Probes'
  BY <1>3 DEF InProbe, Probes
<1>7. Shapes'
  BY <1>1, <1>2, <1>3, <1>5 DEF Shapes, XwOk, XwSteps, SusOk, BootOk
<1>8. BusOk'
  BY <1>1, <1>2 DEF BusOk, OnBus
<1>9. InOrder'
  BY <1>1, <1>2 DEF InOrder, Walking, At, Unwatched, Fading, Restarting, Stage
<1>10. Early'
  BY <1>1, <1>2, <1>4, <1>5 DEF Early
<1>11. ASSUME NEW m \in Nodes PROVE NodeOk(m)'
  <2>1. EntryOk(store[m]) /\ DevOk(m) /\ BusyOk(m) /\ ResumeOk(m) /\ FollowOk(m)
    BY <1>1 DEF NodeOk
  <2>2. /\ Calm' = Calm /\ At(m)' = At(m) /\ Pending(m)' = Pending(m)
        /\ Unwatched(m)' = Unwatched(m) /\ Fading(m)' = Fading(m) /\ Restarting(m)' = Restarting(m)
        /\ \A w : Stage(w, m)' = Stage(w, m)
    BY <1>2, <1>3, <1>4, <1>5, <1>6 DEF Calm, At, Pending, Walking, Unwatched, Fading, Restarting,
       Stage
  <2>3. EntryOk(store[m])'
    BY <2>1, <1>2
  <2>4. DevOk(m)'
    BY <2>1, <2>2, <1>2, <1>3 DEF DevOk, Probes, InProbe
  <2>5. BusyOk(m)'
    BY <2>1, <2>2, <1>2, <1>3 DEF BusyOk, InProbe
  <2>6. ResumeOk(m)'
    BY <2>1, <2>2, <1>2, <1>3 DEF ResumeOk, Working
  <2>7. FollowOk(m)'
    BY <2>1, <2>2, <1>2, <1>3 DEF FollowOk, Working
  <2>. QED  BY <2>3, <2>4, <2>5, <2>6, <2>7 DEF NodeOk
<1>. QED  BY <1>7, <1>8, <1>9, <1>10, <1>11 DEF Inv

LEMMA ProbeBindStep ==
  ASSUME Inv, NEW n \in Nodes, ProbeBind(n)
  PROVE  Inv'
<1>1. Shapes /\ BusOk /\ Early /\ InOrder /\ \A m \in Nodes : NodeOk(m)
  BY Parts
<1>2. UNCHANGED <<store, path, left, bus, fe, loaded, sus, resumed, boot>>
  BY DEF ProbeBind, Elsewhere
<1>3. /\ xw = <<"bind", n>> /\ xw # Idle /\ \A w, m : Busy(w, m) <=> (w = "bind" /\ m = n)
  BY IsBusy DEF ProbeBind
<1>4. boot = <<"done">> /\ fe /\ loaded /\ Calm /\ dev[n].on = "probing" /\ dev[n].otherend = path
  BY <1>1, <1>3, LateOnly DEF NodeOk, BusyOk, InProbe
<1>5. /\ dev[n].gen = store[n].gen /\ dev[n].watch = "none" /\ ~dev[n].ring
           /\ dev[n].state = "Initialising"
      /\ store[n].there => store[n].front = "Initialising"
      /\ bug' = FALSE
  BY <1>1, <1>4 DEF NodeOk, DevOk, ProbeBind, Uses
<1>6. queue' \in Seq(Events) /\ Queued' = Queued \cup {Event("otherend", n)}
  BY <1>1, EventsDiffer, QueueAppend DEF ProbeBind, Shapes
<1>7. \E e \in Device, K \in SUBSET Nodes : /\ Goes(n, e, K) /\ e.on = "bound" /\ e.gen = dev[n].gen
        /\ e.state = dev[n].state
      /\ e.otherend = path /\ e.watch = "on" /\ ~e.ring
  <2>. DEFINE e == [Watching(n) EXCEPT !.on = "bound"]
  <2>1. dev[n] \in Device /\ Listed(dev[n])
    BY <1>1, <1>4, Typed DEF Listed
  <2>2. /\ e \in Device /\ e.on = "bound" /\ e.gen = dev[n].gen /\ e.state = dev[n].state
        /\ e.otherend = path /\ e.watch = "on" /\ ~e.ring
    BY <2>1, <1>4, <1>5 DEF Device, Watching
  <2>3. Continue([dev EXCEPT ![n] = e])
    BY DEF ProbeBind
  <2>. HIDE DEF e
  <2>. QED  BY <2>1, <2>2, <2>3, GoesOn
<1>8. PICK e \in Device, K \in SUBSET Nodes : /\ Goes(n, e, K) /\ e.on = "bound"
             /\ e.gen = dev[n].gen /\ e.state = dev[n].state
      /\ e.otherend = path /\ e.watch = "on" /\ ~e.ring
  BY <1>7
<1>9. /\ dev'[n].on = "bound" /\ dev'[n].gen = dev[n].gen /\ dev'[n].state = dev[n].state
      /\ dev'[n].otherend = path /\ dev'[n].watch = "on" /\ ~dev'[n].ring
      /\ dev' \in [Nodes -> Device] /\ n \notin K
      /\ \A m \in Nodes : m \notin K /\ m # n => dev'[m] = dev[m]
      /\ \A m \in K : /\ m # n /\ dev[m].on = "plain" /\ dev'[m].on = "probing"
           /\ dev'[m].gen = dev[m].gen
                    /\ dev'[m].state = dev[m].state /\ dev'[m].otherend = dev[m].otherend
                    /\ dev'[m].watch = dev[m].watch /\ dev'[m].ring = dev[m].ring
      /\ K = {} => \A m \in Nodes : dev'[m].on # "plain"
      /\ K # {} => Probes'
      /\ \A w, m : Busy(w, m)' <=> (w = "details" /\ m \in K)
      /\ xw' = Idle \/ \E k \in Nodes : xw' = <<"details", k>>
  BY <1>8 DEF Goes
<1>10. path \in Nat
  BY <1>1 DEF Shapes
<1>11. /\ ~Walking
       /\ \A m : ~At(m) /\ ~Pending(m) /\ ~Unwatched(m) /\ ~Fading(m) /\ ~Restarting(m)
       /\ \A w, m : ~Stage(w, m)
  BY <1>4, CalmFacts
<1>12. Shapes'
  BY <1>1, <1>2, <1>4, <1>5, <1>6, <1>9 DEF Shapes, XwOk, XwSteps, SusOk, BootOk
<1>13. BusOk'
  BY <1>1, <1>2, <1>4, <1>9 DEF BusOk, OnBus, Listed
<1>14. InOrder'
  BY <1>2, <1>11 DEF InOrder, Walking, At, Unwatched, Fading, Restarting, Stage
<1>15. Early'
  BY <1>1, <1>2, <1>4 DEF Early
<1>16. ASSUME NEW m \in Nodes PROVE NodeOk(m)'
  <2>1. EntryOk(store[m]) /\ DevOk(m) /\ BusyOk(m) /\ ResumeOk(m) /\ FollowOk(m)
    BY <1>1 DEF NodeOk
  <2>2. /\ Calm' = Calm /\ At(m)' = At(m) /\ Pending(m)' = Pending(m)
        /\ Unwatched(m)' = Unwatched(m) /\ Fading(m)' = Fading(m) /\ Restarting(m)' = Restarting(m)
        /\ \A w : Stage(w, m)' = Stage(w, m)
    BY <1>2 DEF Calm, At, Pending, Walking, Unwatched, Fading, Restarting, Stage
  <2>3. EntryOk(store[m])'
    BY <2>1, <1>2
  <2>4. DevOk(m)'
    BY <2>1, <1>2, <1>3, <1>4, <1>6, <1>9, <1>11, EventsDiffer DEF DevOk, Listed
  <2>5. BusyOk(m)'
    BY <2>1, <2>2, <1>2, <1>3, <1>4, <1>9 DEF BusyOk, InProbe
  <2>6. ResumeOk(m)'
    BY <2>1, <2>2, <1>4, <1>9, <1>11 DEF ResumeOk
  <2>7. FollowOk(m)'
    BY <2>1, <1>2, <1>3, <1>5, <1>6, <1>9, <1>11 DEF FollowOk, Working
  <2>. QED  BY <2>3, <2>4, <2>5, <2>6, <2>7 DEF NodeOk
<1>. QED  BY <1>12, <1>13, <1>14, <1>15, <1>16 DEF Inv

LEMMA ProbeFailsStep ==
  ASSUME Inv, NEW n \in Nodes, ProbeFails(n)
  PROVE  Inv'
<1>1. Shapes /\ BusOk /\ Early /\ InOrder /\ \A m \in Nodes : NodeOk(m)
  BY Parts
<1>2. UNCHANGED <<path, left, bus, fe, loaded, sus, resumed, boot, bug>>
  BY DEF ProbeFails, Elsewhere
<1>3. /\ xw = <<"fatal", n>> \/ xw = <<"unfit", n>>
      /\ xw # Idle /\ InProbe(n) /\ \A w, m : Busy(w, m) => m = n /\ w \in {"fatal", "unfit"}
  BY IsBusy DEF ProbeFails, InProbe, Busy
<1>4. boot = <<"done">> /\ fe /\ loaded /\ Calm /\ dev[n].on = "probing"
  BY <1>1, <1>3, LateOnly DEF NodeOk, BusyOk
<1>5. /\ dev[n].gen = store[n].gen /\ dev[n].watch = "none" /\ ~dev[n].ring
           /\ dev[n].otherend <= path
      /\ path \in Nat /\ Event("otherend", n) \notin Queued
  BY <1>1, <1>4 DEF NodeOk, DevOk, Shapes
<1>6. PICK to \in {"Closing", "Closed"} : SwitchState(n, to)
             /\ Continue([dev EXCEPT ![n].on = "failed", ![n].state = to])
  BY DEF ProbeFails
<1>7. to \in {"Closing", "Closed"} /\ Switched(n, to)
  BY <1>6, SwitchFacts
<1>8. /\ to \in {"Closing", "Closed"} /\ store' \in [Nodes -> Entry] /\ \A m \in Nodes : m # n
           => store'[m] = store[m]
      /\ store'[n].there = store[n].there /\ store'[n].gen = store[n].gen
      /\ store'[n].back = store[n].back
      /\ store[n].there /\ dev[n].state # to => store'[n].front = to
      /\ ~store[n].there \/ dev[n].state = to => store'[n].front = store[n].front
      /\ queue' \in Seq(Events)
      /\ \A m : Event("otherend", m) \in Queued' <=> Event("otherend", m) \in Queued
      /\ \A m : Event("device", m) \in Queued => Event("device", m) \in Queued'
  BY <1>7 DEF Switched
<1>9. \E e \in Device, K \in SUBSET Nodes : /\ Goes(n, e, K) /\ e.on = "failed"
        /\ e.gen = dev[n].gen /\ e.state = to
      /\ e.otherend = dev[n].otherend /\ e.watch = "none" /\ ~e.ring
  <2>. DEFINE e == [dev[n] EXCEPT !.on = "failed", !.state = to]
  <2>1. dev \in [Nodes -> Device] /\ dev[n] \in Device /\ Listed(dev[n])
    BY <1>1, <1>4, Typed DEF Listed, Shapes
  <2>2. /\ e \in Device /\ e.on = "failed" /\ e.gen = dev[n].gen /\ e.state = to
        /\ e.otherend = dev[n].otherend /\ e.watch = "none" /\ ~e.ring
    BY <2>1, <1>5 DEF Device, States
  <2>3. [dev EXCEPT ![n] = e] = [dev EXCEPT ![n].on = "failed", ![n].state = to]
    BY <2>1
  <2>4. Continue([dev EXCEPT ![n] = e])
    BY <2>3, <1>6
  <2>. HIDE DEF e
  <2>. QED  BY <2>1, <2>2, <2>4, GoesOn
<1>10. PICK e \in Device, K \in SUBSET Nodes : /\ Goes(n, e, K) /\ e.on = "failed"
              /\ e.gen = dev[n].gen /\ e.state = to
       /\ e.otherend = dev[n].otherend /\ e.watch = "none" /\ ~e.ring
  BY <1>9
<1>11. /\ dev'[n].on = "failed" /\ dev'[n].gen = dev[n].gen /\ dev'[n].state = to
       /\ dev'[n].otherend = dev[n].otherend /\ dev'[n].watch = "none" /\ ~dev'[n].ring
       /\ dev' \in [Nodes -> Device] /\ n \notin K
       /\ \A m \in Nodes : m \notin K /\ m # n => dev'[m] = dev[m]
       /\ \A m \in K : /\ m # n /\ dev[m].on = "plain" /\ dev'[m].on = "probing"
            /\ dev'[m].gen = dev[m].gen
                     /\ dev'[m].state = dev[m].state /\ dev'[m].otherend = dev[m].otherend
                     /\ dev'[m].watch = dev[m].watch /\ dev'[m].ring = dev[m].ring
       /\ K = {} => \A m \in Nodes : dev'[m].on # "plain"
       /\ K # {} => Probes'
       /\ \A w, m : Busy(w, m)' <=> (w = "details" /\ m \in K)
       /\ xw' = Idle \/ \E k \in Nodes : xw' = <<"details", k>>
  BY <1>10 DEF Goes
<1>12. /\ ~Walking
       /\ \A m : ~At(m) /\ ~Pending(m) /\ ~Unwatched(m) /\ ~Fading(m) /\ ~Restarting(m)
       /\ \A w, m : ~Stage(w, m)
  BY <1>4, CalmFacts
<1>13. Shapes'
  <2>1. XwOk'
    BY <1>11 DEF XwOk, XwSteps
  <2>2. SusOk' /\ BootOk'
    BY <1>1, <1>2 DEF Shapes, SusOk, BootOk
  <2>. QED  BY <1>1, <1>2, <1>8, <1>11, <2>1, <2>2 DEF Shapes
<1>14. BusOk'
  BY <1>1, <1>2, <1>4, <1>11 DEF BusOk, OnBus, Listed
<1>15. InOrder'
  BY <1>2, <1>12 DEF InOrder, Walking, At, Unwatched, Fading, Restarting, Stage
<1>16. Early'
  BY <1>1, <1>2, <1>4 DEF Early
<1>17. ASSUME NEW m \in Nodes PROVE NodeOk(m)'
  <2>1. EntryOk(store[m]) /\ DevOk(m) /\ BusyOk(m) /\ ResumeOk(m) /\ FollowOk(m)
    BY <1>1 DEF NodeOk
  <2>2. /\ Calm' = Calm /\ At(m)' = At(m) /\ Pending(m)' = Pending(m)
        /\ Unwatched(m)' = Unwatched(m) /\ Fading(m)' = Fading(m) /\ Restarting(m)' = Restarting(m)
        /\ \A w : Stage(w, m)' = Stage(w, m)
    BY <1>2 DEF Calm, At, Pending, Walking, Unwatched, Fading, Restarting, Stage
  <2>3. /\ UNCHANGED <<path, fe, loaded, sus, resumed, boot>> /\ loaded /\ Calm /\ fe
             /\ path \in Nat
        /\ store'[m].there = store[m].there /\ store'[m].gen = store[m].gen
             /\ store'[m].back = store[m].back
        /\ Event("otherend", m) \in Queued' <=> Event("otherend", m) \in Queued
        /\ Event("device", m) \in Queued => Event("device", m) \in Queued'
        /\ ~At(m) /\ ~Pending(m) /\ ~Unwatched(m) /\ ~Fading(m) /\ ~Restarting(m)
             /\ \A w : ~Stage(w, m)
    BY <1>2, <1>4, <1>5, <1>8, <1>12
  <2>4. \/ /\ m = n /\ dev'[m].on = "failed" /\ dev'[m].gen = store[m].gen /\ dev'[m].watch = "none"
                /\ ~dev'[m].ring
           /\ dev'[m].otherend <= path /\ Event("otherend", m) \notin Queued
                /\ (store[m].there \/ store'[m].front = store[m].front)
           /\ store'[m].front \in {"Closing", "Closed", store[m].front} /\ dev[m].on = "probing"
           /\ \A w : ~Busy(w, m)'
        \/ /\ m # n /\ store'[m] = store[m] /\ dev[m].on = "plain" /\ dev'[m].on = "probing"
                /\ dev'[m].gen = dev[m].gen
           /\ dev'[m].state = dev[m].state /\ dev'[m].otherend = dev[m].otherend
           /\ dev'[m].watch = dev[m].watch /\ dev'[m].ring = dev[m].ring
           /\ \A w : Busy(w, m)' <=> w = "details"
        \/ /\ m # n /\ store'[m] = store[m] /\ dev'[m] = dev[m] /\ \A w : ~Busy(w, m)'
    BY <1>3, <1>4, <1>5, <1>8, <1>11
  <2>5. dev'[m].on = "plain" => Probes'
    BY <1>11
  <2>6. \A w : Busy(w, m) => m = n /\ w \in {"fatal", "unfit"}
    BY <1>3
  <2>7. EntryOk(store[m])'
    BY <2>1, <2>3, <2>4 DEF EntryOk
  <2>8. DevOk(m)'
    BY <2>1, <2>3, <2>4, <2>5, <2>6 DEF DevOk, Listed
  <2>9. BusyOk(m)'
    BY <2>1, <2>2, <2>3, <2>4, <2>6 DEF BusyOk, InProbe
  <2>10. ResumeOk(m)'
    BY <2>1, <2>2, <2>3, <2>4 DEF ResumeOk
  <2>11. FollowOk(m)'
    BY <2>1, <2>3, <2>4, <2>6 DEF FollowOk, Working
  <2>. QED  BY <2>7, <2>8, <2>9, <2>10, <2>11 DEF NodeOk
<1>. QED  BY <1>13, <1>14, <1>15, <1>16, <1>17 DEF Inv

LEMMA ProbeNodeStep ==
  ASSUME Inv, NEW n \in Nodes, ProbeNode(n)
  PROVE  Inv'
<1>1. Shapes /\ BusOk /\ Early /\ InOrder /\ \A m \in Nodes : NodeOk(m)
  BY Parts
<1>2. UNCHANGED <<path, fe, loaded, sus, resumed, boot, left, store, queue, bug>>
  BY DEF ProbeNode, Elsewhere
<1>3. Queued' = Queued /\ xw = <<"probe", n>> /\ xw # Idle
        /\ \A w, m : Busy(w, m) <=> (w = "probe" /\ m = n)
  BY <1>2, QueueSame, IsBusy DEF ProbeNode
<1>4. boot = <<"done">> /\ fe /\ Calm /\ dev[n].on = "none" /\ dev[n] = NoDevice /\ path \in Nat
  BY <1>1, <1>3, LateOnly DEF NodeOk, BusyOk, DevOk, Shapes
<1>5. \/ /\ store[n].front # "Initialising" /\ bus' = bus /\ dev' = dev /\ xw' = Idle
              /\ \A w, m : ~Busy(w, m)'
      \/ /\ store[n].front = "Initialising" /\ store[n].there /\ bus' = Append(bus, n)
         /\ dev' \in [Nodes -> Device] /\ \A m \in Nodes : m # n => dev'[m] = dev[m]
         /\ dev'[n].on = (IF loaded THEN "probing" ELSE "plain") /\ dev'[n].gen = store[n].gen
         /\ dev'[n].state = "Initialising" /\ dev'[n].otherend = 0 /\ dev'[n].watch = "none"
              /\ ~dev'[n].ring
         /\ \/ loaded /\ xw' = <<"details", n>>
                 /\ \A w, m : Busy(w, m)' <=> (w = "details" /\ m = n)
            \/ ~loaded /\ xw' = Idle /\ \A w, m : ~Busy(w, m)'
  <2>1. dev \in [Nodes -> Device] /\ store[n].gen \in Nat /\ loaded \in BOOLEAN /\ EntryOk(store[n])
    BY <1>1, Typed DEF Shapes, NodeOk
  <2>2. CASE store[n].front = "Initialising"
    <3>. DEFINE d == [New(n) EXCEPT !.on = IF loaded THEN "probing" ELSE "plain"]
    <3>1. /\ d \in Device /\ d.on = (IF loaded THEN "probing" ELSE "plain") /\ d.gen = store[n].gen
          /\ d.state = "Initialising" /\ d.otherend = 0 /\ d.watch = "none" /\ ~d.ring
      BY <2>1 DEF New, NoDevice, Device, States
    <3>2. Set(n, d) /\ bus' = Append(bus, n) /\ xw' = IF loaded THEN <<"details", n>> ELSE Idle
      BY <2>2 DEF ProbeNode
    <3>3. store[n].there
      BY <2>1, <2>2 DEF EntryOk
    <3>. HIDE DEF d
    <3>4. dev' \in [Nodes -> Device] /\ dev'[n] = d /\ \A m \in Nodes : m # n => dev'[m] = dev[m]
      BY <2>1, <3>1, <3>2, SetFacts
    <3>. QED  BY <2>1, <2>2, <3>1, <3>2, <3>3, <3>4, IsBusy, NotBusy
  <2>3. CASE store[n].front # "Initialising"
    BY <2>3, NotBusy DEF ProbeNode
  <2>. QED  BY <2>2, <2>3
<1>6. /\ bus' \in Seq(Nodes)
      /\ \A i, j \in 1 .. Len(bus') : bus'[i] = bus'[j] => i = j
      /\ \A m \in Nodes : OnBus(m)' <=> OnBus(m) \/ (m = n /\ store[n].front = "Initialising")
  <2>1. ~OnBus(n) /\ bus \in Seq(Nodes) /\ \A i, j \in 1 .. Len(bus) : bus[i] = bus[j] => i = j
    BY <1>1, <1>4 DEF BusOk, Listed, Shapes
  <2>2. CASE bus' = bus /\ store[n].front # "Initialising"
    BY <2>1, <2>2 DEF OnBus
  <2>3. CASE bus' = Append(bus, n) /\ store[n].front = "Initialising"
    BY <2>1, <2>3, BusAppend
  <2>. QED  BY <1>5, <2>2, <2>3
<1>7. loaded => \A m \in Nodes : dev[m].on # "plain"
  BY <1>1, <1>3 DEF NodeOk, DevOk, Probes, InProbe
<1>8. loaded \in BOOLEAN
  BY <1>1 DEF Shapes
<1>9. /\ ~Walking
      /\ \A m : ~At(m) /\ ~Pending(m) /\ ~Unwatched(m) /\ ~Fading(m) /\ ~Restarting(m)
      /\ \A w, m : ~Stage(w, m)
  BY <1>4, CalmFacts
<1>10. Shapes'
  <2>1. XwOk'
    BY <1>5 DEF XwOk, XwSteps
  <2>2. SusOk' /\ BootOk'
    BY <1>1, <1>2 DEF Shapes, SusOk, BootOk
  <2>. QED  BY <1>1, <1>2, <1>5, <1>6, <2>1, <2>2 DEF Shapes
<1>11. BusOk'
  BY <1>1, <1>4, <1>5, <1>6 DEF BusOk, Listed
<1>12. InOrder'
  BY <1>2, <1>9 DEF InOrder, Walking, At, Unwatched, Fading, Restarting, Stage
<1>13. Early'
  BY <1>1, <1>2, <1>4, <1>5 DEF Early
<1>14. ASSUME NEW m \in Nodes PROVE NodeOk(m)'
  <2>1. EntryOk(store[m]) /\ DevOk(m) /\ BusyOk(m) /\ ResumeOk(m) /\ FollowOk(m)
    BY <1>1 DEF NodeOk
  <2>2. /\ Calm' = Calm /\ At(m)' = At(m) /\ Pending(m)' = Pending(m)
        /\ Unwatched(m)' = Unwatched(m) /\ Fading(m)' = Fading(m) /\ Restarting(m)' = Restarting(m)
        /\ \A w : Stage(w, m)' = Stage(w, m)
    BY <1>2 DEF Calm, At, Pending, Walking, Unwatched, Fading, Restarting, Stage
  <2>3. EntryOk(store[m])'
    BY <2>1, <1>2
  <2>4. DevOk(m)'
    BY <2>1, <1>2, <1>3, <1>4, <1>5, <1>9 DEF DevOk, Probes, InProbe
  <2>5. BusyOk(m)'
    BY <2>1, <2>2, <1>2, <1>3, <1>5 DEF BusyOk, InProbe
  <2>6. ResumeOk(m)'
    BY <2>1, <2>2, <1>4, <1>5, <1>9 DEF ResumeOk
  <2>7. FollowOk(m)'
    BY <2>1, <1>2, <1>3, <1>5, <1>9 DEF FollowOk, Working
  <2>. QED  BY <2>3, <2>4, <2>5, <2>6, <2>7 DEF NodeOk
<1>. QED  BY <1>10, <1>11, <1>12, <1>13, <1>14 DEF Inv
--------------------------------------------------------------------------------
(* Removal, and what the driver makes of the other end.                    *)
LEMMA DevRemoveStep ==
  ASSUME Inv, NEW n \in Nodes, DevRemove(n)
  PROVE  Inv'
<1>1. Shapes /\ BusOk /\ Early /\ InOrder /\ \A m \in Nodes : NodeOk(m)
  BY Parts
<1>2. UNCHANGED <<path, fe, loaded, sus, resumed, boot, left>>
  BY DEF DevRemove, Elsewhere
<1>3. xw = <<"remove", n>> /\ xw # Idle /\ \A w, m : Busy(w, m) <=> (w = "remove" /\ m = n)
  BY IsBusy DEF DevRemove
<1>4. boot = <<"done">> /\ fe /\ ~store[n].there /\ Listed(dev[n]) /\ (Calm \/ Fading(n))
  BY <1>1, <1>3, LateOnly DEF NodeOk, BusyOk
<1>5. queue' \in Seq(Events) /\ Queued' = Queued \ {Event("otherend", n)}
  BY <1>1, QueueWithout DEF DevRemove, Shapes
<1>6. /\ bus' \in Seq(Nodes)
      /\ \A i, j \in 1 .. Len(bus') : bus'[i] = bus'[j] => i = j
      /\ \A m \in Nodes : OnBus(m)' <=> OnBus(m) /\ m # n
      /\ (\A i \in 1 .. Len(bus) : bus[i] \in resumed)
           => \A i \in 1 .. Len(bus') : bus'[i] \in resumed
      /\ (\A i, j \in 1 .. Len(bus) : i < j /\ bus[j] \in resumed => bus[i] \in resumed)
                => \A i, j \in 1 .. Len(bus') : i < j /\ bus'[j] \in resumed => bus'[i] \in resumed
  <2>1. bus \in Seq(Nodes) /\ bus' = BusWithout(n) /\ \A i, j \in 1 .. Len(bus) : bus[i] = bus[j]
          => i = j
    BY <1>1 DEF DevRemove, Shapes, BusOk
  <2>. QED  BY <2>1, BusShrinks
<1>7. bug' = FALSE
  <2>1. dev[n].watch # "going"
    <3>. SUFFICES ASSUME dev[n].watch = "going" PROVE FALSE
      OBVIOUS
    <3>1. Stage("wait", n)
      BY <1>1 DEF NodeOk, ResumeOk
    <3>2. ~Calm /\ ~Fading(n)
      BY <3>1, Places DEF Calm, Fading, Stage, Idle
    <3>. QED  BY <1>4, <3>2
  <2>. QED  BY <2>1 DEF DevRemove, Uses
<1>8. /\ store' \in [Nodes -> Entry] /\ \A m \in Nodes : m # n => store'[m] = store[m]
      /\ store'[n].there = store[n].there /\ store'[n].gen = store[n].gen
      /\ store'[n].back = store[n].back /\ store'[n].front = store[n].front
      /\ dev' \in [Nodes -> Device] /\ \A m \in Nodes : m # n => dev'[m] = dev[m]
      /\ dev'[n].otherend = 0 /\ dev'[n].watch = "none" /\ ~dev'[n].ring
      /\ \/ dev'[n] = NoDevice /\ dev'[n].on = "none" /\ xw' = Idle /\ \A w, m : ~Busy(w, m)'
         \/ /\ dev'[n].on = "leaving" /\ dev'[n].gen = store[n].gen /\ loaded
            /\ xw' = <<"close", n>> /\ \A w, m : Busy(w, m)' <=> (w = "close" /\ m = n)
  <2>1. dev \in [Nodes -> Device] /\ dev[n] \in Device /\ store \in [Nodes -> Entry]
          /\ store[n] \in Entry
    BY <1>1, Typed DEF Shapes
  <2>2. CASE dev[n].on = "bound"
    <3>. DEFINE d == [dev[n] EXCEPT !.on = "leaving", !.otherend = 0, !.watch = "none", !.ring = FALSE]
                s == [store[n] EXCEPT !.keys = Older(@), !.mapped = Older(@)]
    <3>1. d \in Device /\ d.on = "leaving" /\ d.gen = dev[n].gen /\ d.otherend = 0
            /\ d.watch = "none" /\ ~d.ring
      BY <2>1 DEF Device
    <3>2. /\ s \in Entry /\ s.there = store[n].there /\ s.gen = store[n].gen
               /\ s.back = store[n].back
          /\ s.front = store[n].front
      BY <2>1 DEF Entry, Older
    <3>3. Set(n, d) /\ Put(n, s) /\ xw' = <<"close", n>>
      BY <2>2 DEF DevRemove, DropRing
    <3>4. dev[n].gen = store[n].gen /\ (loaded \in BOOLEAN => loaded)
      BY <1>1, <2>2 DEF NodeOk, DevOk, Early
    <3>7. loaded
      BY <1>1, <3>4 DEF Shapes
    <3>. HIDE DEF d, s
    <3>5. dev' \in [Nodes -> Device] /\ dev'[n] = d /\ \A m \in Nodes : m # n => dev'[m] = dev[m]
      BY <2>1, <3>1, <3>3, SetFacts
    <3>6. store' \in [Nodes -> Entry] /\ store'[n] = s /\ \A m \in Nodes : m # n
            => store'[m] = store[m]
      BY <2>1, <3>2, <3>3, PutFacts
    <3>. QED  BY <3>1, <3>2, <3>3, <3>4, <3>5, <3>6, <3>7, IsBusy
  <2>3. CASE dev[n].on # "bound"
    <3>1. NoDevice \in Device /\ NoDevice.on = "none" /\ NoDevice.otherend = 0
            /\ NoDevice.watch = "none" /\ ~NoDevice.ring
      BY DEF NoDevice, Device, States
    <3>2. Set(n, NoDevice) /\ xw' = Idle /\ store' = store
      BY <2>3 DEF DevRemove
    <3>3. dev' \in [Nodes -> Device] /\ dev'[n] = NoDevice /\ \A m \in Nodes : m # n
            => dev'[m] = dev[m]
      BY <2>1, <3>1, <3>2, SetFacts
    <3>. QED  BY <2>1, <3>1, <3>2, <3>3, NotBusy
  <2>. QED  BY <2>2, <2>3
<1>9. path \in Nat
  BY <1>1 DEF Shapes
<1>10. \A m \in Nodes : dev[m].on # "plain" \/ ~loaded
  BY <1>1, <1>3 DEF NodeOk, DevOk, Probes, InProbe
<1>11. ~Stage("wait", n) /\ ~Stage("unwatch", n) /\ ~Restarting(n) /\ ~Stage("watch", n)
  BY <1>4, CalmFacts, Places DEF Fading, Stage, Restarting
<1>12. Shapes'
  <2>1. XwOk'
    BY <1>8 DEF XwOk, XwSteps
  <2>2. SusOk' /\ BootOk'
    BY <1>1, <1>2 DEF Shapes, SusOk, BootOk
  <2>. QED  BY <1>1, <1>2, <1>5, <1>6, <1>7, <1>8, <2>1, <2>2 DEF Shapes
<1>13. BusOk'
  BY <1>1, <1>6, <1>8 DEF BusOk, Listed
<1>14. InOrder'
  BY <1>1, <1>2, <1>6 DEF InOrder, Walking, At, Unwatched, Fading, Restarting, Stage
<1>15. Early'
  BY <1>1, <1>2, <1>4, <1>8 DEF Early
<1>16. ASSUME NEW m \in Nodes PROVE NodeOk(m)'
  <2>1. EntryOk(store[m]) /\ DevOk(m) /\ BusyOk(m) /\ ResumeOk(m) /\ FollowOk(m)
    BY <1>1 DEF NodeOk
  <2>2. /\ Calm' = Calm /\ At(m)' = At(m) /\ Pending(m)' = Pending(m)
        /\ Unwatched(m)' = Unwatched(m) /\ Fading(m)' = Fading(m) /\ Restarting(m)' = Restarting(m)
        /\ \A w : Stage(w, m)' = Stage(w, m)
    BY <1>2 DEF Calm, At, Pending, Walking, Unwatched, Fading, Restarting, Stage
  <2>3. EntryOk(store[m])'
    BY <2>1, <1>8 DEF EntryOk
  <2>4. DevOk(m)'
    BY <2>1, <2>2, <1>2, <1>3, <1>5, <1>8, <1>9, EventsDiffer DEF DevOk, Probes, InProbe, Listed
  <2>5. BusyOk(m)'
    BY <2>1, <2>2, <1>3, <1>8 DEF BusyOk, InProbe
  <2>6. ResumeOk(m)'
    <3>1. CASE m = n
      <4>1. /\ ~Stage("wait", n)' /\ ~Stage("unwatch", n)' /\ ~Stage("watch", n)' /\ ~Restarting(n)'
            /\ Calm' = Calm /\ At(n)' = At(n) /\ Pending(n)' = Pending(n)
            /\ Fading(n)' = Fading(n) /\ Unwatched(n)' = Unwatched(n)
            /\ Stage("fatal", n)' = Stage("fatal", n)
        BY <3>1, <2>2, <1>11
      <4>2. ~Working(n)'
        BY <1>8 DEF Working
      <4>. QED
        BY <3>1, <4>1, <4>2, <2>1, <1>2, <1>4, <1>5, <1>6, <1>8, <1>10, EventsDiffer DEF ResumeOk
    <3>2. CASE m # n
      BY <3>2, <2>1, <2>2, <1>2, <1>4, <1>5, <1>6, <1>8, <1>11, EventsDiffer DEF ResumeOk, Working
    <3>. QED  BY <3>1, <3>2
  <2>7. FollowOk(m)'
    BY <2>1, <2>2, <1>2, <1>3, <1>5, <1>8, EventsDiffer DEF FollowOk, Working
  <2>. QED  BY <2>3, <2>4, <2>5, <2>6, <2>7 DEF NodeOk
<1>. QED  BY <1>12, <1>13, <1>14, <1>15, <1>16 DEF Inv

LEMMA DevRemoveClosedStep ==
  ASSUME Inv, NEW n \in Nodes, DevRemoveClosed(n)
  PROVE  Inv'
<1>1. Shapes /\ BusOk /\ Early /\ InOrder /\ \A m \in Nodes : NodeOk(m)
  BY Parts
<1>2. UNCHANGED <<path, fe, loaded, sus, resumed, boot, left, bus, bug>>
  BY DEF DevRemoveClosed, Elsewhere
<1>3. xw = <<"close", n>> /\ xw # Idle /\ \A w, m : Busy(w, m) <=> (w = "close" /\ m = n)
  BY IsBusy DEF DevRemoveClosed
<1>4. boot = <<"done">> /\ fe /\ dev[n].on = "leaving" /\ (Calm \/ Fading(n)) /\ path \in Nat
  BY <1>1, <1>3, LateOnly DEF NodeOk, BusyOk, Shapes
<1>5. Switched(n, "Closed")
  BY SwitchFacts DEF DevRemoveClosed
<1>6. /\ store' \in [Nodes -> Entry] /\ \A m \in Nodes : m # n => store'[m] = store[m]
      /\ store'[n].there = store[n].there /\ store'[n].gen = store[n].gen
      /\ store'[n].back = store[n].back
      /\ store[n].there /\ dev[n].state # "Closed" => store'[n].front = "Closed"
      /\ ~store[n].there \/ dev[n].state = "Closed" => store'[n].front = store[n].front
      /\ queue' \in Seq(Events)
      /\ \A m : Event("otherend", m) \in Queued' <=> Event("otherend", m) \in Queued
      /\ \A m : Event("device", m) \in Queued => Event("device", m) \in Queued'
  BY <1>5 DEF Switched
<1>7. /\ dev' \in [Nodes -> Device] /\ dev'[n] = NoDevice /\ \A m \in Nodes : m # n
           => dev'[m] = dev[m]
      /\ NoDevice.on = "none" /\ NoDevice.otherend = 0 /\ NoDevice.watch = "none" /\ ~NoDevice.ring
      /\ xw' = Idle /\ \A w, m : ~Busy(w, m)'
  <2>1. NoDevice \in Device /\ NoDevice.on = "none" /\ NoDevice.otherend = 0
          /\ NoDevice.watch = "none" /\ ~NoDevice.ring
    BY DEF NoDevice, Device, States
  <2>2. dev \in [Nodes -> Device] /\ Set(n, NoDevice) /\ xw' = Idle
    BY <1>1 DEF DevRemoveClosed, Shapes
  <2>. QED  BY <2>1, <2>2, SetFacts, NotBusy
<1>8. \A m \in Nodes : dev[m].on # "plain" \/ ~loaded
  BY <1>1, <1>3 DEF NodeOk, DevOk, Probes, InProbe
<1>9. ~Stage("wait", n) /\ ~Stage("unwatch", n) /\ ~Restarting(n) /\ ~Stage("watch", n)
  BY <1>4, CalmFacts, Places DEF Fading, Stage, Restarting
<1>10. Shapes'
  <2>1. XwOk'
    BY <1>7 DEF XwOk, XwSteps
  <2>2. SusOk' /\ BootOk'
    BY <1>1, <1>2 DEF Shapes, SusOk, BootOk
  <2>. QED  BY <1>1, <1>2, <1>6, <1>7, <2>1, <2>2 DEF Shapes
<1>11. BusOk'
  BY <1>1, <1>2, <1>4, <1>7 DEF BusOk, OnBus, Listed
<1>12. InOrder'
  BY <1>1, <1>2 DEF InOrder, Walking, At, Unwatched, Fading, Restarting, Stage
<1>13. Early'
  BY <1>1, <1>2, <1>4 DEF Early
<1>14. ASSUME NEW m \in Nodes PROVE NodeOk(m)'
  <2>1. EntryOk(store[m]) /\ DevOk(m) /\ BusyOk(m) /\ ResumeOk(m) /\ FollowOk(m)
    BY <1>1 DEF NodeOk
  <2>2. /\ Calm' = Calm /\ At(m)' = At(m) /\ Pending(m)' = Pending(m)
        /\ Unwatched(m)' = Unwatched(m) /\ Fading(m)' = Fading(m) /\ Restarting(m)' = Restarting(m)
        /\ \A w : Stage(w, m)' = Stage(w, m)
    BY <1>2 DEF Calm, At, Pending, Walking, Unwatched, Fading, Restarting, Stage
  <2>3. EntryOk(store[m])'
    BY <2>1, <1>6 DEF EntryOk
  <2>4. DevOk(m)'
    BY <2>1, <2>2, <1>2, <1>3, <1>4, <1>6, <1>7 DEF DevOk, Probes, InProbe, Listed
  <2>5. BusyOk(m)'
    BY <2>1, <1>3, <1>7 DEF BusyOk, InProbe
  <2>6. ResumeOk(m)'
    <3>1. CASE m = n
      BY <3>1, <2>1, <2>2, <1>2, <1>4, <1>6, <1>7, <1>9 DEF ResumeOk, Working
    <3>2. CASE m # n
      BY <3>2, <2>1, <2>2, <1>2, <1>4, <1>6, <1>7, <1>9 DEF ResumeOk, Working
    <3>. QED  BY <3>1, <3>2
  <2>7. FollowOk(m)'
    BY <2>1, <2>2, <1>2, <1>3, <1>6, <1>7 DEF FollowOk, Working
  <2>. QED  BY <2>3, <2>4, <2>5, <2>6, <2>7 DEF NodeOk
<1>. QED  BY <1>10, <1>11, <1>12, <1>13, <1>14 DEF Inv

LEMMA OtherendChangedStep ==
  ASSUME Inv, NEW n \in Nodes, OtherendChanged(n)
  PROVE  Inv'
<1>1. Shapes /\ BusOk /\ Early /\ InOrder /\ \A m \in Nodes : NodeOk(m)
  BY Parts
<1>2. UNCHANGED <<path, fe, loaded, sus, resumed, boot, left, store, bus, dev, bug>>
  BY DEF OtherendChanged, Elsewhere
<1>3. /\ xw = Idle /\ queue # <<>> /\ \A w, m : ~Busy(w, m)
      /\ Head(queue) = Event("otherend", n)
  BY NotBusy DEF OtherendChanged, Take
<1>4. /\ queue' \in Seq(Events) /\ Event("otherend", n) \in Queued
      /\ Queued = Queued' \cup {Event("otherend", n)}
  BY <1>1, <1>3, QueueTail DEF OtherendChanged, Shapes
<1>5. /\ \A m : m # n => (Event("otherend", m) \in Queued' <=> Event("otherend", m) \in Queued)
      /\ \A m : Event("device", m) \in Queued' <=> Event("device", m) \in Queued
      /\ Event("otherend", n) \in Queued' => Event("otherend", n) \in Queued
  BY <1>4, EventsDiffer
<1>6. boot = <<"done">> /\ fe /\ dev[n].on = "bound" /\ ~Unwatched(n)
  BY <1>1, <1>3, <1>4, LateOnly DEF NodeOk, DevOk, ResumeOk
<1>7. \/ /\ xw' = Idle /\ \A w, m : ~Busy(w, m)'
         /\ dev[n].otherend = path => Answer(store[n].back, dev[n].state) = "nothing"
      \/ /\ xw' = <<"connect", n>> /\ \A w, m : Busy(w, m)' <=> (w = "connect" /\ m = n)
         /\ dev[n].otherend = path /\ store[n].back = "InitWait" /\ dev[n].state = "Initialising"
      \/ /\ xw' = <<"closed", n>> /\ \A w, m : Busy(w, m)' <=> (w = "closed" /\ m = n)
         /\ dev[n].otherend = path /\ store[n].back \in {"Closing", "Closed"}
              /\ dev[n].state # "Closed"
  <2>. DEFINE do == Answer(ReadState(n), dev[n].state)
  <2>1. xw' = IF do = "nothing" THEN Idle ELSE <<do, n>>
    BY DEF OtherendChanged
  <2>2. \/ do = "nothing" /\ (dev[n].otherend = path
             => Answer(store[n].back, dev[n].state) = "nothing")
        \/ do = "connect" /\ dev[n].otherend = path /\ store[n].back = "InitWait"
             /\ dev[n].state = "Initialising"
        \/ do = "closed" /\ dev[n].otherend = path /\ store[n].back \in {"Closing", "Closed"}
             /\ dev[n].state # "Closed"
    BY DEF Answer, ReadState
  <2>. HIDE DEF do
  <2>. QED  BY <2>1, <2>2, NotBusy, IsBusy
<1>8. /\ Answer(store[n].back, dev[n].state) = "nothing"
           => ~(dev[n].state = "Initialising" /\ store[n].back \in {"Closing", "Closed"})
      /\ store[n].there \/ store[n].back = "Unknown"
      /\ xw' # Idle => store[n].there
      /\ xw' = <<"connect", n>> => ~dev[n].ring /\ ~Pending(n)
  <2>1. EntryOk(store[n]) /\ BusyOk(n) /\ ResumeOk(n)
    BY <1>1 DEF NodeOk
  <2>2. store[n].there \/ store[n].back = "Unknown"
    BY <2>1 DEF EntryOk
  <2>3. xw' # Idle => store[n].there
    BY <2>2, <1>7
  <2>4. xw' = <<"connect", n>> => dev[n].otherend = path /\ dev[n].state = "Initialising"
    BY <1>7, Places
  <2>5. xw' = <<"connect", n>> => ~dev[n].ring
    BY <2>1, <2>4, <1>3, <1>6 DEF BusyOk
  <2>6. ~Restarting(n)
    BY <1>6 DEF Unwatched
  <2>7. xw' = <<"connect", n>> => ~Pending(n)
    BY <2>1, <2>4, <2>6, <1>6 DEF ResumeOk
  <2>8. Answer(store[n].back, dev[n].state) = "nothing"
          => ~(dev[n].state = "Initialising" /\ store[n].back \in {"Closing", "Closed"})
    BY DEF Answer
  <2>. QED  BY <2>2, <2>3, <2>5, <2>7, <2>8
<1>9. Shapes'
  <2>1. XwOk'
    BY <1>7 DEF XwOk, XwSteps
  <2>2. SusOk' /\ BootOk'
    BY <1>1, <1>2 DEF Shapes, SusOk, BootOk
  <2>. QED  BY <1>1, <1>2, <1>4, <2>1, <2>2 DEF Shapes
<1>10. BusOk'
  BY <1>1, <1>2 DEF BusOk, OnBus
<1>11. InOrder'
  BY <1>1, <1>2 DEF InOrder, Walking, At, Unwatched, Fading, Restarting, Stage
<1>12. Early'
  BY <1>1, <1>2, <1>6 DEF Early
<1>13. ASSUME NEW m \in Nodes PROVE NodeOk(m)'
  <2>1. EntryOk(store[m]) /\ DevOk(m) /\ BusyOk(m) /\ ResumeOk(m) /\ FollowOk(m)
    BY <1>1 DEF NodeOk
  <2>2. /\ Calm' = Calm /\ At(m)' = At(m) /\ Pending(m)' = Pending(m)
        /\ Unwatched(m)' = Unwatched(m) /\ Fading(m)' = Fading(m) /\ Restarting(m)' = Restarting(m)
        /\ \A w : Stage(w, m)' = Stage(w, m)
    BY <1>2 DEF Calm, At, Pending, Walking, Unwatched, Fading, Restarting, Stage
  <2>3. EntryOk(store[m])'
    BY <2>1, <1>2
  <2>4. DevOk(m)'
    BY <2>1, <2>2, <1>2, <1>3, <1>5 DEF DevOk, Probes, InProbe
  <2>5. BusyOk(m)'
    BY <2>1, <2>2, <1>2, <1>3, <1>6, <1>7, <1>8 DEF BusyOk, InProbe
  <2>6. ResumeOk(m)'
    BY <2>1, <2>2, <1>2, <1>5, <1>6, <1>7 DEF ResumeOk, Working
  <2>7. FollowOk(m)'
    BY <2>1, <2>2, <1>2, <1>3, <1>5, <1>7, <1>8 DEF FollowOk, Working
  <2>. QED  BY <2>3, <2>4, <2>5, <2>6, <2>7 DEF NodeOk
<1>. QED  BY <1>9, <1>10, <1>11, <1>12, <1>13 DEF Inv

LEMMA ConnectStep ==
  ASSUME Inv, NEW n \in Nodes, Connect(n)
  PROVE  Inv'
<1>1. Shapes /\ BusOk /\ Early /\ InOrder /\ \A m \in Nodes : NodeOk(m)
  BY Parts
<1>2. UNCHANGED <<path, fe, loaded, sus, resumed, boot, left, bus>>
  BY DEF Connect, Elsewhere
<1>3. /\ xw = <<"connect", n>> /\ xw # Idle /\ xw' = <<"connected", n>>
           /\ \A w, m : Busy(w, m) <=> (w = "connect" /\ m = n)
      /\ \A w, m : Busy(w, m)' <=> (w = "connected" /\ m = n)
  BY IsBusy DEF Connect
<1>4. /\ boot = <<"done">> /\ fe /\ store[n].there /\ ~dev[n].ring
      /\ dev[n].on = "bound" /\ dev[n].state = "Initialising" /\ ~Pending(n) /\ path \in Nat
  BY <1>1, <1>3, LateOnly DEF NodeOk, BusyOk, Shapes
<1>5. bug' = FALSE
  BY <1>4 DEF Connect, Uses
<1>6. queue' \in Seq(Events)
        /\ Queued' = Queued \cup (IF fe /\ HostKnows THEN {Event("key", n)} ELSE {})
  BY <1>1, QueueFront DEF Connect, Shapes
<1>7. /\ \A m : Event("otherend", m) \in Queued' <=> Event("otherend", m) \in Queued
      /\ \A m : Event("device", m) \in Queued' <=> Event("device", m) \in Queued
  BY <1>6, EventsDiffer
<1>8. /\ dev' \in [Nodes -> Device] /\ \A m \in Nodes : m # n => dev'[m] = dev[m]
      /\ dev'[n].on = dev[n].on /\ dev'[n].gen = dev[n].gen /\ dev'[n].state = dev[n].state
      /\ dev'[n].otherend = dev[n].otherend /\ dev'[n].watch = dev[n].watch /\ dev'[n].ring = TRUE
  <2>. DEFINE d == [dev[n] EXCEPT !.ring = TRUE]
  <2>1. dev \in [Nodes -> Device] /\ dev[n] \in Device /\ path \in Nat
    BY <1>1, Typed DEF Shapes
  <2>2. d \in Device /\ d.on = dev[n].on /\ d.gen = dev[n].gen /\ d.state = dev[n].state
          /\ d.otherend = dev[n].otherend /\ d.watch = dev[n].watch /\ d.ring = TRUE
    BY <2>1 DEF Device, States
  <2>3. Set(n, d)
    BY <1>1 DEF Connect
  <2>. HIDE DEF d
  <2>. QED  BY <2>1, <2>2, <2>3, SetFacts
<1>9. /\ store' \in [Nodes -> Entry] /\ \A m \in Nodes : m # n => store'[m] = store[m]
      /\ store'[n].there = store[n].there /\ store'[n].gen = store[n].gen
      /\ store'[n].back = store[n].back /\ store'[n].front = store[n].front
  <2>. DEFINE s == [store[n] EXCEPT !.there = TRUE, !.keys = "current"]
  <2>1. store \in [Nodes -> Entry] /\ store[n] \in Entry /\ store[n].there \in BOOLEAN
    BY <1>1, Typed DEF Shapes
  <2>2. /\ s \in Entry /\ s.there = store[n].there /\ s.gen = store[n].gen /\ s.back = store[n].back
        /\ s.front = store[n].front
    BY <2>1, <1>4 DEF Entry
  <2>3. Put(n, s)
    BY DEF Connect
  <2>. HIDE DEF s
  <2>. QED  BY <2>1, <2>2, <2>3, PutFacts
<1>10. queue' \in Seq(Events)
  BY <1>6
<1>11. ~Restarting(n) /\ ~Stage("watch", n)
  BY <1>4 DEF Pending, At, Unwatched, Restarting
<1>12. \A m \in Nodes : dev[m].on # "plain" \/ ~loaded
  BY <1>1, <1>3 DEF NodeOk, DevOk, Probes, InProbe
<1>13. Shapes'
  <2>1. XwOk'
    BY <1>3 DEF XwOk, XwSteps
  <2>2. SusOk' /\ BootOk'
    BY <1>1, <1>2 DEF Shapes, SusOk, BootOk
  <2>. QED  BY <1>1, <1>2, <1>5, <1>8, <1>9, <1>10, <2>1, <2>2 DEF Shapes
<1>14. BusOk'
  BY <1>1, <1>2, <1>8 DEF BusOk, OnBus, Listed
<1>15. InOrder'
  BY <1>1, <1>2 DEF InOrder, Walking, At, Unwatched, Fading, Restarting, Stage
<1>16. Early'
  BY <1>1, <1>2, <1>4 DEF Early
<1>17. ASSUME NEW m \in Nodes PROVE NodeOk(m)'
  <2>1. EntryOk(store[m]) /\ DevOk(m) /\ BusyOk(m) /\ ResumeOk(m) /\ FollowOk(m)
    BY <1>1 DEF NodeOk
  <2>2. /\ Calm' = Calm /\ At(m)' = At(m) /\ Pending(m)' = Pending(m)
        /\ Unwatched(m)' = Unwatched(m) /\ Fading(m)' = Fading(m) /\ Restarting(m)' = Restarting(m)
        /\ \A w : Stage(w, m)' = Stage(w, m)
    BY <1>2 DEF Calm, At, Pending, Walking, Unwatched, Fading, Restarting, Stage
  <2>3. EntryOk(store[m])'
    BY <2>1, <1>9 DEF EntryOk
  <2>4. DevOk(m)'
    <3>1. CASE m = n
      BY <3>1, <2>1, <2>2, <1>2, <1>3, <1>4, <1>7, <1>8, <1>9 DEF DevOk, Listed
    <3>2. CASE m # n
      BY <3>2, <2>1, <2>2, <1>2, <1>3, <1>7, <1>8, <1>9, <1>12 DEF DevOk, Listed
    <3>. QED  BY <3>1, <3>2
  <2>5. BusyOk(m)'
    BY <2>1, <2>2, <1>3, <1>7, <1>8, <1>9 DEF BusyOk, InProbe
  <2>6. ResumeOk(m)'
    BY <2>1, <2>2, <1>2, <1>3, <1>7, <1>8, <1>9, <1>11 DEF ResumeOk, Working, Listed
  <2>7. FollowOk(m)'
    BY <2>1, <2>2, <1>2, <1>3, <1>7, <1>8, <1>9 DEF FollowOk, Working
  <2>. QED  BY <2>3, <2>4, <2>5, <2>6, <2>7 DEF NodeOk
<1>. QED  BY <1>13, <1>14, <1>15, <1>16, <1>17 DEF Inv

LEMMA ConnectFailsStep ==
  ASSUME Inv, NEW n \in Nodes, ConnectFails(n)
  PROVE  Inv'
<1>1. Shapes /\ BusOk /\ Early /\ InOrder /\ \A m \in Nodes : NodeOk(m)
  BY Parts
<1>2. UNCHANGED <<path, fe, loaded, sus, resumed, boot, bus, bug>>
  BY DEF ConnectFails, Elsewhere
<1>3. /\ xw = <<"connect", n>> /\ xw # Idle /\ xw' = Idle /\ \A w, m : ~Busy(w, m)'
      /\ \A w, m : Busy(w, m) <=> (w = "connect" /\ m = n)
  BY IsBusy, NotBusy DEF ConnectFails
<1>4. boot = <<"done">> /\ fe /\ dev[n].on = "bound" /\ path \in Nat
  BY <1>1, <1>3, LateOnly DEF NodeOk, BusyOk, Shapes
<1>5. Switched(n, "Closing")
  BY SwitchFacts DEF ConnectFails
<1>6. /\ store' \in [Nodes -> Entry] /\ \A m \in Nodes : m # n => store'[m] = store[m]
      /\ store'[n].there = store[n].there /\ store'[n].gen = store[n].gen
      /\ store'[n].back = store[n].back
      /\ store[n].there /\ dev[n].state # "Closing" => store'[n].front = "Closing"
      /\ ~store[n].there \/ dev[n].state = "Closing" => store'[n].front = store[n].front
      /\ queue' \in Seq(Events)
      /\ \A m : Event("otherend", m) \in Queued' <=> Event("otherend", m) \in Queued
      /\ \A m : Event("device", m) \in Queued => Event("device", m) \in Queued'
  BY <1>5 DEF Switched
<1>7. /\ dev' \in [Nodes -> Device] /\ \A m \in Nodes : m # n => dev'[m] = dev[m]
      /\ dev'[n].on = dev[n].on /\ dev'[n].gen = dev[n].gen /\ dev'[n].state = "Closing"
      /\ dev'[n].otherend = dev[n].otherend /\ dev'[n].watch = dev[n].watch
           /\ dev'[n].ring = dev[n].ring
  <2>. DEFINE d == [dev[n] EXCEPT !.state = "Closing"]
  <2>1. dev \in [Nodes -> Device] /\ dev[n] \in Device /\ path \in Nat
    BY <1>1, Typed DEF Shapes
  <2>2. d \in Device /\ d.on = dev[n].on /\ d.gen = dev[n].gen /\ d.state = "Closing"
          /\ d.otherend = dev[n].otherend /\ d.watch = dev[n].watch /\ d.ring = dev[n].ring
    BY <2>1 DEF Device, States
  <2>3. Set(n, d)
    BY <1>1 DEF ConnectFails
  <2>. HIDE DEF d
  <2>. QED  BY <2>1, <2>2, <2>3, SetFacts
<1>8. left' \in Left /\ left'.migrations = left.migrations
  <2>1. left \in Left /\ store[n].there \in BOOLEAN
    BY <1>1, Typed DEF Shapes
  <2>2. store[n].there => left.failures > 0
    BY DEF ConnectFails
  <2>. QED  BY <2>1, <2>2 DEF ConnectFails, Left
<1>9. dev[n].state = "Initialising" /\ ~Pending(n)
        /\ (store[n].there => store[n].back = "InitWait" \/ Event("otherend", n) \in Queued)
  BY <1>1, <1>3 DEF NodeOk, BusyOk
<1>10. ~Restarting(n) /\ ~Stage("watch", n)
  BY <1>9 DEF Pending, At, Unwatched, Restarting
<1>11. /\ \A b : Answer(b, "Closed") = "nothing"
       /\ Answer("InitWait", "Closing") = "nothing"
       /\ Answer("InitWait", "Connected") = "nothing"
  BY DEF Answer
<1>12. Shapes'
  <2>1. XwOk'
    BY <1>3 DEF XwOk, XwSteps
  <2>2. SusOk' /\ BootOk'
    BY <1>1, <1>2 DEF Shapes, SusOk, BootOk
  <2>. QED  BY <1>1, <1>2, <1>6, <1>7, <1>8, <2>1, <2>2 DEF Shapes
<1>13. BusOk'
  BY <1>1, <1>2, <1>7 DEF BusOk, OnBus, Listed
<1>14. InOrder'
  BY <1>1, <1>2 DEF InOrder, Walking, At, Unwatched, Fading, Restarting, Stage
<1>15. Early'
  BY <1>1, <1>2, <1>4, <1>8 DEF Early
<1>16. ASSUME NEW m \in Nodes PROVE NodeOk(m)'
  <2>1. EntryOk(store[m]) /\ DevOk(m) /\ BusyOk(m) /\ ResumeOk(m) /\ FollowOk(m)
    BY <1>1 DEF NodeOk
  <2>2. /\ Calm' = Calm /\ At(m)' = At(m) /\ Pending(m)' = Pending(m)
        /\ Unwatched(m)' = Unwatched(m) /\ Fading(m)' = Fading(m) /\ Restarting(m)' = Restarting(m)
        /\ \A w : Stage(w, m)' = Stage(w, m)
    BY <1>2 DEF Calm, At, Pending, Walking, Unwatched, Fading, Restarting, Stage
  <2>3. EntryOk(store[m])'
    BY <2>1, <1>6 DEF EntryOk
  <2>4. DevOk(m)'
    BY <2>1, <2>2, <1>2, <1>3, <1>4, <1>6, <1>7 DEF DevOk, Probes, InProbe, Listed
  <2>5. BusyOk(m)'
    BY <2>1, <1>3, <1>7 DEF BusyOk, InProbe
  <2>6. ResumeOk(m)'
    BY <2>1, <2>2, <1>2, <1>3, <1>6, <1>7, <1>9, <1>10 DEF ResumeOk, Working, Listed
  <2>7. FollowOk(m)'
    BY <2>1, <2>2, <1>2, <1>3, <1>6, <1>7, <1>9, <1>11 DEF FollowOk, Working
  <2>. QED  BY <2>3, <2>4, <2>5, <2>6, <2>7 DEF NodeOk
<1>. QED  BY <1>12, <1>13, <1>14, <1>15, <1>16 DEF Inv

LEMMA ConnectedStep ==
  ASSUME Inv, NEW n \in Nodes, Connected(n)
  PROVE  Inv'
<1>1. Shapes /\ BusOk /\ Early /\ InOrder /\ \A m \in Nodes : NodeOk(m)
  BY Parts
<1>2. UNCHANGED <<path, fe, loaded, sus, resumed, boot, left, bus, bug>>
  BY DEF Connected, Elsewhere
<1>3. /\ xw = <<"connected", n>> /\ xw # Idle /\ xw' = Idle /\ \A w, m : ~Busy(w, m)'
      /\ \A w, m : Busy(w, m) <=> (w = "connected" /\ m = n)
  BY IsBusy, NotBusy DEF Connected
<1>4. boot = <<"done">> /\ fe /\ dev[n].on = "bound" /\ path \in Nat
  BY <1>1, <1>3, LateOnly DEF NodeOk, BusyOk, Shapes
<1>5. Switched(n, "Connected")
  BY SwitchFacts DEF Connected
<1>6. /\ store' \in [Nodes -> Entry] /\ \A m \in Nodes : m # n => store'[m] = store[m]
      /\ store'[n].there = store[n].there /\ store'[n].gen = store[n].gen
      /\ store'[n].back = store[n].back
      /\ store[n].there /\ dev[n].state # "Connected" => store'[n].front = "Connected"
      /\ ~store[n].there \/ dev[n].state = "Connected" => store'[n].front = store[n].front
      /\ queue' \in Seq(Events)
      /\ \A m : Event("otherend", m) \in Queued' <=> Event("otherend", m) \in Queued
      /\ \A m : Event("device", m) \in Queued => Event("device", m) \in Queued'
  BY <1>5 DEF Switched
<1>7. /\ dev' \in [Nodes -> Device] /\ \A m \in Nodes : m # n => dev'[m] = dev[m]
      /\ dev'[n].on = dev[n].on /\ dev'[n].gen = dev[n].gen /\ dev'[n].state = "Connected"
      /\ dev'[n].otherend = dev[n].otherend /\ dev'[n].watch = dev[n].watch
           /\ dev'[n].ring = dev[n].ring
  <2>. DEFINE d == [dev[n] EXCEPT !.state = "Connected"]
  <2>1. dev \in [Nodes -> Device] /\ dev[n] \in Device /\ path \in Nat
    BY <1>1, Typed DEF Shapes
  <2>2. d \in Device /\ d.on = dev[n].on /\ d.gen = dev[n].gen /\ d.state = "Connected"
          /\ d.otherend = dev[n].otherend /\ d.watch = dev[n].watch /\ d.ring = dev[n].ring
    BY <2>1 DEF Device, States
  <2>3. Set(n, d)
    BY <1>1 DEF Connected
  <2>. HIDE DEF d
  <2>. QED  BY <2>1, <2>2, <2>3, SetFacts
<1>8. dev[n].state = "Initialising" /\ ~Pending(n)
        /\ (store[n].there => store[n].back = "InitWait" \/ Event("otherend", n) \in Queued)
  BY <1>1, <1>3 DEF NodeOk, BusyOk
<1>9. ~Restarting(n) /\ ~Stage("watch", n)
  BY <1>8 DEF Pending, At, Unwatched, Restarting
<1>10. /\ \A b : Answer(b, "Closed") = "nothing"
       /\ Answer("InitWait", "Closing") = "nothing"
       /\ Answer("InitWait", "Connected") = "nothing"
  BY DEF Answer
<1>11. Shapes'
  <2>1. XwOk'
    BY <1>3 DEF XwOk, XwSteps
  <2>2. SusOk' /\ BootOk'
    BY <1>1, <1>2 DEF Shapes, SusOk, BootOk
  <2>. QED  BY <1>1, <1>2, <1>6, <1>7, <2>1, <2>2 DEF Shapes
<1>12. BusOk'
  BY <1>1, <1>2, <1>7 DEF BusOk, OnBus, Listed
<1>13. InOrder'
  BY <1>1, <1>2 DEF InOrder, Walking, At, Unwatched, Fading, Restarting, Stage
<1>14. Early'
  BY <1>1, <1>2, <1>4 DEF Early
<1>15. ASSUME NEW m \in Nodes PROVE NodeOk(m)'
  <2>1. EntryOk(store[m]) /\ DevOk(m) /\ BusyOk(m) /\ ResumeOk(m) /\ FollowOk(m)
    BY <1>1 DEF NodeOk
  <2>2. /\ Calm' = Calm /\ At(m)' = At(m) /\ Pending(m)' = Pending(m)
        /\ Unwatched(m)' = Unwatched(m) /\ Fading(m)' = Fading(m) /\ Restarting(m)' = Restarting(m)
        /\ \A w : Stage(w, m)' = Stage(w, m)
    BY <1>2 DEF Calm, At, Pending, Walking, Unwatched, Fading, Restarting, Stage
  <2>3. EntryOk(store[m])'
    BY <2>1, <1>6 DEF EntryOk
  <2>4. DevOk(m)'
    BY <2>1, <2>2, <1>2, <1>3, <1>4, <1>6, <1>7 DEF DevOk, Probes, InProbe, Listed
  <2>5. BusyOk(m)'
    BY <2>1, <1>3, <1>7 DEF BusyOk, InProbe
  <2>6. ResumeOk(m)'
    BY <2>1, <2>2, <1>2, <1>3, <1>6, <1>7, <1>8, <1>9 DEF ResumeOk, Working, Listed
  <2>7. FollowOk(m)'
    BY <2>1, <2>2, <1>2, <1>3, <1>6, <1>7, <1>8, <1>10 DEF FollowOk, Working
  <2>. QED  BY <2>3, <2>4, <2>5, <2>6, <2>7 DEF NodeOk
<1>. QED  BY <1>11, <1>12, <1>13, <1>14, <1>15 DEF Inv

LEMMA FrontendClosedStep ==
  ASSUME Inv, NEW n \in Nodes, FrontendClosed(n)
  PROVE  Inv'
<1>1. Shapes /\ BusOk /\ Early /\ InOrder /\ \A m \in Nodes : NodeOk(m)
  BY Parts
<1>2. UNCHANGED <<path, fe, loaded, sus, resumed, boot, left, bus, bug>>
  BY DEF FrontendClosed, Elsewhere
<1>3. /\ xw = <<"closed", n>> /\ xw # Idle /\ xw' = Idle /\ \A w, m : ~Busy(w, m)'
      /\ \A w, m : Busy(w, m) <=> (w = "closed" /\ m = n)
  BY IsBusy, NotBusy DEF FrontendClosed
<1>4. boot = <<"done">> /\ fe /\ dev[n].on = "bound" /\ path \in Nat
  BY <1>1, <1>3, LateOnly DEF NodeOk, BusyOk, Shapes
<1>5. Switched(n, "Closed")
  BY SwitchFacts DEF FrontendClosed
<1>6. /\ store' \in [Nodes -> Entry] /\ \A m \in Nodes : m # n => store'[m] = store[m]
      /\ store'[n].there = store[n].there /\ store'[n].gen = store[n].gen
      /\ store'[n].back = store[n].back
      /\ store[n].there /\ dev[n].state # "Closed" => store'[n].front = "Closed"
      /\ ~store[n].there \/ dev[n].state = "Closed" => store'[n].front = store[n].front
      /\ queue' \in Seq(Events)
      /\ \A m : Event("otherend", m) \in Queued' <=> Event("otherend", m) \in Queued
      /\ \A m : Event("device", m) \in Queued => Event("device", m) \in Queued'
  BY <1>5 DEF Switched
<1>7. /\ dev' \in [Nodes -> Device] /\ \A m \in Nodes : m # n => dev'[m] = dev[m]
      /\ dev'[n].on = dev[n].on /\ dev'[n].gen = dev[n].gen /\ dev'[n].state = "Closed"
      /\ dev'[n].otherend = dev[n].otherend /\ dev'[n].watch = dev[n].watch
           /\ dev'[n].ring = dev[n].ring
  <2>. DEFINE d == [dev[n] EXCEPT !.state = "Closed"]
  <2>1. dev \in [Nodes -> Device] /\ dev[n] \in Device /\ path \in Nat
    BY <1>1, Typed DEF Shapes
  <2>2. d \in Device /\ d.on = dev[n].on /\ d.gen = dev[n].gen /\ d.state = "Closed"
          /\ d.otherend = dev[n].otherend /\ d.watch = dev[n].watch /\ d.ring = dev[n].ring
    BY <2>1 DEF Device, States
  <2>3. Set(n, d)
    BY <1>1 DEF FrontendClosed
  <2>. HIDE DEF d
  <2>. QED  BY <2>1, <2>2, <2>3, SetFacts
<1>8. ~Unwatched(n) /\ (store[n].there => store[n].back \in {"Closing", "Closed"}
        \/ (store[n].front = "Initialising" /\ ~Pending(n)))
  BY <1>1, <1>3 DEF NodeOk, BusyOk
<1>9. ~Restarting(n) /\ ~Stage("watch", n)
  BY <1>8 DEF Unwatched, Restarting
<1>10. /\ \A b : Answer(b, "Closed") = "nothing"
       /\ Answer("InitWait", "Closing") = "nothing"
       /\ Answer("InitWait", "Connected") = "nothing"
  BY DEF Answer
<1>11. Shapes'
  <2>1. XwOk'
    BY <1>3 DEF XwOk, XwSteps
  <2>2. SusOk' /\ BootOk'
    BY <1>1, <1>2 DEF Shapes, SusOk, BootOk
  <2>. QED  BY <1>1, <1>2, <1>6, <1>7, <2>1, <2>2 DEF Shapes
<1>12. BusOk'
  BY <1>1, <1>2, <1>7 DEF BusOk, OnBus, Listed
<1>13. InOrder'
  BY <1>1, <1>2 DEF InOrder, Walking, At, Unwatched, Fading, Restarting, Stage
<1>14. Early'
  BY <1>1, <1>2, <1>4 DEF Early
<1>15. ASSUME NEW m \in Nodes PROVE NodeOk(m)'
  <2>1. EntryOk(store[m]) /\ DevOk(m) /\ BusyOk(m) /\ ResumeOk(m) /\ FollowOk(m)
    BY <1>1 DEF NodeOk
  <2>2. /\ Calm' = Calm /\ At(m)' = At(m) /\ Pending(m)' = Pending(m)
        /\ Unwatched(m)' = Unwatched(m) /\ Fading(m)' = Fading(m) /\ Restarting(m)' = Restarting(m)
        /\ \A w : Stage(w, m)' = Stage(w, m)
    BY <1>2 DEF Calm, At, Pending, Walking, Unwatched, Fading, Restarting, Stage
  <2>3. EntryOk(store[m])'
    BY <2>1, <1>6 DEF EntryOk
  <2>4. DevOk(m)'
    BY <2>1, <2>2, <1>2, <1>3, <1>4, <1>6, <1>7 DEF DevOk, Probes, InProbe, Listed
  <2>5. BusyOk(m)'
    BY <2>1, <1>3, <1>7 DEF BusyOk, InProbe
  <2>6. ResumeOk(m)'
    BY <2>1, <2>2, <1>2, <1>3, <1>6, <1>7, <1>8, <1>9 DEF ResumeOk, Working, Listed
  <2>7. FollowOk(m)'
    BY <2>1, <2>2, <1>2, <1>3, <1>6, <1>7, <1>10 DEF FollowOk, Working
  <2>. QED  BY <2>3, <2>4, <2>5, <2>6, <2>7 DEF NodeOk
<1>. QED  BY <1>11, <1>12, <1>13, <1>14, <1>15 DEF Inv
--------------------------------------------------------------------------------
(* The thread that suspends and resumes: where it is, in terms of Stage.   *)
StageIs(v, n) ==
    /\ ~Calm /\ Walking
    /\ \A w, m : Stage(w, m) <=> (w = v /\ m = n)
    /\ \A m : At(m) <=> m = n
    /\ \A m : Fading(m) <=> (m = n /\ v \in {"details", "fatal"})
    /\ \A m : Restarting(m) <=> (m = n /\ v \in {"restart", "watch"})
    /\ \A m : Unwatched(m) <=> (m = n /\ v \in {"details", "fatal", "restart", "watch"})
    /\ \A m : Pending(m) <=> (m = n \/ m \notin resumed)
Aloof ==
    /\ \A w, m : ~Stage(w, m)
    /\ \A m : ~At(m) /\ ~Fading(m) /\ ~Restarting(m) /\ ~Unwatched(m)

LEMMA StageKnown ==
  ASSUME NEW v \in SusSteps, NEW n \in Nodes
  PROVE  /\ sus = <<v, n>> => StageIs(v, n)
         /\ sus' = <<v, n>> => StageIs(v, n)'
<1>1. ASSUME sus = <<v, n>> PROVE StageIs(v, n)
  <2>1. /\ \A w, m : Stage(w, m) <=> (w = v /\ m = n)
        /\ sus # <<"rewatch">> /\ sus # <<"resume">> /\ ~Calm
    BY <1>1, Places DEF Stage, Calm
  <2>2. /\ \A m : Fading(m) <=> (m = n /\ v \in {"details", "fatal"})
        /\ \A m : Restarting(m) <=> (m = n /\ v \in {"restart", "watch"})
    BY <2>1 DEF Fading, Restarting
  <2>3. \A m : Unwatched(m) <=> (m = n /\ v \in {"details", "fatal", "restart", "watch"})
    BY <2>2 DEF Unwatched
  <2>4. \A m : At(m) <=> m = n
    BY <2>1, <2>3 DEF At, SusSteps
  <2>5. Walking
    BY <2>4 DEF Walking
  <2>6. \A m : Pending(m) <=> (m = n \/ m \notin resumed)
    BY <2>1, <2>4, <2>5 DEF Pending
  <2>. QED  BY <2>1, <2>2, <2>3, <2>4, <2>5, <2>6 DEF StageIs
<1>2. ASSUME sus' = <<v, n>> PROVE StageIs(v, n)'
  <2>1. /\ \A w, m : Stage(w, m)' <=> (w = v /\ m = n)
        /\ sus' # <<"rewatch">> /\ sus' # <<"resume">> /\ ~Calm'
    BY <1>2, Places DEF Stage, Calm
  <2>2. /\ \A m : Fading(m)' <=> (m = n /\ v \in {"details", "fatal"})
        /\ \A m : Restarting(m)' <=> (m = n /\ v \in {"restart", "watch"})
    BY <2>1 DEF Fading, Restarting
  <2>3. \A m : Unwatched(m)' <=> (m = n /\ v \in {"details", "fatal", "restart", "watch"})
    BY <2>2 DEF Unwatched
  <2>4. \A m : At(m)' <=> m = n
    BY <2>1, <2>3 DEF At, SusSteps
  <2>5. Walking'
    BY <2>4 DEF Walking
  <2>6. \A m : Pending(m)' <=> (m = n \/ m \notin resumed')
    BY <2>1, <2>4, <2>5 DEF Pending
  <2>. QED  BY <2>1, <2>2, <2>3, <2>4, <2>5, <2>6 DEF StageIs
<1>. QED  BY <1>1, <1>2

LEMMA StageNone ==
  /\ Calm => Aloof /\ ~Walking /\ \A m : ~Pending(m)
  /\ Calm' => Aloof' /\ ~Walking' /\ \A m : ~Pending(m)'
  /\ sus = <<"rewatch">> => ~Calm /\ Aloof /\ ~Walking /\ \A m : Pending(m)
  /\ sus' = <<"rewatch">> => ~Calm' /\ Aloof' /\ ~Walking' /\ \A m : Pending(m)'
  /\ sus = <<"resume">> => ~Calm /\ Aloof /\ Walking /\ \A m : Pending(m) <=> m \notin resumed
  /\ sus' = <<"resume">> => ~Calm' /\ Aloof' /\ Walking' /\ \A m : Pending(m)' <=> m \notin resumed'
<1>1. ASSUME \A w, m : sus # <<w, m>> PROVE Aloof
  BY <1>1 DEF Aloof, At, Fading, Restarting, Unwatched, Stage
<1>2. ASSUME \A w, m : sus' # <<w, m>> PROVE Aloof'
  BY <1>2 DEF Aloof, At, Fading, Restarting, Unwatched, Stage
<1>3. Calm => Aloof /\ ~Walking /\ \A m : ~Pending(m)
  BY <1>1, Places DEF Calm, Walking, Pending, Aloof, Idle
<1>4. Calm' => Aloof' /\ ~Walking' /\ \A m : ~Pending(m)'
  BY <1>2, Places DEF Calm, Walking, Pending, Aloof, Idle
<1>5. sus = <<"rewatch">> => ~Calm /\ Aloof /\ ~Walking /\ \A m : Pending(m)
  BY <1>1, Places DEF Calm, Walking, Pending, Aloof, Idle
<1>6. sus' = <<"rewatch">> => ~Calm' /\ Aloof' /\ ~Walking' /\ \A m : Pending(m)'
  BY <1>2, Places DEF Calm, Walking, Pending, Aloof, Idle
<1>7. sus = <<"resume">> => ~Calm /\ Aloof /\ Walking /\ \A m : Pending(m) <=> m \notin resumed
  BY <1>1, Places DEF Calm, Walking, Pending, Aloof, Idle
<1>8. sus' = <<"resume">> => ~Calm' /\ Aloof' /\ Walking'
        /\ \A m : Pending(m)' <=> m \notin resumed'
  BY <1>2, Places DEF Calm, Walking, Pending, Aloof, Idle
<1>. QED  BY <1>3, <1>4, <1>5, <1>6, <1>7, <1>8

(* Nothing has changed but where the thread that suspends is.              *)
LEMMA SuspendStep ==
  ASSUME Inv, Suspend
  PROVE  Inv'
<1>1. Shapes /\ BusOk /\ Early /\ InOrder /\ \A m \in Nodes : NodeOk(m)
  BY Parts
<1>2. UNCHANGED <<store, path, left, bus, dev, fe, loaded, queue, xw, resumed, boot, bug>>
  BY DEF Suspend, host, driver
<1>3. /\ Queued' = Queued /\ \A w, m : Busy(w, m)' <=> Busy(w, m)
  BY <1>2, QueueSame DEF Busy
<1>4. loaded /\ left.migrations > 0 /\ sus' = <<"stopped">>
  BY DEF Suspend
<1>5. /\ Calm /\ ~Walking /\ \A m : ~Pending(m)
      /\ \A w, m : ~Stage(w, m)
      /\ \A m : ~At(m) /\ ~Fading(m) /\ ~Restarting(m) /\ ~Unwatched(m)
  BY StageNone DEF Suspend, Calm, Aloof
<1>6. /\ Calm' /\ ~Walking' /\ \A m : ~Pending(m)'
      /\ \A w, m : ~Stage(w, m)'
      /\ \A m : ~At(m)' /\ ~Fading(m)' /\ ~Restarting(m)' /\ ~Unwatched(m)'
  BY StageNone DEF Suspend, Calm, Aloof
<1>7. Shapes'
  <2>1. XwOk' /\ BootOk'
    BY <1>1, <1>2 DEF Shapes, XwOk, BootOk
  <2>2. SusOk'
    BY <1>4 DEF SusOk, SusSteps
  <2>. QED  BY <1>1, <1>2, <2>1, <2>2 DEF Shapes
<1>8. BusOk'
  BY <1>1, <1>2 DEF BusOk, OnBus, Listed
<1>9. InOrder'
  BY <1>6 DEF InOrder
<1>10. Early'
  BY <1>1, <1>2, <1>4 DEF Early
<1>11. ASSUME NEW m \in Nodes PROVE NodeOk(m)'
  <2>1. EntryOk(store[m]) /\ DevOk(m) /\ BusyOk(m) /\ ResumeOk(m) /\ FollowOk(m)
    BY <1>1 DEF NodeOk
  <2>2. EntryOk(store[m])'
    BY <2>1, <1>2
  <2>3. DevOk(m)'
    BY <2>1, <1>2, <1>3, <1>5 DEF DevOk, Probes, InProbe
  <2>4. BusyOk(m)'
    BY <2>1, <1>2, <1>3, <1>6 DEF BusyOk, InProbe
  <2>5. ResumeOk(m)'
    BY <2>1, <1>2, <1>5, <1>6 DEF ResumeOk
  <2>6. FollowOk(m)'
    BY <2>1, <1>2, <1>3, <1>5 DEF FollowOk, Working
  <2>. QED  BY <2>2, <2>3, <2>4, <2>5, <2>6 DEF NodeOk
<1>. QED  BY <1>7, <1>8, <1>9, <1>10, <1>11 DEF Inv

LEMMA SuspendCancelStep ==
  ASSUME Inv, SuspendCancel
  PROVE  Inv'
<1>1. Shapes /\ BusOk /\ Early /\ InOrder /\ \A m \in Nodes : NodeOk(m)
  BY Parts
<1>2. UNCHANGED <<store, path, bus, dev, fe, loaded, queue, xw, resumed, boot, bug>>
  BY DEF SuspendCancel, driver
<1>3. /\ Queued' = Queued /\ \A w, m : Busy(w, m)' <=> Busy(w, m)
  BY <1>2, QueueSame DEF Busy
<1>4. /\ sus' = Idle /\ sus' # <<"stopped">>
  BY Places DEF SuspendCancel, Idle
<1>5. /\ Calm /\ ~Walking /\ \A m : ~Pending(m)
      /\ \A w, m : ~Stage(w, m)
      /\ \A m : ~At(m) /\ ~Fading(m) /\ ~Restarting(m) /\ ~Unwatched(m)
  BY StageNone DEF SuspendCancel, Calm, Aloof
<1>6. /\ Calm' /\ ~Walking' /\ \A m : ~Pending(m)'
      /\ \A w, m : ~Stage(w, m)'
      /\ \A m : ~At(m)' /\ ~Fading(m)' /\ ~Restarting(m)' /\ ~Unwatched(m)'
  BY StageNone DEF SuspendCancel, Calm, Aloof
<1>7. left' \in Left
  <2>1. left \in Left /\ left.migrations > 0
    BY <1>1 DEF Shapes, Early, SuspendCancel
  <2>. QED  BY <2>1 DEF SuspendCancel, Left
<1>8. Shapes'
  <2>1. XwOk' /\ BootOk'
    BY <1>1, <1>2 DEF Shapes, XwOk, BootOk
  <2>2. SusOk'
    BY <1>4 DEF SusOk, SusSteps
  <2>. QED  BY <1>1, <1>2, <1>7, <2>1, <2>2 DEF Shapes
<1>9. BusOk'
  BY <1>1, <1>2 DEF BusOk, OnBus, Listed
<1>10. InOrder'
  BY <1>6 DEF InOrder
<1>11. Early'
  BY <1>1, <1>2, <1>4 DEF Early
<1>12. ASSUME NEW m \in Nodes PROVE NodeOk(m)'
  <2>1. EntryOk(store[m]) /\ DevOk(m) /\ BusyOk(m) /\ ResumeOk(m) /\ FollowOk(m)
    BY <1>1 DEF NodeOk
  <2>2. EntryOk(store[m])'
    BY <2>1, <1>2
  <2>3. DevOk(m)'
    BY <2>1, <1>2, <1>3, <1>5 DEF DevOk, Probes, InProbe
  <2>4. BusyOk(m)'
    BY <2>1, <1>2, <1>3, <1>6 DEF BusyOk, InProbe
  <2>5. ResumeOk(m)'
    BY <2>1, <1>2, <1>5, <1>6 DEF ResumeOk
  <2>6. FollowOk(m)'
    BY <2>1, <1>2, <1>3, <1>5 DEF FollowOk, Working
  <2>. QED  BY <2>2, <2>3, <2>4, <2>5, <2>6 DEF NodeOk
<1>. QED  BY <1>8, <1>9, <1>10, <1>11, <1>12 DEF Inv

LEMMA MigrateStep ==
  ASSUME Inv, Migrate
  PROVE  Inv'
<1>1. Shapes /\ BusOk /\ Early /\ InOrder /\ \A m \in Nodes : NodeOk(m)
  BY Parts
<1>2. UNCHANGED <<bus, dev, fe, loaded, xw, resumed, boot, bug>> /\ sus' = <<"rewatch">>
        /\ sus = <<"stopped">>
  BY DEF Migrate, driver
<1>3. xw = Idle /\ xw' = Idle /\ (\A w, m : ~Busy(w, m)) /\ (\A w, m : ~Busy(w, m)')
        /\ \A n \in Nodes : store[n].there = OnBus(n)
  <2>1. left \in Left
    BY <1>1 DEF Shapes
  <2>2. ~May("anytime")
    BY <2>1 DEF May, Left
  <2>3. Steady
    BY <2>2 DEF Migrate
  <2>4. xw = Idle /\ \A n \in Nodes : store[n].there = OnBus(n)
    BY <2>3 DEF Steady
  <2>. QED  BY <2>4, <1>2, NotBusy
<1>4. /\ Calm /\ ~Walking /\ \A m : ~Pending(m)
      /\ \A w, m : ~Stage(w, m)
      /\ \A m : ~At(m) /\ ~Fading(m) /\ ~Restarting(m) /\ ~Unwatched(m)
  BY <1>2, StageNone DEF Calm, Aloof
<1>5. /\ ~Calm' /\ ~Walking' /\ \A m : Pending(m)'
      /\ \A w, m : ~Stage(w, m)'
      /\ \A m : ~At(m)' /\ ~Fading(m)' /\ ~Restarting(m)' /\ ~Unwatched(m)'
  BY <1>2, StageNone DEF Aloof
<1>6. boot = <<"done">> /\ fe /\ loaded
  <2>1. loaded
    BY <1>1, <1>2, Places DEF Early, Idle, Shapes
  <2>. QED  BY <2>1, LateOnly
<1>7. queue' \in Seq(Events) /\ Queued' \subseteq Queued
  <2>1. queue \in Seq(Events) /\ \E k \in 0 .. Len(queue) : queue' = SubSeq(queue, 1, k)
    BY <1>1 DEF Shapes, Migrate
  <2>. QED  BY <2>1, QueuePrefix
<1>8. /\ path' \in Nat \ {0} /\ path <= path' /\ path \in Nat
      /\ \A m \in Nodes : dev[m].otherend \in Nat /\ dev[m].otherend <= path'
      /\ \A m \in Nodes : ~(dev[m].on = "bound" /\ dev[m].otherend = path'
           /\ dev[m].state = "Initialising")
  <2>1. path \in Nat \ {0} /\ path' \in {path, path + 1} /\ left \in Left
    BY <1>1 DEF Shapes, Migrate
  <2>2. ~May("same")
    BY <2>1 DEF May, Left
  <2>3. path' = path => Unconnected = {}
    BY <2>2 DEF Migrate
  <2>4. \A m \in Nodes : dev[m].otherend \in Nat /\ dev[m].otherend <= path
    BY <1>1, Typed DEF NodeOk, DevOk
  <2>5. path' = path \/ path' = path + 1
    BY <2>1
  <2>6. CASE path' = path
    BY <2>1, <2>3, <2>4, <2>6 DEF Unconnected
  <2>7. CASE path' = path + 1
    BY <2>1, <2>4, <2>7
  <2>. QED  BY <2>5, <2>6, <2>7
<1>9. left' \in Left
  <2>1. left \in Left /\ left.migrations > 0
    BY <1>1, <1>2 DEF Shapes, Early
  <2>2. left' = [left EXCEPT !.migrations = @ - 1]
    BY DEF Migrate
  <2>. QED  BY <2>1, <2>2 DEF Left
<1>10. /\ store' \in [Nodes -> Entry]
       /\ \A m \in Nodes :
            /\ store'[m].there = store[m].there /\ store'[m].gen = store[m].gen
            /\ ~store[m].there => store'[m] = store[m]
            /\ store[m].there => store'[m].front = "Initialising"
                 /\ store'[m].back \in {"Initialising", "InitWait"}
  <2>1. left \in Left /\ \A m \in Nodes : store[m] \in Entry /\ store[m].there \in BOOLEAN
    BY <1>1, Typed DEF Shapes
  <2>2. ~May("absent")
    BY <2>1 DEF May, Left
  <2>3. PICK back \in {"Initialising", "InitWait"}, drop \in SUBSET Nodes :
          /\ drop = {} \/ May("absent")
          /\ store' = [n \in Nodes |-> CASE n \in drop -> Gone(n)
                                         [] store[n].there -> Anew(n, back)
                                         [] OTHER -> store[n]]
    BY DEF Migrate
  <2>4. drop = {}
    BY <2>2, <2>3
  <2>5. store' = [n \in Nodes |-> IF store[n].there THEN Anew(n, back) ELSE store[n]]
    BY <2>3, <2>4
  <2>6. \A m \in Nodes : /\ Anew(m, back) \in Entry /\ Anew(m, back).there = store[m].there
                         /\ Anew(m, back).gen = store[m].gen /\ Anew(m, back).front = "Initialising"
                         /\ Anew(m, back).back = back
    BY <2>1 DEF Anew, Entry, States
  <2>. QED  BY <2>1, <2>5, <2>6
<1>11. \A n \in Nodes : store[n].there <=> Listed(dev[n])
  BY <1>1, <1>3 DEF BusOk
<1>12. \A m \in Nodes : dev[m].on \in {"none", "bound", "failed"}
  <2>1. SUFFICES ASSUME NEW m \in Nodes PROVE dev[m].on \in {"none", "bound", "failed"}
    OBVIOUS
  <2>2. dev[m].on \in {"none", "plain", "probing", "bound", "failed", "leaving"} /\ DevOk(m)
          /\ BusyOk(m)
    BY <1>1, Typed DEF Device, NodeOk
  <2>3. ~Probes
    BY <1>3 DEF Probes, InProbe
  <2>. QED  BY <2>2, <2>3, <1>3, <1>6 DEF DevOk, BusyOk, InProbe
<1>13. Shapes'
  <2>1. XwOk' /\ BootOk'
    BY <1>1, <1>2 DEF Shapes, XwOk, BootOk
  <2>2. SusOk'
    BY <1>2 DEF SusOk, SusSteps
  <2>. QED  BY <1>1, <1>2, <1>7, <1>8, <1>9, <1>10, <2>1, <2>2 DEF Shapes
<1>14. BusOk'
  BY <1>1, <1>2 DEF BusOk, OnBus, Listed
<1>15. InOrder'
  BY <1>5 DEF InOrder
<1>16. Early'
  BY <1>1, <1>2, <1>6, Places DEF Early, Idle
<1>17. ASSUME NEW m \in Nodes PROVE NodeOk(m)'
  <2>1. EntryOk(store[m]) /\ DevOk(m) /\ BusyOk(m) /\ ResumeOk(m) /\ FollowOk(m)
    BY <1>1 DEF NodeOk
  <2>2. /\ store'[m].there = store[m].there /\ store'[m].gen = store[m].gen
        /\ ~store[m].there => store'[m] = store[m]
        /\ store[m].there => store'[m].front = "Initialising"
             /\ store'[m].back \in {"Initialising", "InitWait"}
    BY <1>10
  <2>3. /\ dev'[m] = dev[m] /\ dev[m].on \in {"none", "bound", "failed"} /\ loaded
             /\ UNCHANGED loaded
        /\ store[m].there <=> Listed(dev[m])
        /\ dev[m].otherend <= path'
        /\ ~(dev[m].on = "bound" /\ dev[m].otherend = path' /\ dev[m].state = "Initialising")
    BY <1>2, <1>6, <1>8, <1>11, <1>12
  <2>4. /\ \A w : ~Busy(w, m) /\ ~Busy(w, m)' /\ ~Stage(w, m) /\ ~Stage(w, m)'
        /\ Calm /\ ~Calm' /\ Pending(m)' /\ ~At(m) /\ ~At(m)' /\ ~Fading(m)' /\ ~Restarting(m)'
             /\ ~Unwatched(m)'
        /\ Event("otherend", m) \in Queued' => Event("otherend", m) \in Queued
    BY <1>3, <1>4, <1>5, <1>7
  <2>5. EntryOk(store[m])'
    BY <2>1, <2>2, <2>3, <2>4, EventsDiffer DEF EntryOk
  <2>6. DevOk(m)'
    BY <2>1, <2>2, <2>3, <2>4, EventsDiffer DEF DevOk, Probes, InProbe, Listed
  <2>7. BusyOk(m)'
    BY <2>1, <2>2, <2>3, <2>4, EventsDiffer DEF BusyOk, InProbe, Listed
  <2>8. ResumeOk(m)'
    BY <2>1, <2>2, <2>3, <2>4, EventsDiffer DEF ResumeOk, Working, Listed
  <2>9. FollowOk(m)'
    BY <2>1, <2>2, <2>3, <2>4, EventsDiffer DEF FollowOk, Working
  <2>. QED  BY <2>5, <2>6, <2>7, <2>8, <2>9 DEF NodeOk
<1>. QED  BY <1>13, <1>14, <1>15, <1>16, <1>17 DEF Inv

LEMMA RewatchStep ==
  ASSUME Inv, Rewatch
  PROVE  Inv'
<1>1. Shapes /\ BusOk /\ Early /\ InOrder /\ \A m \in Nodes : NodeOk(m)
  BY Parts
<1>2. UNCHANGED <<left, bus, fe, loaded, xw, boot, store, path, dev, bug>>
  BY DEF Rewatch, AtRest
<1>3. sus = <<"rewatch">> /\ sus' = <<"resume">> /\ resumed' = {}
        /\ \A w, m : Busy(w, m)' <=> Busy(w, m)
  BY <1>2 DEF Rewatch, Busy
<1>4. /\ ~Calm /\ ~Walking /\ \A m : Pending(m)
      /\ \A w, m : ~Stage(w, m)
      /\ \A m : ~At(m) /\ ~Fading(m) /\ ~Restarting(m) /\ ~Unwatched(m)
  BY <1>3, StageNone DEF Aloof
<1>5. /\ ~Calm' /\ Walking' /\ \A m : Pending(m)' <=> m \notin resumed'
      /\ \A w, m : ~Stage(w, m)'
      /\ \A m : ~At(m)' /\ ~Fading(m)' /\ ~Restarting(m)' /\ ~Unwatched(m)'
  BY <1>3, StageNone DEF Aloof
<1>6. boot = <<"done">> /\ fe /\ loaded
  <2>1. loaded
    BY <1>1, <1>3, Places DEF Early, Idle, Shapes
  <2>. QED  BY <2>1, LateOnly
<1>7. /\ queue' \in Seq(Events) /\ Queued \subseteq Queued'
      /\ \A m : Event("otherend", m) \in Queued' /\ Event("otherend", m) \notin Queued
           => m \in Nodes /\ dev[m].watch = "on"
  <2>. DEFINE S == {n \in Nodes : dev[n].watch = "on"}
              watched == Among(bus, S)
              q == [i \in 1 .. Len(watched) |-> Event("otherend", watched[i])]
  <2>1. bus \in Seq(Nodes) /\ queue \in Seq(Events) /\ queue' = queue \o q
    BY <1>1 DEF Shapes, Rewatch
  <2>2. watched \in Seq(Nodes) /\ Len(watched) \in Nat
          /\ {watched[i] : i \in 1 .. Len(watched)} = {bus[i] : i \in 1 .. Len(bus)} \cap S
    <3>. HIDE DEF S
    <3>1. watched \in Seq(Nodes) /\ Len(watched) \in Nat /\ Rest(watched, bus, S)
      BY Zenon, <2>1, AmongSeq DEF watched
    <3>. HIDE DEF watched
    <3>. QED  BY Zenon, <3>1 DEF Rest
  <2>3. \A i \in 1 .. Len(watched) : watched[i] \in Nodes /\ watched[i] \in S
          /\ Event("otherend", watched[i]) \in Events
    <3>. HIDE DEF S, watched
    <3>. QED  BY <2>2, EventsDiffer
  <2>. HIDE DEF watched
  <2>4. q \in Seq(Events) /\ Len(q) = Len(watched)
          /\ \A i \in 1 .. Len(watched) : q[i] = Event("otherend", watched[i])
    BY <2>2, <2>3
  <2>. HIDE DEF q
  <2>5. queue' \in Seq(Events) /\ Queued' = Queued \cup {q[i] : i \in 1 .. Len(q)}
    BY <2>1, <2>4, QueueJoin
  <2>6. ASSUME NEW m, Event("otherend", m) \in {q[i] : i \in 1 .. Len(q)} PROVE m \in S
    <3>1. PICK i \in 1 .. Len(watched) : Event("otherend", m) = Event("otherend", watched[i])
      BY <2>4, <2>6
    <3>2. m = watched[i]
      BY <3>1, EventsDiffer
    <3>. HIDE DEF S
    <3>. QED  BY <2>3, <3>2
  <2>. QED  BY <2>5, <2>6
<1>8. \A m \in Nodes : Event("otherend", m) \in Queued' => dev[m].on = "bound"
  BY <1>1, <1>7 DEF NodeOk, DevOk
<1>9. Shapes'
  <2>1. XwOk' /\ BootOk'
    BY <1>1, <1>2 DEF Shapes, XwOk, BootOk
  <2>2. SusOk'
    BY <1>3 DEF SusOk, SusSteps
  <2>. QED  BY <1>1, <1>2, <1>3, <1>7, <2>1, <2>2 DEF Shapes
<1>10. BusOk'
  BY <1>1, <1>2 DEF BusOk, OnBus, Listed
<1>11. InOrder'
  BY <1>3 DEF InOrder
<1>12. Early'
  BY <1>1, <1>2, <1>3, <1>6, Places DEF Early, Idle
<1>13. ASSUME NEW m \in Nodes PROVE NodeOk(m)'
  <2>1. EntryOk(store[m]) /\ DevOk(m) /\ BusyOk(m) /\ ResumeOk(m) /\ FollowOk(m)
    BY <1>1 DEF NodeOk
  <2>2. /\ dev'[m] = dev[m] /\ store'[m] = store[m]
             /\ UNCHANGED <<dev, store, path, fe, loaded, bus>>
        /\ \A w : Busy(w, m)' <=> Busy(w, m)
        /\ Probes' <=> Probes
    BY <1>2, <1>3 DEF Probes, InProbe
  <2>3. /\ \A w : ~Stage(w, m) /\ ~Stage(w, m)'
        /\ ~Calm /\ ~Calm' /\ Pending(m) /\ Pending(m)' /\ ~At(m) /\ ~At(m)' /\ ~Fading(m)
             /\ ~Fading(m)' /\ ~Restarting(m) /\ ~Restarting(m)' /\ ~Unwatched(m) /\ ~Unwatched(m)'
    BY <1>3, <1>4, <1>5
  <2>4. /\ \A e : e \in Queued => e \in Queued'
        /\ Event("otherend", m) \in Queued' => dev[m].on = "bound"
    BY <1>7, <1>8
  <2>5. EntryOk(store[m])'
    BY <2>1, <2>2, <2>3, <2>4, EventsDiffer DEF EntryOk
  <2>6. DevOk(m)'
    BY <2>1, <2>2, <2>3, <2>4, EventsDiffer DEF DevOk, Probes, InProbe, Listed
  <2>7. BusyOk(m)'
    BY <2>1, <2>2, <2>3, <2>4, EventsDiffer DEF BusyOk, InProbe, Listed
  <2>8. ResumeOk(m)'
    BY <2>1, <2>2, <2>3, <2>4, EventsDiffer DEF ResumeOk, Working, Listed
  <2>9. FollowOk(m)'
    BY <2>1, <2>2, <2>3, <2>4, EventsDiffer DEF FollowOk, Working
  <2>. QED  BY <2>5, <2>6, <2>7, <2>8, <2>9 DEF NodeOk
<1>. QED  BY <1>9, <1>10, <1>11, <1>12, <1>13 DEF Inv

LEMMA ResumeUnwatchStep ==
  ASSUME Inv, NEW n \in Nodes, ResumeUnwatch(n)
  PROVE  Inv'
<1>1. Shapes /\ BusOk /\ Early /\ InOrder /\ \A m \in Nodes : NodeOk(m)
  BY Parts
<1>2. UNCHANGED <<left, bus, fe, loaded, xw, boot, store, path, queue, resumed, bug>>
  BY DEF ResumeUnwatch, AtRest
<1>3. sus = <<"unwatch", n>>
  BY DEF ResumeUnwatch
<1>4. /\ Queued' = Queued /\ \A w, m : Busy(w, m)' <=> Busy(w, m)
  BY <1>2, QueueSame DEF Busy
<1>5. /\ ~Calm /\ Walking /\ \A m : Pending(m) <=> (m = n \/ m \notin resumed)
      /\ \A w, m : Stage(w, m) <=> (w = "unwatch" /\ m = n)
      /\ \A m : At(m) <=> m = n
      /\ \A m : ~Fading(m)
      /\ \A m : ~Restarting(m)
      /\ \A m : ~Unwatched(m)
  BY <1>3, StageKnown DEF StageIs, SusSteps
<1>6. /\ dev[n].watch = "on" /\ dev[n].on = "bound" /\ store[n].there /\ n \in resumed
           /\ sus' = <<"wait", n>>
  BY <1>1, <1>3, <1>5 DEF NodeOk, ResumeOk, DevOk, ResumeUnwatch
<1>7. /\ ~Calm' /\ Walking' /\ \A m : Pending(m)' <=> (m = n \/ m \notin resumed')
      /\ \A w, m : Stage(w, m)' <=> (w = "wait" /\ m = n)
      /\ \A m : At(m)' <=> m = n
      /\ \A m : ~Fading(m)'
      /\ \A m : ~Restarting(m)'
      /\ \A m : ~Unwatched(m)'
  BY <1>6, StageKnown DEF StageIs, SusSteps
<1>8. boot = <<"done">> /\ fe /\ loaded
  <2>1. loaded
    BY <1>1, <1>5 DEF NodeOk, ResumeOk
  <2>. QED  BY <2>1, LateOnly
<1>9. /\ dev' \in [Nodes -> Device] /\ \A m \in Nodes : m # n => dev'[m] = dev[m]
      /\ dev'[n].on = dev[n].on /\ dev'[n].gen = dev[n].gen /\ dev'[n].state = dev[n].state
      /\ dev'[n].otherend = dev[n].otherend /\ dev'[n].watch = "going" /\ dev'[n].ring = dev[n].ring
  <2>. DEFINE d == [dev[n] EXCEPT !.watch = "going"]
  <2>1. dev \in [Nodes -> Device] /\ dev[n] \in Device /\ path \in Nat
    BY <1>1, Typed DEF Shapes
  <2>2. d \in Device /\ d.on = dev[n].on /\ d.gen = dev[n].gen /\ d.state = dev[n].state
          /\ d.otherend = dev[n].otherend /\ d.watch = "going" /\ d.ring = dev[n].ring
    BY <2>1 DEF Device, States
  <2>3. Set(n, d)
    BY <1>6 DEF ResumeUnwatch
  <2>. HIDE DEF d
  <2>. QED  BY <2>1, <2>2, <2>3, SetFacts
<1>10. Shapes'
  <2>1. XwOk' /\ BootOk'
    BY <1>1, <1>2 DEF Shapes, XwOk, BootOk
  <2>2. SusOk'
    BY <1>6 DEF SusOk, SusSteps
  <2>. QED  BY <1>1, <1>2, <1>9, <2>1, <2>2 DEF Shapes
<1>11. BusOk'
  BY <1>1, <1>2, <1>9 DEF BusOk, OnBus, Listed
<1>12. InOrder'
  BY <1>1, <1>2, <1>5 DEF InOrder
<1>13. Early'
  BY <1>1, <1>2, <1>6, <1>8, Places DEF Early
<1>14. ASSUME NEW m \in Nodes PROVE NodeOk(m)'
  <2>1. EntryOk(store[m]) /\ DevOk(m) /\ BusyOk(m) /\ ResumeOk(m) /\ FollowOk(m)
    BY <1>1 DEF NodeOk
  <2>2. EntryOk(store[m])'
    BY <2>1, <1>2
  <2>3. DevOk(m)'
    BY <2>1, <1>2, <1>4, <1>5, <1>6, <1>7, <1>9 DEF DevOk, Probes, InProbe
  <2>4. BusyOk(m)'
    BY <2>1, <1>2, <1>4, <1>5, <1>7, <1>9 DEF BusyOk, InProbe
  <2>5. ResumeOk(m)'
    BY <2>1, <1>2, <1>5, <1>7, <1>9 DEF ResumeOk
  <2>6. FollowOk(m)'
    BY <2>1, <1>2, <1>4, <1>5, <1>7, <1>9 DEF FollowOk, Working
  <2>. QED  BY <2>2, <2>3, <2>4, <2>5, <2>6 DEF NodeOk
<1>. QED  BY <1>10, <1>11, <1>12, <1>13, <1>14 DEF Inv

LEMMA ResumeWaitStep ==
  ASSUME Inv, NEW n \in Nodes, ResumeWait(n)
  PROVE  Inv'
<1>1. Shapes /\ BusOk /\ Early /\ InOrder /\ \A m \in Nodes : NodeOk(m)
  BY Parts
<1>2. UNCHANGED <<left, bus, fe, loaded, xw, boot, store, path, resumed, bug>>
  BY DEF ResumeWait, AtRest
<1>3. sus = <<"wait", n>> /\ sus' = <<"details", n>> /\ xw = Idle /\ (\A w, m : ~Busy(w, m))
        /\ (\A w, m : ~Busy(w, m)')
  BY <1>2, NotBusy DEF ResumeWait
<1>4. queue' \in Seq(Events) /\ Queued' = Queued \ {Event("otherend", n)}
  BY <1>1, QueueWithout DEF ResumeWait, Shapes
<1>5. /\ ~Calm /\ Walking /\ \A m : Pending(m) <=> (m = n \/ m \notin resumed)
      /\ \A w, m : Stage(w, m) <=> (w = "wait" /\ m = n)
      /\ \A m : At(m) <=> m = n
      /\ \A m : ~Fading(m)
      /\ \A m : ~Restarting(m)
      /\ \A m : ~Unwatched(m)
  BY <1>3, StageKnown DEF StageIs, SusSteps
<1>6. /\ ~Calm' /\ Walking' /\ \A m : Pending(m)' <=> (m = n \/ m \notin resumed')
      /\ \A w, m : Stage(w, m)' <=> (w = "details" /\ m = n)
      /\ \A m : At(m)' <=> m = n
      /\ \A m : Fading(m)' <=> m = n
      /\ \A m : ~Restarting(m)'
      /\ \A m : Unwatched(m)' <=> m = n
  BY <1>3, StageKnown DEF StageIs, SusSteps
<1>7. dev[n].watch = "going" /\ dev[n].on = "bound" /\ store[n].there /\ n \in resumed
  BY <1>1, <1>3, <1>5 DEF NodeOk, ResumeOk, DevOk
<1>8. boot = <<"done">> /\ fe /\ loaded
  <2>1. loaded
    BY <1>1, <1>5 DEF NodeOk, ResumeOk
  <2>. QED  BY <2>1, LateOnly
<1>9. /\ dev' \in [Nodes -> Device] /\ \A m \in Nodes : m # n => dev'[m] = dev[m]
      /\ dev'[n].on = dev[n].on /\ dev'[n].gen = dev[n].gen /\ dev'[n].state = dev[n].state
      /\ dev'[n].otherend = dev[n].otherend /\ dev'[n].watch = "none" /\ dev'[n].ring = dev[n].ring
  <2>. DEFINE d == [dev[n] EXCEPT !.watch = "none"]
  <2>1. dev \in [Nodes -> Device] /\ dev[n] \in Device /\ path \in Nat
    BY <1>1, Typed DEF Shapes
  <2>2. d \in Device /\ d.on = dev[n].on /\ d.gen = dev[n].gen /\ d.state = dev[n].state
          /\ d.otherend = dev[n].otherend /\ d.watch = "none" /\ d.ring = dev[n].ring
    BY <2>1 DEF Device, States
  <2>3. Set(n, d)
    BY <1>7 DEF ResumeWait, Keep
  <2>. HIDE DEF d
  <2>. QED  BY <2>1, <2>2, <2>3, SetFacts
<1>10. /\ \A m : m # n => (Event("otherend", m) \in Queued' <=> Event("otherend", m) \in Queued)
       /\ \A m : Event("device", m) \in Queued' <=> Event("device", m) \in Queued
       /\ Event("otherend", n) \notin Queued'
  BY <1>4, EventsDiffer
<1>11. Shapes'
  <2>1. XwOk' /\ BootOk'
    BY <1>1, <1>2 DEF Shapes, XwOk, BootOk
  <2>2. SusOk'
    BY <1>3 DEF SusOk, SusSteps
  <2>. QED  BY <1>1, <1>2, <1>4, <1>9, <2>1, <2>2 DEF Shapes
<1>12. BusOk'
  BY <1>1, <1>2, <1>9 DEF BusOk, OnBus, Listed
<1>13. InOrder'
  BY <1>1, <1>2, <1>5 DEF InOrder
<1>14. Early'
  BY <1>1, <1>2, <1>3, <1>8, Places DEF Early
<1>15. ASSUME NEW m \in Nodes PROVE NodeOk(m)'
  <2>1. EntryOk(store[m]) /\ DevOk(m) /\ BusyOk(m) /\ ResumeOk(m) /\ FollowOk(m)
    BY <1>1 DEF NodeOk
  <2>2. EntryOk(store[m])'
    BY <2>1, <1>2
  <2>3. DevOk(m)'
    BY <2>1, <1>2, <1>3, <1>5, <1>6, <1>7, <1>9, <1>10 DEF DevOk, Probes, InProbe
  <2>4. BusyOk(m)'
    BY <2>1, <1>3, <1>9 DEF BusyOk, InProbe
  <2>5. ResumeOk(m)'
    BY <2>1, <1>2, <1>3, <1>5, <1>6, <1>9, <1>10 DEF ResumeOk, Working
  <2>6. FollowOk(m)'
    BY <2>1, <1>2, <1>3, <1>5, <1>6, <1>9, <1>10 DEF FollowOk, Working
  <2>. QED  BY <2>2, <2>3, <2>4, <2>5, <2>6 DEF NodeOk
<1>. QED  BY <1>11, <1>12, <1>13, <1>14, <1>15 DEF Inv

LEMMA ResumeDriverStep ==
  ASSUME Inv, NEW n \in Nodes, ResumeDriver(n)
  PROVE  Inv'
<1>1. Shapes /\ BusOk /\ Early /\ InOrder /\ \A m \in Nodes : NodeOk(m)
  BY Parts
<1>2. UNCHANGED <<left, bus, fe, loaded, xw, boot, path, queue, resumed>>
  BY DEF ResumeDriver, AtRest
<1>3. sus = <<"restart", n>> /\ sus' = <<"watch", n>>
  BY DEF ResumeDriver
<1>4. /\ Queued' = Queued /\ \A w, m : Busy(w, m)' <=> Busy(w, m)
  BY <1>2, QueueSame DEF Busy
<1>5. /\ ~Calm /\ Walking /\ \A m : Pending(m) <=> (m = n \/ m \notin resumed)
      /\ \A w, m : Stage(w, m) <=> (w = "restart" /\ m = n)
      /\ \A m : At(m) <=> m = n
      /\ \A m : ~Fading(m)
      /\ \A m : Restarting(m) <=> m = n
      /\ \A m : Unwatched(m) <=> m = n
  BY <1>3, StageKnown DEF StageIs, SusSteps
<1>6. /\ ~Calm' /\ Walking' /\ \A m : Pending(m)' <=> (m = n \/ m \notin resumed')
      /\ \A w, m : Stage(w, m)' <=> (w = "watch" /\ m = n)
      /\ \A m : At(m)' <=> m = n
      /\ \A m : ~Fading(m)'
      /\ \A m : Restarting(m)' <=> m = n
      /\ \A m : Unwatched(m)' <=> m = n
  BY <1>3, StageKnown DEF StageIs, SusSteps
<1>7. dev[n].watch = "none" /\ dev[n].on = "bound" /\ store[n].there /\ n \in resumed /\ ~Working(n)
  BY <1>1, <1>3, <1>5 DEF NodeOk, ResumeOk, DevOk
<1>8. boot = <<"done">> /\ fe /\ loaded
  <2>1. loaded
    BY <1>1, <1>5 DEF NodeOk, ResumeOk
  <2>. QED  BY <2>1, LateOnly
<1>9. bug' = FALSE
  BY <1>7 DEF ResumeDriver, Uses
<1>10. /\ dev' \in [Nodes -> Device] /\ \A m \in Nodes : m # n => dev'[m] = dev[m]
       /\ dev'[n].on = dev[n].on /\ dev'[n].gen = dev[n].gen /\ dev'[n].state = "Initialising"
       /\ dev'[n].otherend = dev[n].otherend /\ dev'[n].watch = dev[n].watch /\ dev'[n].ring = FALSE
  <2>. DEFINE d == [dev[n] EXCEPT !.state = "Initialising", !.ring = FALSE]
  <2>1. dev \in [Nodes -> Device] /\ dev[n] \in Device /\ path \in Nat
    BY <1>1, Typed DEF Shapes
  <2>2. d \in Device /\ d.on = dev[n].on /\ d.gen = dev[n].gen /\ d.state = "Initialising"
          /\ d.otherend = dev[n].otherend /\ d.watch = dev[n].watch /\ d.ring = FALSE
    BY <2>1 DEF Device, States
  <2>3. Set(n, d)
    BY <1>7 DEF ResumeDriver
  <2>. HIDE DEF d
  <2>. QED  BY <2>1, <2>2, <2>3, SetFacts
<1>11. /\ store' \in [Nodes -> Entry] /\ \A m \in Nodes : m # n => store'[m] = store[m]
       /\ store'[n].there = store[n].there /\ store'[n].gen = store[n].gen
       /\ store'[n].back = store[n].back /\ store'[n].front = store[n].front
  <2>. DEFINE s == [store[n] EXCEPT !.keys = Older(@), !.mapped = Older(@)]
  <2>1. store \in [Nodes -> Entry] /\ store[n] \in Entry
    BY <1>1, Typed DEF Shapes
  <2>2. /\ s \in Entry /\ s.there = store[n].there /\ s.gen = store[n].gen /\ s.back = store[n].back
        /\ s.front = store[n].front
    BY <2>1 DEF Entry, Older
  <2>3. Put(n, s)
    BY DEF ResumeDriver, DropRing
  <2>. HIDE DEF s
  <2>. QED  BY <2>1, <2>2, <2>3, PutFacts
<1>12. Shapes'
  <2>1. XwOk' /\ BootOk'
    BY <1>1, <1>2 DEF Shapes, XwOk, BootOk
  <2>2. SusOk'
    BY <1>3 DEF SusOk, SusSteps
  <2>. QED  BY <1>1, <1>2, <1>9, <1>10, <1>11, <2>1, <2>2 DEF Shapes
<1>13. BusOk'
  BY <1>1, <1>2, <1>10 DEF BusOk, OnBus, Listed
<1>14. InOrder'
  BY <1>1, <1>2, <1>5 DEF InOrder
<1>15. Early'
  BY <1>1, <1>2, <1>3, <1>8, Places DEF Early
<1>16. ASSUME NEW m \in Nodes PROVE NodeOk(m)'
  <2>1. EntryOk(store[m]) /\ DevOk(m) /\ BusyOk(m) /\ ResumeOk(m) /\ FollowOk(m)
    BY <1>1 DEF NodeOk
  <2>2. EntryOk(store[m])'
    BY <2>1, <1>2, <1>3, <1>5, <1>11 DEF EntryOk
  <2>3. DevOk(m)'
    <3>1. CASE m = n
      BY <3>1, <2>1, <1>2, <1>4, <1>5, <1>6, <1>7, <1>10, <1>11 DEF DevOk, Listed
    <3>2. CASE m # n
      BY <3>2, <2>1, <1>2, <1>4, <1>5, <1>6, <1>10, <1>11 DEF DevOk, Probes, InProbe, Listed
    <3>. QED  BY <3>1, <3>2
  <2>4. BusyOk(m)'
    BY <2>1, <1>2, <1>4, <1>5, <1>6, <1>10, <1>11 DEF BusyOk, InProbe
  <2>5. ResumeOk(m)'
    <3>1. CASE m = n
      BY <3>1, <2>1, <1>2, <1>4, <1>5, <1>6, <1>10, <1>11 DEF ResumeOk, Working
    <3>2. CASE m # n
      BY <3>2, <2>1, <1>2, <1>5, <1>6, <1>10, <1>11 DEF ResumeOk
    <3>. QED  BY <3>1, <3>2
  <2>6. FollowOk(m)'
    BY <2>1, <1>2, <1>4, <1>5, <1>6, <1>10, <1>11 DEF FollowOk, Working
  <2>. QED  BY <2>2, <2>3, <2>4, <2>5, <2>6 DEF NodeOk
<1>. QED  BY <1>12, <1>13, <1>14, <1>15, <1>16 DEF Inv

LEMMA ResumeWatchStep ==
  ASSUME Inv, NEW n \in Nodes, ResumeWatch(n)
  PROVE  Inv'
<1>1. Shapes /\ BusOk /\ Early /\ InOrder /\ \A m \in Nodes : NodeOk(m)
  BY Parts
<1>2. UNCHANGED <<left, bus, fe, loaded, xw, boot, path, store, resumed>>
  BY DEF ResumeWatch, AtRest
<1>3. sus = <<"watch", n>> /\ sus' = <<"resume">> /\ \A w, m : Busy(w, m)' <=> Busy(w, m)
  BY <1>2 DEF ResumeWatch, Busy
<1>4. queue' \in Seq(Events) /\ Queued' = Queued \cup {Event("otherend", n)}
  BY <1>1, EventsDiffer, QueueAppend DEF ResumeWatch, Shapes
<1>5. /\ ~Calm /\ Walking /\ \A m : Pending(m) <=> (m = n \/ m \notin resumed)
      /\ \A w, m : Stage(w, m) <=> (w = "watch" /\ m = n)
      /\ \A m : At(m) <=> m = n
      /\ \A m : ~Fading(m)
      /\ \A m : Restarting(m) <=> m = n
      /\ \A m : Unwatched(m) <=> m = n
  BY <1>3, StageKnown DEF StageIs, SusSteps
<1>6. /\ ~Calm' /\ Walking' /\ \A m : Pending(m)' <=> m \notin resumed'
      /\ \A w, m : ~Stage(w, m)'
      /\ \A m : ~At(m)' /\ ~Fading(m)' /\ ~Restarting(m)' /\ ~Unwatched(m)'
  BY <1>3, StageNone DEF Aloof
<1>7. dev[n].watch = "none" /\ dev[n].on = "bound" /\ store[n].there /\ n \in resumed /\ ~Working(n)
        /\ dev[n].state = "Initialising" /\ ~dev[n].ring /\ dev[n].otherend = path
  BY <1>1, <1>3, <1>5 DEF NodeOk, ResumeOk, DevOk
<1>8. boot = <<"done">> /\ fe /\ loaded
  <2>1. loaded
    BY <1>1, <1>5 DEF NodeOk, ResumeOk
  <2>. QED  BY <2>1, LateOnly
<1>9. bug' = FALSE
  BY <1>7 DEF ResumeWatch, Uses
<1>10. /\ dev' \in [Nodes -> Device] /\ \A m \in Nodes : m # n => dev'[m] = dev[m]
       /\ dev'[n].on = dev[n].on /\ dev'[n].gen = dev[n].gen /\ dev'[n].state = dev[n].state
       /\ dev'[n].otherend = dev[n].otherend /\ dev'[n].watch = "on" /\ dev'[n].ring = dev[n].ring
  <2>. DEFINE d == [dev[n] EXCEPT !.watch = "on"]
  <2>1. dev \in [Nodes -> Device] /\ dev[n] \in Device /\ path \in Nat
    BY <1>1, Typed DEF Shapes
  <2>2. d \in Device /\ d.on = dev[n].on /\ d.gen = dev[n].gen /\ d.state = dev[n].state
          /\ d.otherend = dev[n].otherend /\ d.watch = "on" /\ d.ring = dev[n].ring
    BY <2>1 DEF Device, States
  <2>3. Set(n, d)
    BY <1>7 DEF ResumeWatch, Watching
  <2>. HIDE DEF d
  <2>. QED  BY <2>1, <2>2, <2>3, SetFacts
<1>11. /\ \A m : m # n => (Event("otherend", m) \in Queued' <=> Event("otherend", m) \in Queued)
       /\ \A m : Event("device", m) \in Queued' <=> Event("device", m) \in Queued
       /\ Event("otherend", n) \in Queued'
  BY <1>4, EventsDiffer
<1>12. store[n].front = "Initialising"
         \/ (store[n].front = "Closed" /\ store[n].back \in {"Closing", "Closed"})
  BY <1>1, <1>5, <1>7 DEF NodeOk, ResumeOk
<1>13. Shapes'
  <2>1. XwOk' /\ BootOk'
    BY <1>1, <1>2 DEF Shapes, XwOk, BootOk
  <2>2. SusOk'
    BY <1>3 DEF SusOk, SusSteps
  <2>. QED  BY <1>1, <1>2, <1>4, <1>9, <1>10, <2>1, <2>2 DEF Shapes
<1>14. BusOk'
  BY <1>1, <1>2, <1>10 DEF BusOk, OnBus, Listed
<1>15. InOrder'
  BY <1>1, <1>2, <1>5 DEF InOrder
<1>16. Early'
  BY <1>1, <1>2, <1>3, <1>8, Places DEF Early
<1>17. ASSUME NEW m \in Nodes PROVE NodeOk(m)'
  <2>1. EntryOk(store[m]) /\ DevOk(m) /\ BusyOk(m) /\ ResumeOk(m) /\ FollowOk(m)
    BY <1>1 DEF NodeOk
  <2>2. EntryOk(store[m])'
    BY <2>1, <1>2
  <2>3. DevOk(m)'
    BY <2>1, <1>2, <1>3, <1>5, <1>7, <1>10, <1>11 DEF DevOk, Probes, InProbe
  <2>4. BusyOk(m)'
    BY <2>1, <1>2, <1>3, <1>5, <1>6, <1>10, <1>11 DEF BusyOk, InProbe
  <2>5. ResumeOk(m)'
    BY <2>1, <1>2, <1>5, <1>6, <1>10 DEF ResumeOk
  <2>6. FollowOk(m)'
    <3>1. CASE m = n
      BY <3>1, <2>1, <1>2, <1>3, <1>5, <1>6, <1>7, <1>10, <1>11, <1>12 DEF FollowOk, Working
    <3>2. CASE m # n
      BY <3>2, <2>1, <1>2, <1>3, <1>5, <1>6, <1>7, <1>10, <1>11, <1>12 DEF FollowOk, Working
    <3>. QED  BY <3>1, <3>2
  <2>. QED  BY <2>2, <2>3, <2>4, <2>5, <2>6 DEF NodeOk
<1>. QED  BY <1>13, <1>14, <1>15, <1>16, <1>17 DEF Inv

(* bus_for_each_dev comes to the next device, the first not resumed yet.   *)
NextNone == sus' = Idle /\ resumed' = resumed /\ \A m \in Nodes : OnBus(m) => m \in resumed
NextIs(h) ==
    /\ h \notin resumed /\ OnBus(h) /\ resumed' = resumed \cup {h}
    /\ dev[h].on \in {"probing", "bound"} => sus' = <<"unwatch", h>>
    /\ dev[h].on \notin {"probing", "bound"} => sus' = <<"resume">>
    /\ \A i, j \in 1 .. Len(bus) : i < j /\ bus[j] \in resumed' => bus[i] \in resumed'

LEMMA ResumeNextIs ==
  ASSUME Inv, ResumeNext
  PROVE  NextNone \/ \E h \in Nodes : NextIs(h)
<1>. DEFINE T == Nodes \ resumed
            rest == Among(bus, T)
<1>1. /\ bus \in Seq(Nodes) /\ Len(bus) \in Nat /\ sus = <<"resume">> /\ InOrder
      /\ \A i, j \in 1 .. Len(bus) : bus[i] = bus[j] => i = j
  BY Parts DEF Shapes, BusOk, ResumeNext
<1>2. rest \in Seq(Nodes) /\ Len(rest) \in Nat /\ Rest(rest, bus, T)
  <2>. HIDE DEF T
  <2>. QED  BY <1>1, AmongSeq
<1>3. PICK p \in [1 .. Len(rest) -> 1 .. Len(bus)] : Picked(rest, bus, T, Len(bus), p)
  BY <1>2 DEF Rest
<1>4. IF rest = <<>> THEN sus' = Idle /\ UNCHANGED resumed
      ELSE /\ resumed' = resumed \cup {Head(rest)}
           /\ sus' = IF dev[Head(rest)].on \in {"probing", "bound"}
                     THEN <<"unwatch", Head(rest)>> ELSE sus
  BY DEF ResumeNext
<1>. HIDE DEF rest
<1>5. CASE rest = <<>>
  <2>1. ASSUME NEW m \in Nodes, OnBus(m) PROVE m \in resumed
    <3>1. PICK j \in 1 .. Len(bus) : bus[j] = m
      BY <2>1 DEF OnBus
    <3>2. m \in T => \E i \in 1 .. Len(rest) : p[i] = j
      BY <1>3, <3>1 DEF Picked
    <3>. QED  BY <1>5, <3>2
  <2>. QED  BY <1>4, <1>5, <2>1 DEF NextNone
<1>6. CASE rest # <<>>
  <2>. DEFINE h == Head(rest)
  <2>1. 1 \in 1 .. Len(rest) /\ h = rest[1] /\ h \in Nodes
    BY <1>2, <1>6
  <2>2. p[1] \in 1 .. Len(bus) /\ bus[p[1]] = h /\ h \in T
    BY <1>3, <2>1 DEF Picked
  <2>. HIDE DEF h
  <2>3. resumed' = resumed \cup {h}
          /\ sus' = IF dev[h].on \in {"probing", "bound"} THEN <<"unwatch", h>> ELSE <<"resume">>
    BY <1>1, <1>4, <1>6 DEF h
  <2>4. ASSUME NEW i \in 1 .. Len(bus), NEW j \in 1 .. Len(bus), i < j, bus[j] \in resumed'
        PROVE  bus[i] \in resumed'
    <3>1. CASE bus[j] \in resumed
      BY <1>1, <2>3, <2>4, <3>1 DEF InOrder, Walking
    <3>2. CASE bus[j] = h
      <4>1. j = p[1]
        BY <1>1, <2>2, <3>2
      <4>. SUFFICES ASSUME bus[i] \notin resumed PROVE FALSE
        BY <2>3
      <4>2. bus[i] \in T
        BY <1>1
      <4>3. PICK x \in 1 .. Len(rest) : p[x] = i
        BY <1>3, <4>2 DEF Picked
      <4>4. x # 1 /\ 1 < x
        BY <1>2, <2>4, <4>1, <4>3
      <4>5. p[1] < p[x]
        BY <1>3, <2>1, <4>4 DEF Picked
      <4>. QED  BY <1>1, <2>4, <4>1, <4>3, <4>5
    <3>. QED  BY <2>3, <2>4, <3>1, <3>2
  <2>5. OnBus(h)
    BY <2>2 DEF OnBus
  <2>6. NextIs(h)
    BY <2>2, <2>3, <2>4, <2>5 DEF NextIs
  <2>. QED  BY <2>1, <2>6
<1>. QED  BY <1>5, <1>6

LEMMA ResumeNoneStep ==
  ASSUME Inv, ResumeNext, NextNone
  PROVE  Inv'
<1>1. Shapes /\ BusOk /\ Early /\ InOrder /\ \A m \in Nodes : NodeOk(m)
  BY Parts
<1>2. UNCHANGED <<left, bus, fe, loaded, xw, boot, store, path, dev, queue, bug>>
  BY DEF ResumeNext, AtRest
<1>3. sus = <<"resume">> /\ sus' = Idle /\ resumed' = resumed /\ \A m \in Nodes : OnBus(m)
        => m \in resumed
  BY DEF ResumeNext, NextNone
<1>4. /\ Queued' = Queued /\ \A w, m : Busy(w, m)' <=> Busy(w, m)
  BY <1>2, QueueSame DEF Busy
<1>5. /\ ~Calm /\ Walking /\ \A m : Pending(m) <=> m \notin resumed
      /\ \A w, m : ~Stage(w, m)
      /\ \A m : ~At(m) /\ ~Fading(m) /\ ~Restarting(m) /\ ~Unwatched(m)
  BY <1>3, StageNone DEF Aloof
<1>6. /\ Calm' /\ ~Walking' /\ \A m : ~Pending(m)'
      /\ \A w, m : ~Stage(w, m)'
      /\ \A m : ~At(m)' /\ ~Fading(m)' /\ ~Restarting(m)' /\ ~Unwatched(m)'
  BY <1>3, StageNone DEF Aloof, Calm
<1>7. boot = <<"done">> /\ fe /\ loaded
  <2>1. loaded
    BY <1>1, <1>3, Places DEF Early, Idle, Shapes
  <2>. QED  BY <2>1, LateOnly
<1>8. \A m \in Nodes : dev[m].on = "bound" => ~Pending(m)
  BY <1>1, <1>3, <1>5 DEF BusOk, Listed
<1>9. Shapes'
  <2>1. XwOk' /\ BootOk'
    BY <1>1, <1>2 DEF Shapes, XwOk, BootOk
  <2>2. SusOk'
    BY <1>3 DEF SusOk, SusSteps
  <2>. QED  BY <1>1, <1>2, <1>3, <2>1, <2>2 DEF Shapes
<1>10. BusOk'
  BY <1>1, <1>2 DEF BusOk, OnBus
<1>11. InOrder'
  BY <1>6 DEF InOrder
<1>12. Early'
  BY <1>1, <1>2, <1>3, <1>7, Places DEF Early, Idle
<1>13. ASSUME NEW m \in Nodes PROVE NodeOk(m)'
  <2>1. EntryOk(store[m]) /\ DevOk(m) /\ BusyOk(m) /\ ResumeOk(m) /\ FollowOk(m)
    BY <1>1 DEF NodeOk
  <2>2. EntryOk(store[m])'
    BY <2>1, <1>2
  <2>3. DevOk(m)'
    BY <2>1, <1>2, <1>4, <1>5 DEF DevOk, Probes, InProbe
  <2>4. BusyOk(m)'
    BY <2>1, <1>2, <1>4, <1>6 DEF BusyOk, InProbe
  <2>5. ResumeOk(m)'
    BY <2>1, <1>2, <1>5, <1>6 DEF ResumeOk
  <2>6. FollowOk(m)'
    BY <2>1, <1>2, <1>4, <1>8 DEF FollowOk, Working
  <2>. QED  BY <2>2, <2>3, <2>4, <2>5, <2>6 DEF NodeOk
<1>. QED  BY <1>9, <1>10, <1>11, <1>12, <1>13 DEF Inv

LEMMA ResumeOneStep ==
  ASSUME Inv, NEW h \in Nodes, ResumeNext, NextIs(h)
  PROVE  Inv'
<1>1. Shapes /\ BusOk /\ Early /\ InOrder /\ \A m \in Nodes : NodeOk(m)
  BY Parts
<1>2. UNCHANGED <<left, bus, fe, loaded, xw, boot, store, path, dev, queue, bug>>
  BY DEF ResumeNext, AtRest
<1>3. sus = <<"resume">>
  BY DEF ResumeNext
<1>4. /\ Queued' = Queued /\ \A w, m : Busy(w, m)' <=> Busy(w, m)
  BY <1>2, QueueSame DEF Busy
<1>5. /\ ~Calm /\ Walking /\ \A m : Pending(m) <=> m \notin resumed
      /\ \A w, m : ~Stage(w, m)
      /\ \A m : ~At(m) /\ ~Fading(m) /\ ~Restarting(m) /\ ~Unwatched(m)
  BY <1>3, StageNone DEF Aloof
<1>6. h \notin resumed /\ OnBus(h) /\ resumed' = resumed \cup {h}
  BY DEF NextIs
<1>7. /\ Listed(dev[h]) /\ store[h].there /\ dev[h].on \in {"bound", "failed"}
      /\ dev[h].on = "bound" => dev[h].watch = "on"
  BY <1>1, <1>5, <1>6 DEF BusOk, NodeOk, ResumeOk, DevOk, Listed
<1>8. boot = <<"done">> /\ fe /\ loaded
  <2>1. loaded
    BY <1>1, <1>3, Places DEF Early, Idle, Shapes
  <2>. QED  BY <2>1, LateOnly
<1>9. /\ dev[h].on = "bound" => sus' = <<"unwatch", h>>
      /\ dev[h].on # "bound" => sus' = <<"resume">>
  BY <1>7 DEF NextIs
<1>10. \/ /\ dev[h].on = "bound" /\ ~Calm' /\ Walking'
               /\ \A m : Pending(m)' <=> (m = h \/ m \notin resumed')
          /\ \A w, m : Stage(w, m)' <=> (w = "unwatch" /\ m = h)
          /\ \A m : At(m)' <=> m = h
          /\ \A m : ~Fading(m)'
          /\ \A m : ~Restarting(m)'
          /\ \A m : ~Unwatched(m)'
       \/ /\ dev[h].on = "failed" /\ ~Calm' /\ Walking' /\ \A m : Pending(m)' <=> m \notin resumed'
          /\ \A w, m : ~Stage(w, m)'
          /\ \A m : ~At(m)' /\ ~Fading(m)' /\ ~Restarting(m)' /\ ~Unwatched(m)'
  BY <1>7, <1>9, StageKnown, StageNone DEF StageIs, SusSteps, Aloof
<1>11. \A i, j \in 1 .. Len(bus) : i < j /\ bus[j] \in resumed' => bus[i] \in resumed'
  BY DEF NextIs
<1>12. Shapes'
  <2>1. XwOk' /\ BootOk'
    BY <1>1, <1>2 DEF Shapes, XwOk, BootOk
  <2>2. SusOk'
    BY <1>7, <1>9 DEF SusOk, SusSteps
  <2>. QED  BY <1>1, <1>2, <1>6, <2>1, <2>2 DEF Shapes
<1>13. BusOk'
  BY <1>1, <1>2 DEF BusOk, OnBus, Listed
<1>14. InOrder'
  BY <1>2, <1>11 DEF InOrder
<1>15. Early'
  BY <1>1, <1>2, <1>7, <1>9, <1>8, Places DEF Early, Idle
<1>16. ASSUME NEW m \in Nodes PROVE NodeOk(m)'
  <2>1. EntryOk(store[m]) /\ DevOk(m) /\ BusyOk(m) /\ ResumeOk(m) /\ FollowOk(m)
    BY <1>1 DEF NodeOk
  <2>2. /\ dev'[m] = dev[m] /\ store'[m] = store[m]
             /\ UNCHANGED <<dev, store, path, fe, loaded, bus>>
        /\ Queued' = Queued /\ \A w : Busy(w, m)' <=> Busy(w, m)
        /\ Probes' <=> Probes
    BY <1>2, <1>4 DEF Probes, InProbe
  <2>3. /\ ~Calm /\ ~Calm' /\ (Pending(m)' => Pending(m)) /\ ~At(m) /\ ~Unwatched(m)
             /\ ~Restarting(m) /\ ~Fading(m)
        /\ ~Unwatched(m)' /\ ~Restarting(m)' /\ ~Fading(m)'
        /\ \A w : ~Stage(w, m) /\ (Stage(w, m)' => w = "unwatch" /\ m = h /\ dev[h].on = "bound")
        /\ At(m)' => Stage("unwatch", m)' /\ m = h /\ dev[h].on = "bound"
        /\ dev[m].on = "bound" /\ Pending(m) => Pending(m)'
    BY <1>5, <1>6, <1>7, <1>10
  <2>4. m = h => m \in resumed' /\ store[m].there /\ (dev[m].on = "bound" => dev[m].watch = "on")
    BY <1>6, <1>7
  <2>5. EntryOk(store[m])'
    BY <2>1, <2>2, <2>3, <2>4, EventsDiffer DEF EntryOk
  <2>6. DevOk(m)'
    BY <2>1, <2>2, <2>3, <2>4, EventsDiffer DEF DevOk, Probes, InProbe, Listed
  <2>7. BusyOk(m)'
    BY <2>1, <2>2, <2>3, <2>4, EventsDiffer DEF BusyOk, InProbe, Listed
  <2>8. ResumeOk(m)'
    BY <2>1, <2>2, <2>3, <2>4, EventsDiffer DEF ResumeOk, Working, Listed
  <2>9. FollowOk(m)'
    BY <2>1, <2>2, <2>3, <2>4, EventsDiffer DEF FollowOk, Working
  <2>. QED  BY <2>5, <2>6, <2>7, <2>8, <2>9 DEF NodeOk
<1>. QED  BY <1>12, <1>13, <1>14, <1>15, <1>16 DEF Inv

LEMMA ResumeDetailsStep ==
  ASSUME Inv, NEW n \in Nodes, ResumeDetails(n), store[n].there
  PROVE  Inv'
<1>1. Shapes /\ BusOk /\ Early /\ InOrder /\ \A m \in Nodes : NodeOk(m)
  BY Parts
<1>2. UNCHANGED <<left, bus, fe, loaded, xw, boot, store, path, queue, resumed, bug>>
  BY DEF ResumeDetails, AtRest
<1>3. Offered(n) /\ sus = <<"details", n>> /\ sus' = <<"restart", n>>
  BY <1>1 DEF ResumeDetails, Offered, NodeOk, EntryOk
<1>4. /\ Queued' = Queued /\ \A w, m : Busy(w, m)' <=> Busy(w, m)
  BY <1>2, QueueSame DEF Busy
<1>5. /\ ~Calm /\ Walking /\ \A m : Pending(m) <=> (m = n \/ m \notin resumed)
      /\ \A w, m : Stage(w, m) <=> (w = "details" /\ m = n)
      /\ \A m : At(m) <=> m = n
      /\ \A m : Fading(m) <=> m = n
      /\ \A m : ~Restarting(m)
      /\ \A m : Unwatched(m) <=> m = n
  BY <1>3, StageKnown DEF StageIs, SusSteps
<1>6. /\ ~Calm' /\ Walking' /\ \A m : Pending(m)' <=> (m = n \/ m \notin resumed')
      /\ \A w, m : Stage(w, m)' <=> (w = "restart" /\ m = n)
      /\ \A m : At(m)' <=> m = n
      /\ \A m : ~Fading(m)'
      /\ \A m : Restarting(m)' <=> m = n
      /\ \A m : Unwatched(m)' <=> m = n
  BY <1>3, StageKnown DEF StageIs, SusSteps
<1>7. dev[n].watch = "none" /\ dev[n].on = "bound" /\ n \in resumed /\ ~Working(n) /\ path \in Nat
  BY <1>1, <1>3, <1>5 DEF NodeOk, ResumeOk, DevOk, Shapes
<1>8. boot = <<"done">> /\ fe /\ loaded
  <2>1. loaded
    BY <1>1, <1>5 DEF NodeOk, ResumeOk
  <2>. QED  BY <2>1, LateOnly
<1>9. /\ dev' \in [Nodes -> Device] /\ \A m \in Nodes : m # n => dev'[m] = dev[m]
      /\ dev'[n].on = dev[n].on /\ dev'[n].gen = dev[n].gen /\ dev'[n].state = dev[n].state
      /\ dev'[n].otherend = path /\ dev'[n].watch = dev[n].watch /\ dev'[n].ring = dev[n].ring
  <2>. DEFINE d == [dev[n] EXCEPT !.otherend = path]
  <2>1. dev \in [Nodes -> Device] /\ dev[n] \in Device /\ path \in Nat
    BY <1>1, Typed DEF Shapes
  <2>2. d \in Device /\ d.on = dev[n].on /\ d.gen = dev[n].gen /\ d.state = dev[n].state
          /\ d.otherend = path /\ d.watch = dev[n].watch /\ d.ring = dev[n].ring
    BY <2>1 DEF Device, States
  <2>3. Set(n, d)
    BY <1>3, <1>7 DEF ResumeDetails, Keep
  <2>. HIDE DEF d
  <2>. QED  BY <2>1, <2>2, <2>3, SetFacts
<1>10. ~Busy("remove", n) /\ ~Busy("close", n)
  BY <1>1, <1>7 DEF NodeOk, BusyOk
<1>11. Shapes'
  <2>1. XwOk' /\ BootOk'
    BY <1>1, <1>2 DEF Shapes, XwOk, BootOk
  <2>2. SusOk'
    BY <1>3 DEF SusOk, SusSteps
  <2>. QED  BY <1>1, <1>2, <1>9, <2>1, <2>2 DEF Shapes
<1>12. BusOk'
  BY <1>1, <1>2, <1>9 DEF BusOk, OnBus, Listed
<1>13. InOrder'
  BY <1>1, <1>2, <1>5 DEF InOrder
<1>14. Early'
  BY <1>1, <1>2, <1>3, <1>8, Places DEF Early
<1>15. ASSUME NEW m \in Nodes PROVE NodeOk(m)'
  <2>1. EntryOk(store[m]) /\ DevOk(m) /\ BusyOk(m) /\ ResumeOk(m) /\ FollowOk(m)
    BY <1>1 DEF NodeOk
  <2>2. EntryOk(store[m])'
    BY <2>1, <1>2
  <2>3. DevOk(m)'
    BY <2>1, <1>2, <1>4, <1>5, <1>6, <1>7, <1>9 DEF DevOk, Probes, InProbe
  <2>4. BusyOk(m)'
    BY <2>1, <1>2, <1>4, <1>5, <1>6, <1>9, <1>10 DEF BusyOk, InProbe
  <2>5. ResumeOk(m)'
    BY <2>1, <1>2, <1>4, <1>5, <1>6, <1>9 DEF ResumeOk, Working
  <2>6. FollowOk(m)'
    BY <2>1, <1>2, <1>4, <1>5, <1>6, <1>9 DEF FollowOk, Working
  <2>. QED  BY <2>2, <2>3, <2>4, <2>5, <2>6 DEF NodeOk
<1>. QED  BY <1>11, <1>12, <1>13, <1>14, <1>15 DEF Inv

LEMMA ResumeLostStep ==
  ASSUME Inv, NEW n \in Nodes, ResumeDetails(n), ~store[n].there
  PROVE  Inv'
<1>1. Shapes /\ BusOk /\ Early /\ InOrder /\ \A m \in Nodes : NodeOk(m)
  BY Parts
<1>2. UNCHANGED <<left, bus, fe, loaded, xw, boot, store, path, queue, resumed, bug>>
  BY DEF ResumeDetails, AtRest
<1>3. ~Offered(n) /\ sus = <<"details", n>> /\ sus' = <<"fatal", n>>
  BY <1>1 DEF ResumeDetails, Offered, NodeOk, EntryOk
<1>4. /\ Queued' = Queued /\ \A w, m : Busy(w, m)' <=> Busy(w, m)
  BY <1>2, QueueSame DEF Busy
<1>5. /\ ~Calm /\ Walking /\ \A m : Pending(m) <=> (m = n \/ m \notin resumed)
      /\ \A w, m : Stage(w, m) <=> (w = "details" /\ m = n)
      /\ \A m : At(m) <=> m = n
      /\ \A m : Fading(m) <=> m = n
      /\ \A m : ~Restarting(m)
      /\ \A m : Unwatched(m) <=> m = n
  BY <1>3, StageKnown DEF StageIs, SusSteps
<1>6. /\ ~Calm' /\ Walking' /\ \A m : Pending(m)' <=> (m = n \/ m \notin resumed')
      /\ \A w, m : Stage(w, m)' <=> (w = "fatal" /\ m = n)
      /\ \A m : At(m)' <=> m = n
      /\ \A m : Fading(m)' <=> m = n
      /\ \A m : ~Restarting(m)'
      /\ \A m : Unwatched(m)' <=> m = n
  BY <1>3, StageKnown DEF StageIs, SusSteps
<1>7. dev[n].watch = "none" /\ dev[n].on \in {"none", "bound", "leaving"} /\ n \in resumed
        /\ ~Working(n) /\ path \in Nat
  BY <1>1, <1>3, <1>5 DEF NodeOk, ResumeOk, DevOk, Shapes
<1>8. boot = <<"done">> /\ fe /\ loaded
  <2>1. loaded
    BY <1>1, <1>5 DEF NodeOk, ResumeOk
  <2>. QED  BY <2>1, LateOnly
<1>9. /\ dev' \in [Nodes -> Device] /\ \A m \in Nodes : m # n => dev'[m] = dev[m]
      /\ dev'[n].on = dev[n].on /\ dev'[n].gen = dev[n].gen /\ dev'[n].watch = dev[n].watch
           /\ dev'[n].ring = dev[n].ring
      /\ dev[n].on = "none" => dev'[n] = dev[n]
      /\ dev'[n].state = dev[n].state /\ (dev'[n].otherend = 0 \/ dev'[n] = dev[n])
  <2>. DEFINE d == [dev[n] EXCEPT !.otherend = 0]
  <2>1. dev \in [Nodes -> Device] /\ dev[n] \in Device /\ path \in Nat
    BY <1>1, Typed DEF Shapes
  <2>2. d \in Device /\ d.on = dev[n].on /\ d.gen = dev[n].gen /\ d.state = dev[n].state
          /\ d.otherend = 0 /\ d.watch = dev[n].watch /\ d.ring = dev[n].ring
    BY <2>1 DEF Device, States
  <2>3. IF dev[n].on = "none" THEN dev' = dev ELSE Set(n, d)
    BY <1>3, <1>7 DEF ResumeDetails, Keep
  <2>. HIDE DEF d
  <2>. QED  BY <2>1, <2>2, <2>3, SetFacts
<1>10. dev[n].otherend <= path /\ dev[n].otherend \in Nat /\ dev'[n].otherend <= path
  BY <1>1, <1>7, <1>9, Typed DEF NodeOk, DevOk
<1>11. Shapes'
  <2>1. XwOk' /\ BootOk'
    BY <1>1, <1>2 DEF Shapes, XwOk, BootOk
  <2>2. SusOk'
    BY <1>3 DEF SusOk, SusSteps
  <2>. QED  BY <1>1, <1>2, <1>9, <2>1, <2>2 DEF Shapes
<1>12. BusOk'
  BY <1>1, <1>2, <1>9 DEF BusOk, OnBus, Listed
<1>13. InOrder'
  BY <1>1, <1>2, <1>5 DEF InOrder
<1>14. Early'
  BY <1>1, <1>2, <1>3, <1>8, Places DEF Early
<1>15. ASSUME NEW m \in Nodes PROVE NodeOk(m)'
  <2>1. EntryOk(store[m]) /\ DevOk(m) /\ BusyOk(m) /\ ResumeOk(m) /\ FollowOk(m)
    BY <1>1 DEF NodeOk
  <2>2. EntryOk(store[m])'
    BY <2>1, <1>2
  <2>3. DevOk(m)'
    BY <2>1, <1>2, <1>4, <1>5, <1>9, <1>10 DEF DevOk, Probes, InProbe, Listed
  <2>4. BusyOk(m)'
    BY <2>1, <1>2, <1>4, <1>5, <1>6, <1>9 DEF BusyOk, InProbe, Listed
  <2>5. ResumeOk(m)'
    BY <2>1, <1>2, <1>4, <1>5, <1>6, <1>9, <1>10 DEF ResumeOk, Working
  <2>6. FollowOk(m)'
    BY <2>1, <1>2, <1>4, <1>5, <1>6, <1>9 DEF FollowOk, Working
  <2>. QED  BY <2>2, <2>3, <2>4, <2>5, <2>6 DEF NodeOk
<1>. QED  BY <1>11, <1>12, <1>13, <1>14, <1>15 DEF Inv

LEMMA ResumeFatalStep ==
  ASSUME Inv, NEW n \in Nodes, ResumeFatal(n)
  PROVE  Inv'
<1>1. Shapes /\ BusOk /\ Early /\ InOrder /\ \A m \in Nodes : NodeOk(m)
  BY Parts
<1>2. UNCHANGED <<left, bus, fe, loaded, xw, boot, path, resumed, bug>>
  BY DEF ResumeFatal, AtRest
<1>3. sus = <<"fatal", n>> /\ sus' = Idle
  BY DEF ResumeFatal
<1>4. \A w, m : Busy(w, m)' <=> Busy(w, m)
  BY <1>2 DEF Busy
<1>5. /\ ~Calm /\ Walking /\ \A m : Pending(m) <=> (m = n \/ m \notin resumed)
      /\ \A w, m : Stage(w, m) <=> (w = "fatal" /\ m = n)
      /\ \A m : At(m) <=> m = n
      /\ \A m : Fading(m) <=> m = n
      /\ \A m : ~Restarting(m)
      /\ \A m : Unwatched(m) <=> m = n
  BY <1>3, StageKnown DEF StageIs, SusSteps
<1>6. /\ Calm' /\ ~Walking' /\ \A m : ~Pending(m)'
      /\ \A w, m : ~Stage(w, m)'
      /\ \A m : ~At(m)' /\ ~Fading(m)' /\ ~Restarting(m)' /\ ~Unwatched(m)'
  BY <1>3, StageNone DEF Aloof, Calm
<1>7. /\ dev[n].watch = "none" /\ dev[n].on \in {"none", "bound", "leaving"} /\ ~Working(n)
           /\ ~store[n].there
      /\ \A i \in 1 .. Len(bus) : bus[i] \in resumed
  BY <1>1, <1>3, <1>5 DEF NodeOk, ResumeOk, DevOk
<1>8. boot = <<"done">> /\ fe /\ loaded
  <2>1. loaded
    BY <1>1, <1>5 DEF NodeOk, ResumeOk
  <2>. QED  BY <2>1, LateOnly
<1>9. store' = store /\ queue' = queue /\ Queued' = Queued
  BY <1>7, QueueSame DEF ResumeFatal, SwitchState, Writes
<1>10. /\ dev' \in [Nodes -> Device] /\ \A m \in Nodes : m # n => dev'[m] = dev[m]
       /\ dev'[n].on = dev[n].on /\ dev'[n].gen = dev[n].gen /\ dev'[n].watch = dev[n].watch
            /\ dev'[n].ring = dev[n].ring
       /\ dev[n].on = "none" => dev'[n] = dev[n]
       /\ dev'[n].otherend = dev[n].otherend /\ (dev[n].on # "none" => dev'[n].state = "Closing")
  <2>. DEFINE d == [dev[n] EXCEPT !.state = "Closing"]
  <2>1. dev \in [Nodes -> Device] /\ dev[n] \in Device /\ path \in Nat
    BY <1>1, Typed DEF Shapes
  <2>2. d \in Device /\ d.on = dev[n].on /\ d.gen = dev[n].gen /\ d.state = "Closing"
          /\ d.otherend = dev[n].otherend /\ d.watch = dev[n].watch /\ d.ring = dev[n].ring
    BY <2>1 DEF Device, States
  <2>3. IF dev[n].on = "none" THEN dev' = dev ELSE Set(n, d)
    BY <1>3, <1>7 DEF ResumeFatal, Keep
  <2>. HIDE DEF d
  <2>. QED  BY <2>1, <2>2, <2>3, SetFacts
<1>11. \A m \in Nodes : dev[m].on = "bound" /\ m # n => ~Pending(m)
  BY <1>1, <1>5, <1>7 DEF BusOk, OnBus, Listed
<1>12. Shapes'
  <2>1. XwOk' /\ BootOk'
    BY <1>1, <1>2 DEF Shapes, XwOk, BootOk
  <2>2. SusOk'
    BY <1>3 DEF SusOk, SusSteps
  <2>. QED  BY <1>1, <1>2, <1>9, <1>10, <2>1, <2>2 DEF Shapes
<1>13. BusOk'
  BY <1>1, <1>2, <1>10 DEF BusOk, OnBus, Listed
<1>14. InOrder'
  BY <1>6 DEF InOrder
<1>15. Early'
  BY <1>1, <1>2, <1>3, <1>8, <1>9, Places DEF Early, Idle
<1>16. ASSUME NEW m \in Nodes PROVE NodeOk(m)'
  <2>1. EntryOk(store[m]) /\ DevOk(m) /\ BusyOk(m) /\ ResumeOk(m) /\ FollowOk(m)
    BY <1>1 DEF NodeOk
  <2>2. EntryOk(store[m])'
    BY <2>1, <1>9
  <2>3. DevOk(m)'
    BY <2>1, <1>2, <1>4, <1>5, <1>7, <1>9, <1>10 DEF DevOk, Probes, InProbe, Listed
  <2>4. BusyOk(m)'
    BY <2>1, <1>4, <1>5, <1>6, <1>9, <1>10 DEF BusyOk, InProbe, Listed
  <2>5. ResumeOk(m)'
    BY <2>1, <1>5, <1>6, <1>10 DEF ResumeOk
  <2>6. FollowOk(m)'
    BY <2>1, <1>2, <1>4, <1>7, <1>9, <1>10, <1>11 DEF FollowOk, Working
  <2>. QED  BY <2>2, <2>3, <2>4, <2>5, <2>6 DEF NodeOk
<1>. QED  BY <1>12, <1>13, <1>14, <1>15, <1>16 DEF Inv
--------------------------------------------------------------------------------
(* The host's tools, and the boot.                                         *)
LEMMA CreateStep ==
  ASSUME Inv, NEW n \in Nodes, Create(n)
  PROVE  Inv'
<1>1. Shapes /\ BusOk /\ Early /\ InOrder /\ \A m \in Nodes : NodeOk(m)
  BY Parts
<1>2. UNCHANGED <<path, bus, dev, fe, loaded, xw, sus, resumed, boot, bug>>
  BY DEF Create, Aside, driver
<1>3. \A w, m : Busy(w, m)' <=> Busy(w, m)
  BY <1>2 DEF Busy
<1>4. sus = Idle /\ boot # <<"watch">> /\ dev[n].on = "none" /\ store[n].back = "Unknown"
  <2>1. left \in Left
    BY <1>1 DEF Shapes
  <2>2. ~May("absent") /\ ~May("boot") /\ ~May("replug")
    BY <2>1 DEF May, Left
  <2>. QED  BY <2>2 DEF Create, Heard
<1>5. /\ Calm /\ ~Walking /\ \A m : ~Pending(m)
      /\ \A w, m : ~Stage(w, m)
      /\ \A m : ~At(m) /\ ~Fading(m) /\ ~Restarting(m) /\ ~Unwatched(m)
  BY <1>4, StageNone DEF Aloof, Calm
<1>6. /\ store' \in [Nodes -> Entry] /\ \A m \in Nodes : m # n => store'[m] = store[m]
      /\ store'[n].there /\ store'[n].front = "Initialising" /\ store'[n].back = "Initialising"
  <2>. DEFINE s == [there |-> TRUE, gen |-> store[n].gen + 1, front |-> "Initialising",
                    keys |-> "none", back |-> "Initialising", mapped |-> "none"]
  <2>1. store \in [Nodes -> Entry] /\ store[n].gen \in Nat
    BY <1>1, Typed DEF Shapes
  <2>2. s \in Entry /\ s.there /\ s.front = "Initialising" /\ s.back = "Initialising"
    BY <2>1 DEF Entry, States
  <2>3. Put(n, s)
    BY DEF Create
  <2>. HIDE DEF s
  <2>. QED  BY <2>1, <2>2, <2>3, PutFacts
<1>7. dev[n].watch = "none" /\ dev[n] = NoDevice
  BY <1>1, <1>4 DEF NodeOk, DevOk
<1>8. /\ queue' \in Seq(Events)
           /\ Queued' = Queued \cup (IF fe /\ HostKnows THEN {Event("device", n)} ELSE {})
      /\ fe \in BOOLEAN
      /\ ~fe => queue' = queue
  <2>1. queue \in Seq(Events) /\ Fires(n) /\ fe \in BOOLEAN
    BY <1>1 DEF Shapes, Create
  <2>2. ~(dev[n].watch = "on")
    BY <1>7
  <2>3. queue' \in Seq(Events)
          /\ Queued' = Queued \cup (IF fe /\ HostKnows THEN {Event("device", n)} ELSE {})
    BY <2>1, <2>2, QueueFires
  <2>4. ASSUME ~fe PROVE queue' = queue
    <3>1. FrontFires("device", n) = <<>> /\ OtherendFires(n) = <<>>
      BY <2>2, <2>4 DEF FrontFires, OtherendFires
    <3>. QED  BY <2>1, <3>1 DEF Fires
  <2>. QED  BY <2>1, <2>3, <2>4
<1>9. /\ queue' \in Seq(Events) /\ fe \in BOOLEAN
      /\ ~fe => queue' = queue
      /\ \A m : Event("otherend", m) \in Queued' <=> Event("otherend", m) \in Queued
      /\ \A m : Event("device", m) \in Queued => Event("device", m) \in Queued'
  BY <1>8, EventsDiffer
<1>10. left' \in Left /\ left'.migrations = left.migrations
  <2>1. left \in Left /\ left.creates > 0 /\ left' = [left EXCEPT !.creates = @ - 1]
    BY <1>1 DEF Shapes, Create
  <2>. QED  BY <2>1 DEF Left
<1>11. boot # <<"done">> => ~fe
  BY <1>1 DEF Early
<1>12. Shapes'
  <2>1. XwOk' /\ SusOk' /\ BootOk'
    BY <1>1, <1>2 DEF Shapes, XwOk, SusOk, BootOk
  <2>. QED  BY <1>1, <1>2, <1>6, <1>9, <1>10, <2>1 DEF Shapes
<1>13. BusOk'
  BY <1>1, <1>2 DEF BusOk, OnBus
<1>14. InOrder'
  BY <1>2, <1>5 DEF InOrder, Walking, At, Unwatched, Fading, Restarting, Stage
<1>15. Early'
  BY <1>1, <1>2, <1>6, <1>9, <1>10 DEF Early
<1>16. ASSUME NEW m \in Nodes PROVE NodeOk(m)'
  <2>1. EntryOk(store[m]) /\ DevOk(m) /\ BusyOk(m) /\ ResumeOk(m) /\ FollowOk(m)
    BY <1>1 DEF NodeOk
  <2>2. /\ Calm' = Calm /\ At(m)' = At(m) /\ Pending(m)' = Pending(m)
        /\ Unwatched(m)' = Unwatched(m) /\ Fading(m)' = Fading(m) /\ Restarting(m)' = Restarting(m)
        /\ \A w : Stage(w, m)' = Stage(w, m)
    BY <1>2 DEF Calm, At, Pending, Walking, Unwatched, Fading, Restarting, Stage
  <2>3. EntryOk(store[m])'
    BY <2>1, <1>6 DEF EntryOk
  <2>4. DevOk(m)'
    BY <2>1, <1>2, <1>3, <1>4, <1>5, <1>6, <1>9 DEF DevOk, Probes, InProbe
  <2>5. BusyOk(m)'
    BY <2>1, <2>2, <1>2, <1>3, <1>4, <1>6, <1>9 DEF BusyOk, InProbe, Listed
  <2>6. ResumeOk(m)'
    BY <2>1, <2>2, <1>2, <1>5 DEF ResumeOk
  <2>7. FollowOk(m)'
    BY <2>1, <1>2, <1>3, <1>4, <1>5, <1>6, <1>9 DEF FollowOk, Working
  <2>. QED  BY <2>3, <2>4, <2>5, <2>6, <2>7 DEF NodeOk
<1>. QED  BY <1>12, <1>13, <1>14, <1>15, <1>16 DEF Inv

LEMMA DeleteStep ==
  ASSUME Inv, NEW n \in Nodes, Delete(n)
  PROVE  Inv'
<1>1. Shapes /\ BusOk /\ Early /\ InOrder /\ \A m \in Nodes : NodeOk(m)
  BY Parts
<1>2. UNCHANGED <<path, bus, dev, fe, loaded, xw, sus, resumed, boot, bug>> /\ left' = left
  BY DEF Delete, Aside, driver
<1>3. \A w, m : Busy(w, m)' <=> Busy(w, m)
  BY <1>2 DEF Busy
<1>4. /\ sus = Idle \/ (sus = <<"details", n>> /\ bus # <<>> /\ Last(bus) = n)
      /\ sus = Idle => boot # <<"watch">>
      /\ xw # <<"connect", n>> /\ ~(boot[1] \in {"write", "wait"} /\ boot[3] = n)
           /\ store[n].back # "Unknown"
  <2>1. left \in Left
    BY <1>1 DEF Shapes
  <2>2. ~May("absent") /\ ~May("boot") /\ ~May("late")
    BY <2>1 DEF May, Left
  <2>3. ~Written(n) /\ (Heard \/ BeforeResumed(n)) /\ store[n].back # "Unknown"
    BY <2>2 DEF Delete
  <2>4. <<"details", n>> # Idle
    BY Places
  <2>. QED  BY <2>2, <2>3, <2>4 DEF Heard, BeforeResumed, Written
<1>5. /\ store' \in [Nodes -> Entry] /\ \A m \in Nodes : m # n => store'[m] = store[m]
      /\ ~store'[n].there /\ store'[n].gen = store[n].gen /\ store'[n].front = "Unknown"
           /\ store'[n].back = "Unknown"
  <2>1. store \in [Nodes -> Entry] /\ store[n] \in Entry
    BY <1>1, Typed DEF Shapes
  <2>2. Gone(n) \in Entry /\ ~Gone(n).there /\ Gone(n).gen = store[n].gen
          /\ Gone(n).front = "Unknown" /\ Gone(n).back = "Unknown"
    BY <2>1 DEF Gone, Entry, States
  <2>3. Put(n, Gone(n))
    BY DEF Delete
  <2>. QED  BY <2>1, <2>2, <2>3, PutFacts
<1>6. dev[n].watch = "on" => dev[n].on = "bound"
  BY <1>1 DEF NodeOk, DevOk
<1>7. HostKnows
  BY <1>4, Places DEF HostKnows, Idle
<1>8. /\ queue' \in Seq(Events) /\ fe \in BOOLEAN
      /\ Queued' = Queued \cup (IF fe THEN {Event("device", n)} ELSE {})
                         \cup (IF dev[n].watch = "on"
                           /\ dev[n].otherend = path THEN {Event("otherend", n)} ELSE {})
      /\ ~fe /\ dev[n].watch # "on" => queue' = queue
  <2>1. queue \in Seq(Events) /\ Fires(n) /\ fe \in BOOLEAN
    BY <1>1 DEF Shapes, Delete
  <2>3. /\ queue' \in Seq(Events)
        /\ Queued' = Queued \cup (IF fe THEN {Event("device", n)} ELSE {})
                         \cup (IF dev[n].watch = "on"
                           /\ dev[n].otherend = path THEN {Event("otherend", n)} ELSE {})
    BY <2>1, <1>7, QueueFires
  <2>4. ASSUME ~fe, dev[n].watch # "on" PROVE queue' = queue
    <3>1. FrontFires("device", n) = <<>> /\ OtherendFires(n) = <<>>
      BY <2>4 DEF FrontFires, OtherendFires
    <3>. QED  BY <2>1, <3>1 DEF Fires
  <2>. QED  BY <2>1, <2>3, <2>4
<1>9. /\ queue' \in Seq(Events) /\ fe \in BOOLEAN
      /\ ~fe /\ dev[n].watch # "on" => queue' = queue
      /\ \A m : m # n => (Event("otherend", m) \in Queued' <=> Event("otherend", m) \in Queued)
      /\ Event("otherend", n) \in Queued' => Event("otherend", n) \in Queued \/ dev[n].watch = "on"
      /\ \A m : Event("device", m) \in Queued => Event("device", m) \in Queued'
      /\ fe => Event("device", n) \in Queued'
  BY <1>8, EventsDiffer
<1>10. /\ boot # <<"done">> => ~fe
       /\ ~loaded => dev[n].on # "bound"
  BY <1>1 DEF Early
<1>11. Listed(dev[n]) => fe
  <2>. SUFFICES ASSUME Listed(dev[n]) PROVE fe
    OBVIOUS
  <2>1. bus # <<>>
    BY <1>1 DEF BusOk, OnBus, Shapes
  <2>2. boot \in {<<"watch">>, <<"done">>}
    BY <1>1, <2>1 DEF Early
  <2>3. boot = <<"watch">> => sus = Idle
    BY <1>1, Places DEF Early, Shapes
  <2>. QED  BY <1>1, <1>4, <2>2, <2>3 DEF Early
<1>12. /\ Calm \/ Fading(n)
       /\ Calm => \A m : ~At(m)
       /\ ~Calm => \A m : At(m) <=> m = n
       /\ ~Calm => sus = <<"details", n>> /\ n \in resumed
            /\ \A i \in 1 .. Len(bus) : bus[i] \in resumed
  <2>1. CASE sus = Idle
    BY <2>1, StageNone DEF Calm, Aloof
  <2>2. CASE sus = <<"details", n>> /\ bus # <<>> /\ Last(bus) = n
    <3>1. Fading(n) /\ ~Calm /\ Walking /\ \A m : At(m) <=> m = n
      BY <2>2, StageKnown DEF StageIs, SusSteps
    <3>2. n \in resumed
      BY <1>1, <3>1 DEF NodeOk, ResumeOk
    <3>3. Len(bus) \in Nat /\ Len(bus) \in 1 .. Len(bus) /\ bus[Len(bus)] = n
      BY <1>1, <2>2 DEF Last, Shapes
    <3>4. \A i \in 1 .. Len(bus) : bus[i] \in resumed
      BY <1>1, <3>1, <3>2, <3>3 DEF InOrder
    <3>. QED  BY <2>2, <3>1, <3>2, <3>4
  <2>. QED  BY <1>4, <2>1, <2>2
<1>13. ~Busy("connect", n)
  BY <1>4 DEF Busy
<1>14. Unwatched(n) => dev[n].watch = "none"
  BY <1>1 DEF NodeOk, ResumeOk
<1>15. Shapes'
  <2>1. XwOk' /\ SusOk' /\ BootOk'
    BY <1>1, <1>2 DEF Shapes, XwOk, SusOk, BootOk
  <2>. QED  BY <1>1, <1>2, <1>5, <1>9, <2>1 DEF Shapes
<1>16. BusOk'
  BY <1>1, <1>2 DEF BusOk, OnBus
<1>17. InOrder'
  BY <1>1, <1>2 DEF InOrder, Walking, At, Unwatched, Fading, Restarting, Stage
<1>18. Early'
  <2>1. boot # <<"done">> => queue' = queue
    BY <1>1, <1>6, <1>9, <1>10 DEF Early
  <2>2. \A m \in Nodes : boot[1] \in {"write", "wait"} /\ boot[3] = m => store'[m].there
    BY <1>1, <1>4, <1>5 DEF Early
  <2>. QED  BY <1>1, <1>2, <2>1, <2>2 DEF Early
<1>19. ASSUME NEW m \in Nodes PROVE NodeOk(m)'
  <2>1. EntryOk(store[m]) /\ DevOk(m) /\ BusyOk(m) /\ ResumeOk(m) /\ FollowOk(m)
    BY <1>1 DEF NodeOk
  <2>2. /\ Calm' = Calm /\ At(m)' = At(m) /\ Pending(m)' = Pending(m)
        /\ Unwatched(m)' = Unwatched(m) /\ Fading(m)' = Fading(m) /\ Restarting(m)' = Restarting(m)
        /\ \A w : Stage(w, m)' = Stage(w, m)
    BY <1>2 DEF Calm, At, Pending, Walking, Unwatched, Fading, Restarting, Stage
  <2>3. EntryOk(store[m])'
    BY <2>1, <1>5 DEF EntryOk
  <2>4. DevOk(m)'
    BY <2>1, <1>2, <1>3, <1>5, <1>9, <1>11, <1>12 DEF DevOk, Probes, InProbe
  <2>5. BusyOk(m)'
    BY <2>1, <2>2, <1>2, <1>3, <1>5, <1>9, <1>13 DEF BusyOk, InProbe
  <2>6. ResumeOk(m)'
    BY <2>1, <2>2, <1>2, <1>3, <1>5, <1>9, <1>12 DEF ResumeOk, Working
  <2>7. FollowOk(m)'
    BY <2>1, <2>2, <1>2, <1>3, <1>5, <1>9 DEF FollowOk, Working
  <2>. QED  BY <2>3, <2>4, <2>5, <2>6, <2>7 DEF NodeOk
<1>. QED  BY <1>15, <1>16, <1>17, <1>18, <1>19 DEF Inv

(* SetToSeq lists every member of a set once. *)
LEMMA SetListed ==
  ASSUME NEW S, IsFiniteSet(S)
  PROVE  /\ SetToSeq(S) \in Seq(S)
         /\ \A i, j \in 1 .. Len(SetToSeq(S)) : SetToSeq(S)[i] = SetToSeq(S)[j] => i = j
         /\ {SetToSeq(S)[i] : i \in 1 .. Len(SetToSeq(S))} = S
<1>. DEFINE n == Cardinality(S)
            s == SetToSeq(S)
<1>1. n \in Nat /\ ExistsBijection(1 .. n, S)
  BY FS_CardinalityType
<1>2. PICK g : g \in Bijection(1 .. n, S)
  BY <1>1 DEF ExistsBijection
<1>3. g \in [1 .. n -> S] /\ IsInjective(g)
  <2>1. g \in [1 .. n -> S] /\ \A a, b \in 1 .. n : g[a] = g[b] => a = b
    BY <1>2 DEF Bijection, Injection, IsInjective
  <2>. QED  BY <2>1 DEF IsInjective
<1>4. s \in [1 .. n -> S] /\ IsInjective(s)
  BY <1>3 DEF SetToSeq
<1>. HIDE DEF s, n
<1>5. s \in [1 .. n -> S] /\ \A i, j \in 1 .. n : s[i] = s[j] => i = j
  BY <1>4 DEF IsInjective
<1>6. s \in Seq(S) /\ Len(s) = n
  BY <1>1, <1>5
<1>7. IsFiniteSet(1 .. n) /\ Cardinality(1 .. n) = n
  <2>1. IsFiniteSet(1 .. n) /\ Cardinality(1 .. n) = IF 1 > n THEN 0 ELSE n - 1 + 1
    BY <1>1, FS_Interval
  <2>. QED  BY <1>1, <2>1
<1>8. s \in Surjection(1 .. n, S)
  <2>1. s \in Injection(1 .. n, S)
    BY <1>5 DEF Injection, IsInjective
  <2>2. n = Cardinality(S)
    BY DEF n
  <2>. QED  BY <1>7, <2>1, <2>2, FS_Injection
<1>9. {s[i] : i \in 1 .. n} = S
  BY <1>5, <1>8 DEF Surjection
<1>. QED  BY <1>5, <1>6, <1>9 DEF s

LEMMA BootFacts ==
  ASSUME Inv, boot # <<"done">>
  PROVE  /\ ~fe /\ ~loaded /\ xw = Idle /\ sus = Idle /\ queue = <<>> /\ Calm
         /\ \A w, m : ~Busy(w, m)
         /\ boot # <<"watch">> => bus = <<>> /\ \A m \in Nodes : dev[m] = NoDevice
              /\ dev[m].on = "none"
<1>1. Shapes /\ BusOk /\ Early /\ \A m \in Nodes : NodeOk(m)
  BY Parts
<1>2. ~fe /\ ~loaded /\ xw = Idle /\ queue = <<>>
  BY <1>1 DEF Early
<1>3. sus = Idle /\ \A m \in Nodes : dev[m].on \in {"none", "plain"}
  BY <1>1, <1>2 DEF Early
<1>4. ASSUME boot # <<"watch">> PROVE bus = <<>> /\ \A m \in Nodes : dev[m] = NoDevice
               /\ dev[m].on = "none"
  <2>1. bus = <<>>
    BY <1>1, <1>4 DEF Early
  <2>2. \A m \in Nodes : ~OnBus(m)
    BY <2>1 DEF OnBus
  <2>3. \A m \in Nodes : dev[m].on = "none"
    BY <1>1, <1>3, <2>2 DEF BusOk, Listed
  <2>. QED  BY <1>1, <2>1, <2>3 DEF NodeOk, DevOk
<1>. QED  BY <1>2, <1>3, <1>4, NotBusy DEF Calm

LEMMA BootMoves ==
  ASSUME Inv, UNCHANGED <<store, path, left, bus, dev, fe, loaded, queue, xw, sus, resumed, bug>>,
         boot \notin {<<"watch">>, <<"done">>}, boot' \notin {<<"watch">>, <<"done">>}, BootOk',
         \A m : boot'[1] \in {"write", "wait"} /\ boot'[3] = m => store[m].there
  PROVE  Inv'
<1>1. Shapes /\ BusOk /\ Early /\ InOrder /\ \A m \in Nodes : NodeOk(m)
  BY Parts
<1>2. UNCHANGED <<store, path, left, bus, dev, fe, loaded, queue, xw, sus, resumed, bug>>
  OBVIOUS
<1>3. \A w, m : Busy(w, m)' <=> Busy(w, m)
  BY DEF Busy
<1>4. Queued' = Queued
  BY QueueSame
<1>5. ~fe /\ ~loaded /\ xw = Idle /\ sus = Idle /\ queue = <<>> /\ bus = <<>>
        /\ \A m \in Nodes : dev[m].on = "none"
  BY BootFacts
<1>6. Shapes'
  BY <1>1 DEF Shapes, XwOk, SusOk
<1>7. BusOk'
  BY <1>1, <1>2, <1>3, <1>4, <1>5 DEF BusOk, OnBus, Listed
<1>8. InOrder'
  BY <1>1, <1>2, <1>3, <1>4, <1>5 DEF InOrder, Walking, At, Unwatched, Fading, Restarting, Stage
<1>9. Early'
  BY <1>1, <1>2, <1>5, Places DEF Early, Idle
<1>10. ASSUME NEW m \in Nodes PROVE NodeOk(m)'
  <2>1. EntryOk(store[m]) /\ DevOk(m) /\ BusyOk(m) /\ ResumeOk(m) /\ FollowOk(m)
    BY <1>1 DEF NodeOk
  <2>2. /\ Calm' = Calm /\ At(m)' = At(m) /\ Pending(m)' = Pending(m)
        /\ Unwatched(m)' = Unwatched(m) /\ Fading(m)' = Fading(m) /\ Restarting(m)' = Restarting(m)
        /\ \A w : Stage(w, m)' = Stage(w, m)
    BY <1>2, <1>3, <1>4, <1>5 DEF Calm, At, Pending, Walking, Unwatched, Fading, Restarting, Stage
  <2>3. EntryOk(store[m])'
    BY <2>1
  <2>4. DevOk(m)'
    BY <2>1, <1>4, <1>5 DEF DevOk
  <2>5. BusyOk(m)'
    BY <2>1, <2>2, <1>3, <1>5 DEF BusyOk, InProbe
  <2>6. ResumeOk(m)'
    BY <2>1, <2>2, <1>3, <1>4 DEF ResumeOk, Working
  <2>7. FollowOk(m)'
    BY <1>4, <1>5, EventsDiffer DEF FollowOk, Working
  <2>. QED  BY <2>3, <2>4, <2>5, <2>6, <2>7 DEF NodeOk
<1>. QED  BY <1>6, <1>7, <1>8, <1>9, <1>10 DEF Inv

LEMMA BootShape ==
  ASSUME Inv
  PROVE  /\ boot[1] = "reset" => \E S \in SUBSET Nodes : boot = <<"reset", S>>
         /\ \A w \in {"write", "wait"} : boot[1] = w => \E S \in SUBSET Nodes, n \in Nodes,
               to \in {"Closing", "Closed", "Initialising"} : boot = <<w, S, n, to>>
<1>1. BootOk
  BY Parts DEF Shapes
<1>. QED  BY <1>1 DEF BootOk

LEMMA CheckFrontendStep ==
  ASSUME Inv, NEW n \in Nodes, CheckFrontend(n)
  PROVE  Inv'
<1>1. PICK S \in SUBSET Nodes : boot = <<"reset", S>>
  BY BootShape DEF CheckFrontend
<1>2. UNCHANGED <<store, path, left, bus, dev, fe, loaded, queue, xw, sus, resumed, bug>>
  BY DEF CheckFrontend, Booting
<1>. DEFINE first == IF store[n].there /\ store[n].front \in {"Connected", "Closed"}
                     THEN ResetFrom(store[n].back) ELSE {}
            to == CHOOSE t \in first : TRUE
<1>3. boot' = IF first = {} THEN <<"reset", S \ {n}>> ELSE <<"write", S \ {n}, n, to>>
  BY <1>1 DEF CheckFrontend
<1>4. first # {} => store[n].there /\ to \in {"Closing", "Closed", "Initialising"}
  BY DEF ResetFrom
<1>. HIDE DEF first, to
<1>5. \/ boot' = <<"reset", S \ {n}>>
      \/ boot' = <<"write", S \ {n}, n, to>> /\ store[n].there
           /\ to \in {"Closing", "Closed", "Initialising"}
  BY <1>3, <1>4
<1>6. BootOk'
  BY <1>5 DEF BootOk
<1>7. boot' \notin {<<"watch">>, <<"done">>} /\ \A m : boot'[1] \in {"write", "wait"}
        /\ boot'[3] = m => store[m].there
  BY <1>5
<1>8. boot \notin {<<"watch">>, <<"done">>}
  BY <1>1
<1>. QED  BY <1>2, <1>6, <1>7, <1>8, BootMoves

LEMMA ResetWaitStep ==
  ASSUME Inv, NEW n \in Nodes, ResetWait(n)
  PROVE  Inv'
<1>1. PICK S \in SUBSET Nodes, to \in {"Closing", "Closed", "Initialising"} : boot = <<"wait", S, n, to>>
  BY BootShape DEF ResetWait
<1>2. UNCHANGED <<store, path, left, bus, dev, fe, loaded, queue, xw, sus, resumed, bug>>
  BY DEF ResetWait, Booting
<1>3. store[n].there
  BY <1>1, Parts DEF Early
<1>4. \/ boot' = <<"reset", S>>
      \/ \E t \in {"Closing", "Closed", "Initialising"} : boot' = <<"write", S, n, t>>
  BY <1>1 DEF ResetWait
<1>5. BootOk'
  BY <1>4 DEF BootOk
<1>6. boot' \notin {<<"watch">>, <<"done">>} /\ \A m : boot'[1] \in {"write", "wait"}
        /\ boot'[3] = m => store[m].there
  BY <1>3, <1>4
<1>7. boot \notin {<<"watch">>, <<"done">>}
  BY <1>1
<1>. QED  BY <1>2, <1>5, <1>6, <1>7, BootMoves

LEMMA ResetDoneStep ==
  ASSUME Inv, ResetDone
  PROVE  Inv'
<1>1. UNCHANGED <<store, path, left, bus, dev, fe, loaded, queue, xw, sus, resumed, bug>>
  BY DEF ResetDone, Booting
<1>2. boot' = <<"enumerate">> /\ boot = <<"reset", {}>>
  BY DEF ResetDone
<1>3. BootOk'
  BY <1>2 DEF BootOk
<1>4. boot' \notin {<<"watch">>, <<"done">>} /\ \A m : boot'[1] \in {"write", "wait"}
        /\ boot'[3] = m => store[m].there
  BY <1>2
<1>5. boot \notin {<<"watch">>, <<"done">>}
  BY <1>2
<1>. QED  BY <1>1, <1>3, <1>4, <1>5, BootMoves

LEMMA ResetWriteStep ==
  ASSUME Inv, NEW n \in Nodes, ResetWrite(n)
  PROVE  Inv'
<1>1. Shapes /\ BusOk /\ Early /\ InOrder /\ \A m \in Nodes : NodeOk(m)
  BY Parts
<1>2. UNCHANGED <<path, left, bus, dev, fe, loaded, queue, xw, sus, resumed, bug>>
  BY DEF ResetWrite, Booting
<1>3. \E S \in SUBSET Nodes, to \in {"Closing", "Closed", "Initialising"} : boot = <<"write", S, n, to>>
  BY BootShape DEF ResetWrite
<1>4. PICK S \in SUBSET Nodes, to \in {"Closing", "Closed", "Initialising"} : boot = <<"write", S, n, to>>
  BY <1>3
<1>5. boot' = <<"wait", S, n, to>> /\ store[n].there /\ boot # <<"done">> /\ boot # <<"watch">>
        /\ boot' # <<"done">> /\ boot' # <<"watch">>
  BY <1>1, <1>4 DEF ResetWrite, Early
<1>6. Queued' = Queued /\ \A w, m : ~Busy(w, m) /\ ~Busy(w, m)'
  BY <1>2, <1>5, BootFacts, QueueSame DEF Busy
<1>7. /\ ~fe /\ ~loaded /\ xw = Idle /\ sus = Idle /\ queue = <<>> /\ Calm
      /\ bus = <<>> /\ \A m \in Nodes : dev[m] = NoDevice /\ dev[m].on = "none"
  BY <1>5, BootFacts
<1>8. /\ store' \in [Nodes -> Entry] /\ \A m \in Nodes : m # n => store'[m] = store[m]
      /\ store'[n].there /\ store'[n].gen = store[n].gen /\ store'[n].back = store[n].back
           /\ store'[n].front \notin {"Unknown", "InitWait"}
  <2>. DEFINE s == [store[n] EXCEPT !.there = TRUE, !.front = to]
  <2>1. store \in [Nodes -> Entry] /\ store[n] \in Entry /\ to \in States
          /\ to \notin {"Unknown", "InitWait"}
    BY <1>1, <1>4, Typed DEF Shapes, States
  <2>2. s \in Entry /\ s.there /\ s.gen = store[n].gen /\ s.back = store[n].back /\ s.front = to
    BY <2>1 DEF Entry
  <2>3. Put(n, s)
    BY <1>4 DEF ResetWrite
  <2>. HIDE DEF s
  <2>. QED  BY <2>1, <2>2, <2>3, PutFacts
<1>9. /\ Calm /\ ~Walking /\ \A m : ~Pending(m)
      /\ \A w, m : ~Stage(w, m)
      /\ \A m : ~At(m) /\ ~Fading(m) /\ ~Restarting(m) /\ ~Unwatched(m)
  BY <1>7, StageNone DEF Aloof
<1>10. Shapes'
  <2>1. XwOk' /\ SusOk'
    BY <1>1, <1>2 DEF Shapes, XwOk, SusOk
  <2>2. BootOk'
    BY <1>4, <1>5 DEF BootOk
  <2>. QED  BY <1>1, <1>2, <1>8, <2>1, <2>2 DEF Shapes
<1>11. BusOk'
  BY <1>2, <1>7 DEF BusOk, OnBus, Listed
<1>12. InOrder'
  BY <1>2, <1>9 DEF InOrder, Walking, At, Unwatched, Fading, Restarting, Stage
<1>13. Early'
  <2>1. \A m \in Nodes : boot'[1] \in {"write", "wait"} /\ boot'[3] = m => store'[m].there
    BY <1>5, <1>8
  <2>. QED  BY <1>1, <1>2, <1>5, <1>7, <2>1, Places DEF Early, Idle
<1>14. ASSUME NEW m \in Nodes PROVE NodeOk(m)'
  <2>1. EntryOk(store[m]) /\ DevOk(m) /\ BusyOk(m) /\ ResumeOk(m) /\ FollowOk(m)
    BY <1>1 DEF NodeOk
  <2>2. /\ Calm' = Calm /\ At(m)' = At(m) /\ Pending(m)' = Pending(m)
        /\ Unwatched(m)' = Unwatched(m) /\ Fading(m)' = Fading(m) /\ Restarting(m)' = Restarting(m)
        /\ \A w : Stage(w, m)' = Stage(w, m)
    BY <1>2 DEF Calm, At, Pending, Walking, Unwatched, Fading, Restarting, Stage
  <2>3. EntryOk(store[m])'
    BY <2>1, <1>5, <1>8 DEF EntryOk
  <2>4. DevOk(m)'
    BY <2>1, <1>2, <1>6, <1>7 DEF DevOk, Listed
  <2>5. BusyOk(m)'
    BY <1>2, <1>6, <1>7 DEF BusyOk, InProbe
  <2>6. ResumeOk(m)'
    BY <2>1, <2>2, <1>2, <1>9 DEF ResumeOk
  <2>7. FollowOk(m)'
    BY <1>2, <1>7 DEF FollowOk
  <2>. QED  BY <2>3, <2>4, <2>5, <2>6, <2>7 DEF NodeOk
<1>. QED  BY <1>10, <1>11, <1>12, <1>13, <1>14 DEF Inv

LEMMA WatchFrontendsStep ==
  ASSUME Inv, WatchFrontends
  PROVE  Inv'
<1>1. Shapes /\ BusOk /\ Early /\ InOrder /\ \A m \in Nodes : NodeOk(m)
  BY Parts
<1>2. UNCHANGED <<store, path, left, bus, dev, loaded, queue, xw, sus, resumed, bug>> /\ fe' = TRUE
  BY DEF WatchFrontends, Booting
<1>3. boot' = <<"done">> /\ boot # <<"done">>
  BY Places DEF WatchFrontends
<1>4. Queued' = Queued /\ \A w, m : ~Busy(w, m) /\ ~Busy(w, m)'
  BY <1>2, <1>3, BootFacts, QueueSame DEF Busy
<1>5. /\ ~fe /\ ~loaded /\ xw = Idle /\ sus = Idle /\ queue = <<>> /\ Calm
  BY <1>3, BootFacts
<1>6. /\ Calm /\ ~Walking /\ \A m : ~Pending(m)
      /\ \A w, m : ~Stage(w, m)
      /\ \A m : ~At(m) /\ ~Fading(m) /\ ~Restarting(m) /\ ~Unwatched(m)
  BY <1>5, StageNone DEF Aloof
<1>7. Shapes'
  <2>1. XwOk' /\ SusOk'
    BY <1>1, <1>2 DEF Shapes, XwOk, SusOk
  <2>2. BootOk'
    BY <1>3 DEF BootOk
  <2>. QED  BY <1>1, <1>2, <2>1, <2>2 DEF Shapes
<1>8. BusOk'
  BY <1>1, <1>2 DEF BusOk, OnBus
<1>9. InOrder'
  BY <1>2, <1>6 DEF InOrder, Walking, At, Unwatched, Fading, Restarting, Stage
<1>10. Early'
  BY <1>1, <1>2, <1>3, <1>5, Places DEF Early, Idle
<1>11. ASSUME NEW m \in Nodes PROVE NodeOk(m)'
  <2>1. EntryOk(store[m]) /\ DevOk(m) /\ BusyOk(m) /\ ResumeOk(m) /\ FollowOk(m)
    BY <1>1 DEF NodeOk
  <2>2. /\ Calm' = Calm /\ At(m)' = At(m) /\ Pending(m)' = Pending(m)
        /\ Unwatched(m)' = Unwatched(m) /\ Fading(m)' = Fading(m) /\ Restarting(m)' = Restarting(m)
        /\ \A w : Stage(w, m)' = Stage(w, m)
    BY <1>2, <1>3, <1>4, <1>5, <1>6 DEF Calm, At, Pending, Walking, Unwatched, Fading, Restarting,
       Stage
  <2>3. EntryOk(store[m])'
    BY <2>1, <1>2
  <2>4. DevOk(m)'
    BY <2>1, <1>2, <1>4, <1>6 DEF DevOk, Probes, InProbe
  <2>5. BusyOk(m)'
    BY <2>1, <1>2, <1>4 DEF BusyOk, InProbe
  <2>6. ResumeOk(m)'
    BY <2>1, <2>2, <1>2, <1>6 DEF ResumeOk
  <2>7. FollowOk(m)'
    BY <2>1, <1>2, <1>4, <1>6 DEF FollowOk, Working
  <2>. QED  BY <2>3, <2>4, <2>5, <2>6, <2>7 DEF NodeOk
<1>. QED  BY <1>7, <1>8, <1>9, <1>10, <1>11 DEF Inv

LEMMA ProbeDevicesStep ==
  ASSUME Inv, IsFiniteSet(Nodes), ProbeDevices
  PROVE  Inv'
<1>1. Shapes /\ BusOk /\ Early /\ InOrder /\ \A m \in Nodes : NodeOk(m)
  BY Parts
<1>2. UNCHANGED <<store, path, left, fe, loaded, queue, xw, sus, resumed, bug>>
  BY DEF ProbeDevices, host
<1>3. boot' = <<"watch">> /\ boot = <<"enumerate">> /\ boot # <<"done">> /\ boot # <<"watch">>
        /\ boot' # <<"done">>
  BY Places DEF ProbeDevices
<1>4. Queued' = Queued /\ \A w, m : ~Busy(w, m) /\ ~Busy(w, m)'
  BY <1>2, <1>3, BootFacts, QueueSame DEF Busy
<1>5. /\ ~fe /\ ~loaded /\ xw = Idle /\ sus = Idle /\ queue = <<>> /\ Calm
  BY <1>3, BootFacts
<1>6. /\ Calm /\ ~Walking /\ \A m : ~Pending(m)
      /\ \A w, m : ~Stage(w, m)
      /\ \A m : ~At(m) /\ ~Fading(m) /\ ~Restarting(m) /\ ~Unwatched(m)
  BY <1>5, StageNone DEF Aloof
<1>7. \A m \in Nodes :
      \/ /\ store[m].front = "Initialising" /\ dev'[m].on = "plain" /\ dev'[m].gen = store[m].gen
              /\ dev'[m].state = "Initialising"
         /\ dev'[m].otherend = 0 /\ dev'[m].watch = "none" /\ ~dev'[m].ring
      \/ /\ store[m].front # "Initialising" /\ dev'[m] = NoDevice /\ dev'[m].on = "none"
         /\ dev'[m].otherend = 0 /\ dev'[m].watch = "none" /\ ~dev'[m].ring
  <2>1. dev' = [n \in Nodes |-> IF store[n].front = "Initialising" THEN New(n) ELSE NoDevice]
    BY DEF ProbeDevices
  <2>2. \A n \in Nodes : /\ New(n).on = "plain" /\ New(n).gen = store[n].gen
          /\ New(n).state = "Initialising"
                         /\ New(n).otherend = 0 /\ New(n).watch = "none" /\ ~New(n).ring
    BY DEF New, NoDevice
  <2>3. NoDevice.on = "none" /\ NoDevice.otherend = 0 /\ NoDevice.watch = "none" /\ ~NoDevice.ring
    BY DEF NoDevice
  <2>. QED  BY <2>1, <2>2, <2>3
<1>8. dev' \in [Nodes -> Device]
  <2>1. dev' = [n \in Nodes |-> IF store[n].front = "Initialising" THEN New(n) ELSE NoDevice]
    BY DEF ProbeDevices
  <2>2. \A n \in Nodes : New(n) \in Device
    BY <1>1, Typed DEF New, NoDevice, Device, States
  <2>3. NoDevice \in Device
    BY DEF NoDevice, Device, States
  <2>. QED  BY <2>1, <2>2, <2>3
<1>9. /\ bus' \in Seq(Nodes)
      /\ \A i, j \in 1 .. Len(bus') : bus'[i] = bus'[j] => i = j
      /\ \A m \in Nodes : OnBus(m)' <=> store[m].front = "Initialising"
  <2>. DEFINE found == {n \in Nodes : store[n].front = "Initialising"}
  <2>1. bus' = SetToSeq(found)
    BY DEF ProbeDevices
  <2>2. IsFiniteSet(found)
    BY FS_Subset
  <2>3. found \subseteq Nodes /\ \A m \in Nodes : m \in found <=> store[m].front = "Initialising"
    OBVIOUS
  <2>. HIDE DEF found
  <2>4. /\ bus' \in Seq(found) /\ {bus'[i] : i \in 1 .. Len(bus')} = found
        /\ \A i, j \in 1 .. Len(bus') : bus'[i] = bus'[j] => i = j
    BY <2>1, <2>2, SetListed
  <2>5. bus' \in Seq(Nodes)
    BY <2>3, <2>4
  <2>6. \A m \in Nodes : OnBus(m)' <=> m \in found
    BY <2>4 DEF OnBus
  <2>. QED  BY <2>3, <2>4, <2>5, <2>6
<1>10. path \in Nat /\ \A m \in Nodes : EntryOk(store[m])
  BY <1>1 DEF Shapes, NodeOk
<1>11. Shapes'
  <2>1. XwOk' /\ SusOk'
    BY <1>1, <1>2 DEF Shapes, XwOk, SusOk
  <2>2. BootOk'
    BY <1>3 DEF BootOk
  <2>. QED  BY <1>1, <1>2, <1>8, <1>9, <2>1, <2>2 DEF Shapes
<1>12. BusOk'
  BY <1>7, <1>9 DEF BusOk, Listed
<1>13. InOrder'
  BY <1>2, <1>6 DEF InOrder, Walking, At, Unwatched, Fading, Restarting, Stage
<1>14. Early'
  BY <1>1, <1>2, <1>3, <1>5, <1>7, Places DEF Early, Idle
<1>15. ASSUME NEW m \in Nodes PROVE NodeOk(m)'
  <2>1. EntryOk(store[m]) /\ DevOk(m) /\ BusyOk(m) /\ ResumeOk(m) /\ FollowOk(m)
    BY <1>1 DEF NodeOk
  <2>2. /\ Calm' = Calm /\ At(m)' = At(m) /\ Pending(m)' = Pending(m)
        /\ Unwatched(m)' = Unwatched(m) /\ Fading(m)' = Fading(m) /\ Restarting(m)' = Restarting(m)
        /\ \A w : Stage(w, m)' = Stage(w, m)
    BY <1>2 DEF Calm, At, Pending, Walking, Unwatched, Fading, Restarting, Stage
  <2>3. EntryOk(store[m])'
    BY <1>2, <1>10
  <2>4. DevOk(m)'
    <3>1. Event("otherend", m) \notin Queued /\ Event("otherend", m) \notin Queued' /\ ~loaded'
            /\ path' = path /\ store' = store
      BY <2>1, <1>2, <1>3, <1>4, <1>5, BootFacts DEF DevOk
    <3>2. \A w : ~Busy(w, m)' /\ ~At(m)'
      BY <2>2, <1>4, <1>6
    <3>3. CASE store[m].front = "Initialising" /\ dev'[m].on = "plain"
      <4>1. store[m].there
        BY <1>10, <3>3 DEF EntryOk
      <4>2. dev'[m].gen = store[m].gen /\ dev'[m].state = "Initialising" /\ dev'[m].otherend = 0
            /\ dev'[m].watch = "none" /\ ~dev'[m].ring
        BY <1>7, <3>3
      <4>. QED  BY <1>10, <3>1, <3>3, <4>1, <4>2 DEF DevOk
    <3>4. CASE dev'[m] = NoDevice /\ dev'[m].on = "none"
      <4>1. dev'[m].otherend = 0 /\ dev'[m].watch = "none" /\ ~dev'[m].ring
        BY <3>4 DEF NoDevice
      <4>. QED  BY <1>10, <3>1, <3>2, <3>4, <4>1 DEF DevOk, Listed
    <3>. QED  BY <1>7, <3>3, <3>4
  <2>5. BusyOk(m)'
    BY <1>4, <1>7 DEF BusyOk, InProbe
  <2>6. ResumeOk(m)'
    BY <2>2, <1>6, <1>7 DEF ResumeOk
  <2>7. FollowOk(m)'
    BY <1>7, <1>8, <1>9, <1>10, EventsDiffer DEF FollowOk, Working
  <2>. QED  BY <2>3, <2>4, <2>5, <2>6, <2>7 DEF NodeOk
<1>. QED  BY <1>11, <1>12, <1>13, <1>14, <1>15 DEF Inv

(* The boot finds devices as a former kernel may have left them.           *)
LEMMA InitInv ==
  ASSUME GoodHost, Init
  PROVE  Inv
<1>1. left \in Left
  <2>1. left.may \subseteq {"sudden", "gone", "slow"}
    BY DEF Init, GoodHost
  <2>. QED  BY <2>1, DevicesAssumption DEF Init, Left
<1>2. /\ path = 1 /\ bus = <<>> /\ fe = FALSE /\ loaded = FALSE /\ queue = <<>> /\ xw = Idle
      /\ sus = Idle /\ resumed = {} /\ boot = <<"reset", Nodes>> /\ bug = FALSE
      /\ dev = [n \in Nodes |-> NoDevice]
  BY DEF Init
<1>3. \A n \in Nodes : /\ AtBoot(left.start[n]) \in Entry /\ EntryOk(AtBoot(left.start[n]))
                       /\ store[n] = AtBoot(left.start[n])
  <2>1. \A n \in Nodes : left.start[n] \in {"none", "new", "connected", "closed"}
    BY <1>1 DEF Left
  <2>2. \A what \in {"none", "new", "connected", "closed"} : AtBoot(what) \in Entry
          /\ EntryOk(AtBoot(what))
    <3>1. /\ StateOf["none"] = "Unknown" /\ StateOf["new"] = "Initialising"
          /\ StateOf["connected"] = "Connected" /\ StateOf["closed"] = "Closed"
      BY DEF StateOf
    <3>2. SUFFICES ASSUME NEW what \in {"none", "new", "connected", "closed"}
                   PROVE AtBoot(what) \in Entry /\ EntryOk(AtBoot(what))
      OBVIOUS
    <3>3. /\ AtBoot(what).there = (what # "none") /\ AtBoot(what).front = StateOf[what]
          /\ AtBoot(what).back = StateOf[what]
      BY DEF AtBoot
    <3>4. AtBoot(what) \in Entry
      BY <3>1 DEF AtBoot, Entry, States
    <3>. QED  BY <3>1, <3>3, <3>4 DEF EntryOk
  <2>. QED  BY <2>1, <2>2 DEF Init
<1>4. store \in [Nodes -> Entry]
  BY <1>3 DEF Init
<1>5. \A n \in Nodes : dev[n] = NoDevice
  BY <1>2
<1>6. /\ NoDevice \in Device /\ NoDevice.on = "none" /\ NoDevice.watch = "none" /\ ~NoDevice.ring
      /\ NoDevice.otherend = 0
  BY DEF NoDevice, Device, States
<1>7. /\ Queued = {} /\ Calm /\ ~Walking /\ \A w, m : ~Busy(w, m) /\ ~Stage(w, m)
      /\ \A m : ~At(m) /\ ~Pending(m) /\ ~Unwatched(m) /\ ~Fading(m) /\ ~Restarting(m)
  <2>1. Queued = {}
    BY <1>2 DEF Queued
  <2>2. Calm
    BY <1>2 DEF Calm
  <2>. QED  BY <1>2, <2>1, <2>2, NotBusy, CalmFacts
<1>8. Shapes
  <2>1. dev \in [Nodes -> Device]
    BY <1>2, <1>6
  <2>2. XwOk /\ SusOk
    BY <1>2 DEF XwOk, SusOk
  <2>3. BootOk
    BY <1>2 DEF BootOk
  <2>4. bus \in Seq(Nodes) /\ queue \in Seq(Events)
    BY <1>2
  <2>5. fe \in BOOLEAN /\ loaded \in BOOLEAN /\ resumed \subseteq Nodes /\ bug = FALSE
    BY <1>2
  <2>6. path \in Nat \ {0}
    BY <1>2
  <2>. QED  BY <1>1, <1>4, <2>1, <2>2, <2>3, <2>4, <2>5, <2>6 DEF Shapes
<1>9. BusOk
  BY <1>2, <1>5, <1>6 DEF BusOk, OnBus, Listed
<1>10. Early
  BY <1>2, <1>5, <1>6, Places DEF Early, Idle
<1>11. InOrder
  BY <1>7 DEF InOrder
<1>12. ASSUME NEW n \in Nodes PROVE NodeOk(n)
  <2>1. EntryOk(store[n]) /\ dev[n] = NoDevice /\ dev[n].on = "none" /\ dev[n].watch = "none"
          /\ ~dev[n].ring
        /\ dev[n].otherend = 0
    BY <1>3, <1>5, <1>6
  <2>2. DevOk(n)
    BY <1>2, <1>7, <2>1 DEF DevOk, Listed
  <2>3. BusyOk(n)
    BY <1>7, <2>1 DEF BusyOk, InProbe
  <2>4. ResumeOk(n)
    BY <1>7, <2>1 DEF ResumeOk
  <2>5. FollowOk(n)
    BY <2>1 DEF FollowOk
  <2>. QED  BY <2>1, <2>2, <2>3, <2>4, <2>5 DEF NodeOk
<1>. QED  BY <1>8, <1>9, <1>10, <1>11, <1>12 DEF Inv

LEMMA NextInv ==
  ASSUME Inv, [Next]_vars
  PROVE  Inv'
<1>1. CASE Boot
  BY <1>1, CheckFrontendStep, ResetWriteStep, ResetWaitStep, ResetDoneStep, ProbeDevicesStep,
     WatchFrontendsStep, DevicesAssumption DEF Boot
<1>2. CASE Probing
  BY <1>2, RegisterDriverStep, DevChangedStep, ProbeNodeStep, ProbeDetailsStep, ProbeBindStep,
     ProbeRefusesStep, ProbeFailsStep DEF Probing
<1>3. CASE Following
  BY <1>3, DevRemoveStep, DevRemoveClosedStep, OtherendChangedStep, ConnectStep, ConnectFailsStep,
     ConnectedStep, FrontendClosedStep DEF Following
<1>4. CASE Suspend
  BY <1>4, SuspendStep
<1>5. CASE Resuming
  <2>1. CASE ResumeNext
    BY <2>1, ResumeNextIs, ResumeNoneStep, ResumeOneStep
  <2>2. ASSUME NEW n \in Nodes, ResumeDetails(n) PROVE Inv'
    BY <2>2, ResumeDetailsStep, ResumeLostStep
  <2>. QED  BY <1>5, <2>1, <2>2, SuspendCancelStep, MigrateStep, RewatchStep, ResumeUnwatchStep,
               ResumeWaitStep, ResumeFatalStep, ResumeDriverStep, ResumeWatchStep DEF Resuming
<1>6. CASE Tools
  BY <1>6, BackendStep, CreateStep, DeleteStep DEF Tools
<1>7. CASE \E n \in Nodes : Backend(n)
  BY <1>7, BackendStep
<1>8. CASE UNCHANGED vars
  <2>1. UNCHANGED <<store, path, left, bus, dev, fe, loaded, queue, xw, sus, resumed, boot, bug>>
    BY <1>8 DEF vars, host, driver
  <2>2. Shapes' /\ BusOk' /\ InOrder' /\ Queued' = Queued
    <3>1. Shapes'
      BY <2>1, Parts DEF Shapes, XwOk, SusOk, BootOk
    <3>2. BusOk' /\ Queued' = Queued
      BY <2>1, Parts DEF BusOk, OnBus, Listed, Queued
    <3>3. InOrder'
      BY <2>1, Parts DEF InOrder, Walking, At, Unwatched, Fading, Restarting, Stage
    <3>. QED  BY <3>1, <3>2, <3>3
  <2>3. Early'
    BY <2>1, Parts DEF Early
  <2>4. ASSUME NEW m \in Nodes PROVE NodeOk(m)'
    <3>1. NodeOk(m) /\ Queued' = Queued
      BY <2>2, Parts
    <3>2. /\ Calm' = Calm /\ Walking' = Walking /\ At(m)' = At(m) /\ Pending(m)' = Pending(m)
          /\ Unwatched(m)' = Unwatched(m) /\ Fading(m)' = Fading(m)
               /\ Restarting(m)' = Restarting(m)
          /\ Working(m)' = Working(m) /\ InProbe(m)' = InProbe(m) /\ Probes' = Probes
          /\ \A w : Stage(w, m)' = Stage(w, m) /\ Busy(w, m)' = Busy(w, m)
      BY <2>1 DEF Calm, Walking, At, Pending, Unwatched, Fading, Restarting, Stage, Working, Probes,
         InProbe, Busy
    <3>3. DevOk(m)' /\ BusyOk(m)'
      BY <2>1, <3>1, <3>2 DEF NodeOk, DevOk, BusyOk
    <3>4. ResumeOk(m)' /\ FollowOk(m)' /\ EntryOk(store[m])'
      BY <2>1, <3>1, <3>2 DEF NodeOk, ResumeOk, FollowOk, EntryOk
    <3>. QED  BY <3>3, <3>4 DEF NodeOk
  <2>. QED  BY <2>2, <2>3, <2>4 DEF Inv
<1>. QED  BY <1>1, <1>2, <1>3, <1>4, <1>5, <1>6, <1>7, <1>8 DEF Next

LEMMA AlwaysInv ==
  ASSUME GoodHost
  PROVE  Spec => []Inv
<1>1. Init => Inv
  BY InitInv
<1>2. Inv /\ [Next]_vars => Inv'
  BY NextInv
<1>. QED  BY <1>1, <1>2, PTL DEF Spec

--------------------------------------------------------------------------------
(* What the invariant says to a reader. *)
LEMMA InvNoBug ==
  ASSUME Inv
  PROVE  NoBug
<1>1. Shapes /\ BusOk
  BY Parts
<1>2. TypeOK
  BY <1>1 DEF Shapes, Entry, Device, TypeOK
<1>3. \A n \in Nodes : OnBus(n) = (dev[n].on \in {"plain", "probing", "bound", "failed"})
  <2>. SUFFICES ASSUME NEW n \in Nodes PROVE OnBus(n) = (dev[n].on \in {"plain", "probing", "bound", "failed"})
    OBVIOUS
  <2>1. OnBus(n) \in BOOLEAN
    BY DEF OnBus
  <2>2. OnBus(n) <=> Listed(dev[n])
    BY <1>1 DEF BusOk
  <2>. QED  BY <2>1, <2>2 DEF Listed
<1>. QED  BY <1>1, <1>2, <1>3 DEF Shapes, BusOk, NoBug

LEMMA InvNoneMissed ==
  ASSUME Inv
  PROVE  NoneMissed
<1>. SUFFICES ASSUME NEW n \in Nodes, dev[n].on = "bound", ~Attended(n)
     PROVE  /\ dev[n].watch = "on" /\ dev[n].otherend = path
            /\ dev[n].state = store[n].front
            /\ Answer(store[n].back, dev[n].state) = "nothing"
  BY DEF NoneMissed
<1>1. DevOk(n) /\ FollowOk(n)
  BY Parts DEF NodeOk
<1>2. ~At(n) /\ ~Pending(n)
  BY CalmFacts DEF Attended, Calm
<1>3. Event("otherend", n) \notin Queued /\ Event("device", n) \notin Queued
  BY DEF Attended, Queued
<1>4. \A w : ~Busy(w, n)
  BY IsBusy DEF Attended, Busy
<1>5. store[n].there
  BY <1>1, <1>3, <1>4 DEF DevOk, Listed
<1>6. dev[n].watch = "on"
  BY <1>1, <1>2, <1>5 DEF DevOk
<1>. QED  BY <1>1, <1>2, <1>3, <1>4, <1>5, <1>6 DEF FollowOk, Working

(* A directory is there after a step only if it was before, or is another. *)
Stays(n) == store'[n].there => store[n].there \/ store'[n].gen # store[n].gen

LEMMA SwitchStays ==
  ASSUME Inv, NEW n \in Nodes, NEW to, SwitchState(n, to), NEW m \in Nodes
  PROVE  Stays(m)
<1>1. store \in [Nodes -> Entry] /\ store[n] \in Entry
  BY Parts, Typed DEF Shapes
<1>2. CASE Writes(n, to)
  BY <1>1, <1>2 DEF Stays, SwitchState, Put, Writes, Entry
<1>3. CASE ~Writes(n, to)
  BY <1>3 DEF Stays, SwitchState
<1>. QED  BY <1>2, <1>3

LEMMA DropStays ==
  ASSUME Inv, NEW n \in Nodes, DropRing(n), NEW m \in Nodes
  PROVE  Stays(m)
<1>1. store \in [Nodes -> Entry] /\ store[n] \in Entry
  BY Parts, Typed DEF Shapes
<1>. QED  BY <1>1 DEF Stays, DropRing, Put, Entry

LEMMA StaysUnless ==
  ASSUME Inv, Next, NEW m \in Nodes
  PROVE  Stays(m)
<1>1. Shapes /\ Early /\ \A n \in Nodes : BusyOk(n) /\ store[n] \in Entry
  BY Parts, Typed DEF NodeOk
<1>2. store \in [Nodes -> Entry]
  BY <1>1 DEF Shapes
<1>3. CASE store' = store
  BY <1>3 DEF Stays
<1>4. CASE Boot
  <2>1. ASSUME NEW n \in Nodes, ResetWrite(n) PROVE Stays(m)
    BY <1>1, <1>2, <2>1 DEF Stays, ResetWrite, Early, Put, Entry
  <2>. QED  BY <1>3, <1>4, <2>1 DEF Boot, CheckFrontend, ResetWait, ResetDone, ProbeDevices,
               WatchFrontends, host
<1>5. CASE Probing
  <2>1. ASSUME NEW n \in Nodes, ProbeFails(n) PROVE Stays(m)
    BY <2>1, SwitchStays DEF ProbeFails
  <2>. QED  BY <1>3, <1>5, <2>1 DEF Probing, RegisterDriver, DevChanged, ProbeNode, ProbeDetails,
               ProbeBind,
                                    ProbeRefuses, host
<1>6. CASE Following
  <2>1. ASSUME NEW n \in Nodes, DevRemove(n) PROVE Stays(m)
    BY <1>3, <2>1, DropStays DEF DevRemove
  <2>2. ASSUME NEW n \in Nodes, Connect(n) PROVE Stays(m)
    BY <1>1, <1>2, <2>2 DEF Stays, Connect, BusyOk, Busy, Put, Entry
  <2>. QED  BY <1>3, <1>6, <2>1, <2>2, SwitchStays
            DEF Following, DevRemoveClosed, OtherendChanged, ConnectFails, Connected, FrontendClosed
<1>7. CASE Suspend
  BY <1>3, <1>7 DEF Suspend, host
<1>8. CASE Resuming
  <2>1. CASE Migrate
    <3>1. \E back, drop : store' = [n \in Nodes |-> CASE n \in drop -> Gone(n)
                                                      [] store[n].there -> Anew(n, back)
                                                      [] OTHER -> store[n]]
      BY <2>1 DEF Migrate
    <3>2. ~Gone(m).there
      BY <1>1 DEF Gone, Entry
    <3>. QED  BY <3>1, <3>2 DEF Stays
  <2>2. ASSUME NEW n \in Nodes, ResumeFatal(n) PROVE Stays(m)
    BY <2>2, SwitchStays DEF ResumeFatal
  <2>3. ASSUME NEW n \in Nodes, ResumeDriver(n) PROVE Stays(m)
    BY <2>3, DropStays DEF ResumeDriver
  <2>. QED  BY <1>3, <1>8, <2>1, <2>2, <2>3 DEF Resuming, SuspendCancel, Rewatch, ResumeNext,
               ResumeUnwatch,
                                                ResumeWait, ResumeDetails, ResumeWatch
<1>9. ASSUME NEW n \in Nodes, NEW to, Tell(n, to) PROVE Stays(m)
  BY <1>1, <1>2, <1>9 DEF Stays, Tell, Put, Entry
<1>10. CASE Tools
  <2>1. ASSUME NEW n \in Nodes, Create(n) PROVE Stays(m)
    BY <1>1, <1>2, <2>1 DEF Stays, Create, Put, Entry
  <2>2. ASSUME NEW n \in Nodes, Delete(n) PROVE Stays(m)
    BY <1>1, <1>2, <2>2 DEF Stays, Delete, Gone, Put, Entry
  <2>. QED  BY <1>9, <1>10, <2>1, <2>2 DEF Tools, Unplug
<1>11. CASE \E n \in Nodes : Backend(n)
  BY <1>9, <1>11 DEF Backend, BackendReady, BackendConnects, BackendFollows
<1>. QED  BY <1>4, <1>5, <1>6, <1>7, <1>8, <1>10, <1>11 DEF Next

--------------------------------------------------------------------------------
(* No watch is registered or taken back twice, no removed device resumed,  *)
(* no ring replaced that was not released, and the bus holds each device   *)
(* once, however probing, removal, resume and the host interleave.         *)
THEOREM DevicesSound ==
  ASSUME GoodHost
  PROVE  Spec => []NoBug
<1>1. Inv => NoBug
  BY InvNoBug
<1>. QED  BY <1>1, AlwaysInv, PTL

(* A bound device nobody is about to look at watches its back end where it *)
(* is now, and has answered its state: netfront's backend_changed and      *)
(* resume_dev between them miss no change.                                 *)
THEOREM NoChangeIsMissed ==
  ASSUME GoodHost
  PROVE  Spec => []NoneMissed
<1>1. Inv => NoneMissed
  BY InvNoneMissed
<1>. QED  BY <1>1, AlwaysInv, PTL

(* What the guest writes for a device, by __xenbus_switch_state or when it *)
(* connects, goes to the directory it was found in and makes no new one.   *)
THEOREM DirectoriesRespected ==
  ASSUME GoodHost
  PROVE  Spec => DirRespected
<1>1. ASSUME Inv, [Next]_vars
      PROVE  [\A n \in Nodes : GuestWrites(n) =>
                store[n].there /\ (dev[n].on # "none" => dev[n].gen = store[n].gen)]_vars
  <2>. SUFFICES ASSUME Next, NEW n \in Nodes, GuestWrites(n)
       PROVE  store[n].there /\ (dev[n].on # "none" => dev[n].gen = store[n].gen)
    BY <1>1
  <2>1. store[n].there
    BY <1>1, StaysUnless DEF Stays, GuestWrites
  <2>. QED  BY <1>1, <2>1, Parts DEF NodeOk, DevOk
<1>. QED  BY <1>1, AlwaysInv, PTL DEF Spec, DirRespected
================================================================================
