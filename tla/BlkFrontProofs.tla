---------------------------- MODULE BlkFrontProofs ----------------------------
(***************************************************************************)
(* The block front end loses no request, accounts for every grant, and     *)
(* reaches no BUG_ON, for any ring, any bios, any number of migrations.    *)
(* The hypotheses are those of the run: Patient for what is said of        *)
(* requests, ids and grants, and Uniform as well for what a back end with  *)
(* other features breaks (pages, BUG_ONs, the stopped queue).              *)
(*                                                                         *)
(* The request function and the interrupt work on the record Driver, one   *)
(* grant at a time: DriverOk says what each of these small steps keeps.    *)
(***************************************************************************)
EXTENDS BlkFront, SequenceTheorems, FiniteSetTheorems, TLAPS

Members(s) == {s[i] : i \in 1..Len(s)}
Injective(s) == \A i, j \in 1..Len(s) : s[i] = s[j] => i = j

Shadows == [req : Requests \cup {NoRequest}, used : Seq(Grants)]
Drivers == [rq : Seq(Requests), free : Seq(Ids), shadow : [Ids -> Shadows],
            ring : Seq(Ids), answers : Seq(Ids), grants : Seq(Grants), count : Nat,
            granted : SUBSET Refs, pages : Nat, pending : [Bios -> Int], answered : [Bios -> Nat],
            bug : BOOLEAN]

Busy(d) == {id \in Ids : d.shadow[id].req # NoRequest}

(* The ids are free, or in exactly one of the places of an id in flight.   *)
IdsOk(d) ==
    /\ Injective(d.free) /\ Members(d.free) = Ids \ Busy(d)
    /\ Injective(d.ring) /\ Injective(d.answers)
    /\ Members(d.ring) \cap taken = {} /\ Members(d.answers) \cap taken = {}
    /\ Members(d.ring) \cap Members(d.answers) = {}
    /\ Members(d.ring) \cup taken \cup Members(d.answers) = Busy(d)

(* NothingLost, of a driver record. *)
BiosOk(d) ==
    \A b \in Bios :
        /\ size[b] = d.answered[b] + PagesOf(b, d.rq) + PagesOf(b, Shadowed(d.shadow))
                         + PagesOf(b, bio_list)
        /\ d.pending[b] = PiecesOf(b, d.rq) + PiecesOf(b, Shadowed(d.shadow))
                              + PiecesOf(b, bio_list)

UsedTotal(sh) == Total([i \in 1..RingSize |-> Len(sh[i - 1].used)])

(* Each reference is held once: in the list, or by a request in flight.    *)
HeldOnce(d) ==
    /\ d.granted = RefsIn(d.grants) \cup UNION {RefsIn(d.shadow[id].used) : id \in Ids}
    /\ Once(d.grants)
    /\ \A id \in Ids :
          /\ Once(d.shadow[id].used)
          /\ RefsIn(d.shadow[id].used) \cap RefsIn(d.grants) = {}
          /\ \A other \in Ids \ {id} :
                RefsIn(d.shadow[id].used) \cap RefsIn(d.shadow[other].used) = {}

CountOk(d) ==
    /\ d.count \in 0..Len(d.grants)
    /\ \A i \in 1..Len(d.grants) : d.grants[i].gref # NoRef <=> i <= d.count
    /\ \A id \in Ids : \A i \in 1..Len(d.shadow[id].used) : d.shadow[id].used[i].gref # NoRef
    /\ Cardinality(d.granted) = d.count + UsedTotal(d.shadow)
    /\ Len(d.grants) + UsedTotal(d.shadow) <= RingSize * (MaxSegs + 1)

GrantsOk(d) == HeldOnce(d) /\ CountOk(d) /\ mapped \subseteq d.granted

(* Each request in flight has a grant per page, and one for its frame. *)
Full(d) == \A id \in Ids : Len(d.shadow[id].used) = Need(d.shadow[id].req.n)

(* What holds as long as every back end offers the same. *)
PageOf(r, i, last) ==
    IF feature_persistent THEN "bounce"
    ELSE IF r.n > Direct /\ i = last THEN "frame" ELSE r.bio
PagesOk(d) ==
    /\ feature_persistent => \A i \in 1..Len(d.grants) : d.grants[i].page = "bounce"
    /\ \A id \in Ids : \A i \in 1..Len(d.shadow[id].used) :
          d.shadow[id].used[i].page = PageOf(d.shadow[id].req, i, Len(d.shadow[id].used))
SegsOk(d) ==
    /\ max_segments <= host.segs
    /\ \A i \in 1..Len(d.rq) : d.rq[i].n <= max_segments
    /\ \A id \in Ids : d.shadow[id].req.n <= host.segs
KeepsNone(d) ==
    ~feature_persistent =>
        /\ d.count = 0
        /\ mapped \subseteq UNION {RefsIn(d.shadow[id].used) : id \in taken}
UniformOk(d) ==
    /\ PagesOk(d) /\ SegsOk(d) /\ KeepsNone(d)
    /\ Len(d.grants) + UsedTotal(d.shadow) = RingSize * (host.segs + 1)

(* Between two requests, the pages for frames that no large request in     *)
(* flight has are in their list.                                           *)
Large(sh) == {id \in Ids : sh[id].req.n > Direct}
Indirect == ~feature_persistent /\ host.segs > Direct
FramesOk(d) == Indirect => d.pages + Cardinality(Large(d.shadow)) = RingSize

(* Everything at once, of a connected device between two requests. *)
Context ==
    bio_list \in Seq(Requests) /\ host \in Hosts /\ taken \subseteq Ids /\ max_segments \in Segs
Steady(d) ==
    /\ Context /\ d \in Drivers
    /\ IdsOk(d) /\ BiosOk(d) /\ GrantsOk(d) /\ (Uniform => UniformOk(d))
DriverOk(d) == Steady(d) /\ Full(d) /\ (Uniform => FramesOk(d))

--------------------------------------------------------------------------------
Phases ==
    /\ connected \in {"disconnected", "connected", "suspended"}
    /\ state \in {"Initialising", "Initialised", "Connected"}
    /\ pc \in {"idle", "talk", "recover", "reconnect", "resubmit"}
    /\ backend \in {"Initialising", "InitWait", "Connected"}
Flags ==
    /\ feature_persistent \in BOOLEAN /\ gd \in BOOLEAN /\ stopped \in BOOLEAN
    /\ callback \in BOOLEAN /\ work \in BOOLEAN /\ irq \in BOOLEAN /\ watch \in BOOLEAN
    /\ bug \in BOOLEAN
Data ==
    /\ max_segments \in Segs /\ bio_list \in Seq(Requests)
    /\ taken \subseteq Ids /\ mapped \subseteq Refs /\ host \in Hosts
    /\ migrations \in 0..MaxMigrations /\ shortages \in 0..MaxShortages
    /\ size \in [Bios -> 0..MaxSegs]
    /\ Driver \in Drivers
Types == Phases /\ Flags /\ Data

AllIdle == shadow = [id \in Ids |-> Idle]
NoneBusy == ring = <<>> /\ answers = <<>> /\ taken = {}
NoGrants == granted = {} /\ mapped = {} /\ persistent_gnts_c = 0

(* Before the disk is there. *)
Fresh ==
    /\ pc \in {"idle", "talk"} /\ gd = FALSE /\ rq = <<>>
    /\ callback = FALSE /\ work = FALSE
    /\ AllIdle /\ NoneBusy /\ NoGrants /\ grants = <<>> /\ indirect_pages = 0
    /\ state # "Initialising" => shadow_free = ShadowInit
    /\ backend = "Connected" => state # "Initialising"

(* After a migration, until blkif_recover has a ring again. *)
Suspended ==
    /\ pc # "resubmit" /\ NoneBusy /\ NoGrants /\ gd = TRUE
    /\ Len(grants) <= RingSize * (MaxSegs + 1)
    /\ Full(Driver)
    /\ pc = "reconnect" =>
          /\ AllIdle /\ shadow_free = ShadowInit
          /\ \A i \in 1..Len(grants) : grants[i].gref = NoRef

Connected ==
    /\ pc \in {"idle", "talk", "resubmit"} /\ gd = TRUE
    /\ pc = "talk" \/ backend # "Connected" => state = "Connected"
    /\ DriverOk(Driver)

UniformInv ==
    /\ MemoryLasts => bug = FALSE
    /\ connected # "disconnected" =>
          feature_persistent = host.persistent /\ PagesOk(Driver) /\ SegsOk(Driver)
    /\ connected = "suspended" =>
          /\ Len(grants) = RingSize * (host.segs + 1)
          /\ Indirect => indirect_pages = RingSize
    /\ connected = "connected" /\ stopped => InFlight # {} \/ callback \/ work

Inv ==
    /\ Types /\ BiosOk(Driver)
    /\ bio_list # <<>> => pc \in {"reconnect", "resubmit"}
    /\ connected = "disconnected" => Fresh
    /\ connected = "suspended" => Suspended
    /\ connected = "connected" => Connected
    /\ Uniform => UniformInv

--------------------------------------------------------------------------------
(* Induction over numbers without an operator for a parameter, and what    *)
(* follows for a recursive function and for a sum.                         *)

(* As it stands, for where there is more in sight.                         *)
LEMMA LessItself == ASSUME NEW k \in Nat PROVE k - k = 0
OBVIOUS

(* A set of naturals has a least element: as k grows, 0..k does.           *)
LEMMA LeastElement ==
  ASSUME NEW T, T \subseteq Nat, T # {}
  PROVE  \E x \in T : \A y \in T : x <= y
<1>. DEFINE R == StrictSubsetOrdering(Nat)
            S == FiniteSubsetsOf(Nat)
            U == {0..k : k \in T}
<1>1. IsWellFoundedOn(R, S)
  BY FS_StrictSubsetOrderingWellFounded
<1>2. U \subseteq S /\ U # {}
  <2>1. \A k \in T : IsFiniteSet(0..k) /\ 0..k \in SUBSET Nat
    BY FS_Interval
  <2>. QED  BY <2>1 DEF FiniteSubsetsOf
<1>3. \E u \in U : \A v \in U : ~ (<<v, u>> \in R)
  <2>. HIDE DEF R, S, U
  <2>. QED  BY <1>1, <1>2, WFMin
<1>4. PICK x \in T : \A y \in T : ~ (<<0..y, 0..x>> \in R)
  BY <1>3
<1>5. ASSUME NEW y \in T, y < x PROVE FALSE
  <2>1. 0..y \subseteq 0..x /\ x \in 0..x /\ x \notin 0..y
    BY <1>5
  <2>2. 0..y \in SUBSET Nat /\ 0..x \in SUBSET Nat /\ 0..y # 0..x
    BY <2>1
  <2>3. <<0..y, 0..x>> \in R
    BY <2>1, <2>2 DEF StrictSubsetOrdering
  <2>. QED  BY <2>3, <1>4
<1>. QED  BY <1>5

(* Induction up to m, on the set of numbers it has been shown for.         *)
LEMMA UpTo ==
  ASSUME NEW m \in Nat, NEW T, 0 \in T, \A n \in 1..m : n - 1 \in T => n \in T
  PROVE  \A n \in 0..m : n \in T
<1>. DEFINE Rest == (0..m) \ T
<1>1. SUFFICES ASSUME Rest # {} PROVE FALSE
  OBVIOUS
<1>2. Rest \subseteq Nat
  OBVIOUS
<1>3. \E x \in Rest : \A y \in Rest : x <= y
  <2>. HIDE DEF Rest
  <2>. QED  BY <1>1, <1>2, LeastElement
<1>4. PICK x \in Rest : \A y \in Rest : x <= y
  BY <1>3
<1>5. x \in 1..m /\ x - 1 \in 0..m /\ ~(x <= x - 1)
  OBVIOUS
<1>6. x - 1 \in T
  BY <1>4, <1>5
<1>. QED  BY <1>5, <1>6

(* A function may be defined by what it is at 0 and its step F.            *)
Recursion(g, m, e, F) == g[0] = e /\ \A i \in 1..m : g[i] = F[<<g[i - 1], i>>]

(* Such a function exists, whatever the step is.                           *)
LEMMA RecursionWorks ==
  ASSUME NEW m \in Nat, NEW S, NEW e \in S, NEW F \in [S \X (1..m) -> S]
  PROVE  \E g \in [0..m -> S] : Recursion(g, m, e, F)
<1>. DEFINE Rec(n, g) == Recursion(g, n, e, F)
            T == {n \in 0..m : \E g \in [0..n -> S] : Rec(n, g)}
<1>1. 0 \in T
  <2>. DEFINE h == [i \in 0..0 |-> e]
  <2>1. h \in [0..0 -> S] /\ h[0] = e
    OBVIOUS
  <2>2. 1..0 = {} /\ 0 \in 0..m
    OBVIOUS
  <2>. HIDE DEF h
  <2>. QED  BY <2>1, <2>2 DEF Recursion
<1>2. ASSUME NEW n \in 1..m, n - 1 \in T PROVE n \in T
  <2>1. PICK g \in [0..(n - 1) -> S] : Rec(n - 1, g)
    BY <1>2
  <2>. DEFINE h == [i \in 0..n |-> IF i = n THEN F[<<g[n - 1], n>>] ELSE g[i]]
  <2>2. n - 1 \in 0..(n - 1) /\ \A i \in 0..n : i # n => i \in 0..(n - 1)
    OBVIOUS
  <2>3. h \in [0..n -> S]
    BY <2>1, <2>2
  <2>4. \A i \in 0..(n - 1) : h[i] = g[i]
    OBVIOUS
  <2>5. h[n] = F[<<g[n - 1], n>>]
    OBVIOUS
  <2>6. h[0] = e
    BY <2>1, <2>4 DEF Recursion
  <2>7. ASSUME NEW i \in 1..n PROVE h[i] = F[<<h[i - 1], i>>]
    <3>. HIDE DEF h
    <3>1. h[i - 1] = g[i - 1]
      BY <2>4
    <3>2. CASE i = n
      BY <2>5, <3>1, <3>2
    <3>3. CASE i # n
      <4>1. i \in 1..(n - 1) /\ i \in 0..(n - 1)
        BY <3>3
      <4>. QED BY <2>1, <2>4, <3>1, <4>1 DEF Recursion
    <3>. QED  BY <3>2, <3>3
  <2>. HIDE DEF h
  <2>8. Rec(n, h)
    BY <2>6, <2>7 DEF Recursion
  <2>. QED  BY <2>3, <2>8
<1>. HIDE DEF T
<1>3. m \in 0..m /\ \A n \in 0..m : n \in T
  BY <1>1, <1>2, UpTo
<1>. QED  BY <1>3 DEF T

(* What the recursive function in Total is, step by step.                  *)
IsSum(g, f) == g[0] = 0 /\ \A i \in 1..Len(f) : g[i] = g[i - 1] + f[i]
SumOf(g, f) == IsSum(g, f) /\ Total(f) = g[Len(f)]

(* The sums of the first elements of a sequence end in its Total.          *)
LEMMA TotalSums ==
  ASSUME NEW f \in Seq(Nat)
  PROVE  \E g \in [0..Len(f) -> Nat] : SumOf(g, f)
<1>. DEFINE m == Len(f)
            Rec(g) == g = [i \in 0..m |-> IF i = 0 THEN 0 ELSE g[i - 1] + f[i]]
            t == CHOOSE g : Rec(g)
            F == [p \in Nat \X (1..m) |-> p[1] + f[p[2]]]
<1>1. m \in Nat /\ f \in [1..m -> Nat]
  OBVIOUS
<1>2. F \in [Nat \X (1..m) -> Nat]
  BY <1>1
<1>3. \E g \in [0..m -> Nat] : Recursion(g, m, 0, F)
  <2>. HIDE DEF F, m
  <2>. QED  BY <1>1, <1>2, RecursionWorks
<1>. PICK g \in [0..m -> Nat] : Recursion(g, m, 0, F)
  BY <1>3
<1>4. ASSUME NEW i \in 1..m PROVE i - 1 \in 0..m /\ g[i] = g[i - 1] + f[i]
  <2>1. i - 1 \in 0..m
    BY <1>1
  <2>2. g[i - 1] \in Nat /\ g[i] = F[<<g[i - 1], i>>]
    <3>. HIDE DEF F
    <3>. QED  BY <2>1 DEF Recursion
  <2>3. F[<<g[i - 1], i>>] = g[i - 1] + f[i]
    BY <2>2
  <2>. QED  BY <2>1, <2>2, <2>3
<1>5. g[0] = 0
  BY DEF Recursion
<1>. HIDE DEF F
<1>6. Rec(g)
  BY <1>1, <1>4, <1>5
<1>7. Rec(t)
  <2>. HIDE DEF Rec
  <2>. QED  BY <1>6
<1>8. Total(f) = t[m]
  BY DEF Total
<1>9. t \in [0..m -> Nat]
  <2>. DEFINE T == {n \in 0..m : t[n] = g[n]}
  <2>. HIDE DEF t
  <2>1. 0 \in T
    BY <1>1, <1>5, <1>7
  <2>2. \A n \in 1..m : n - 1 \in T => n \in T
    BY <1>1, <1>4, <1>7
  <2>3. \A n \in 0..m : n \in T
    <3>. HIDE DEF T
    <3>. QED  BY <1>1, <2>1, <2>2, UpTo
  <2>4. t = [i \in 0..m |-> t[i]]
    BY <1>7
  <2>. QED  BY <2>3, <2>4
<1>10. IsSum(t, f)
  <2>. HIDE DEF t
  <2>1. t[0] = 0
    BY <1>7
  <2>2. ASSUME NEW i \in 1..m PROVE t[i] = t[i - 1] + f[i]
    <3>1. i \in 0..m /\ i # 0
      BY <1>1
    <3>2. t[i] = (IF i = 0 THEN 0 ELSE t[i - 1] + f[i])
      BY Zenon, <1>7, <3>1
    <3>. QED  BY <3>1, <3>2
  <2>. QED  BY Zenon, <1>1, <2>1, <2>2 DEF IsSum
<1>. HIDE DEF t
<1>. QED  BY <1>8, <1>9, <1>10 DEF SumOf

(* A sum of naturals is a natural.                                         *)
LEMMA TotalNat ==
  ASSUME NEW f \in Seq(Nat)
  PROVE  Total(f) \in Nat
<1>. PICK g \in [0..Len(f) -> Nat] : SumOf(g, f)
  BY TotalSums
<1>. QED  BY DEF SumOf

(* The sum of nothing.                                                     *)
LEMMA TotalNone == Total(<<>>) = 0
<1>1. <<>> \in Seq(Nat) /\ Len(<<>>) = 0
  OBVIOUS
<1>2. PICK g \in [0..Len(<<>>) -> Nat] : SumOf(g, <<>>)
  BY <1>1, TotalSums
<1>. QED  BY <1>1, <1>2 DEF SumOf, IsSum

(* The sum of one number.                                                  *)
LEMMA TotalOne ==
  ASSUME NEW n \in Nat
  PROVE  Total(<<n>>) = n
<1>1. <<n>> \in Seq(Nat) /\ Len(<<n>>) = 1 /\ <<n>>[1] = n
  OBVIOUS
<1>2. PICK g \in [0..Len(<<n>>) -> Nat] : SumOf(g, <<n>>)
  BY <1>1, TotalSums
<1>. HIDE DEF SumOf
<1>3. g[1] = g[0] + n /\ g[0] = 0 /\ Total(<<n>>) = g[1]
  BY <1>1, <1>2 DEF SumOf, IsSum
<1>. QED  BY <1>3

(* The sum of two sequences, one after the other.                          *)
LEMMA TotalConcat ==
  ASSUME NEW f \in Seq(Nat), NEW h \in Seq(Nat)
  PROVE  Total(f \o h) = Total(f) + Total(h)
<1>. DEFINE c == f \o h  m == Len(f)  n == Len(h)
<1>1. /\ c \in Seq(Nat) /\ Len(c) = m + n /\ m \in Nat /\ n \in Nat
      /\ \A i \in 1..m : c[i] = f[i]
      /\ \A i \in 1..n : c[m + i] = h[i]
  OBVIOUS
<1>2. PICK a \in [0..m -> Nat] : SumOf(a, f)
  BY TotalSums
<1>3. PICK b \in [0..n -> Nat] : SumOf(b, h)
  BY TotalSums
<1>. HIDE DEF c
<1>4. PICK g \in [0..Len(c) -> Nat] : SumOf(g, c)
  BY <1>1, TotalSums
<1>. HIDE DEF m, n
<1>5. /\ a[0] = 0 /\ \A i \in 1..m : a[i] = a[i - 1] + f[i]
      /\ b[0] = 0 /\ \A i \in 1..n : b[i] = b[i - 1] + h[i]
      /\ g[0] = 0 /\ \A i \in 1..m + n : g[i] = g[i - 1] + c[i]
      /\ Total(f) = a[m] /\ Total(h) = b[n] /\ Total(c) = g[m + n]
  BY <1>1, <1>2, <1>3, <1>4 DEF SumOf, IsSum, m, n
<1>6. \A i \in 0..m : g[i] = a[i]
  <2>. DEFINE T == {i \in 0..m : g[i] = a[i]}
  <2>1. 0 \in T
    BY <1>1, <1>5
  <2>2. \A i \in 1..m : i - 1 \in T => i \in T
    BY <1>1, <1>5
  <2>3. \A i \in 0..m : i \in T
    <3>. HIDE DEF T
    <3>. QED  BY <1>1, <2>1, <2>2, UpTo
  <2>. QED  BY <2>3
<1>7. \A i \in 0..n : g[m + i] = a[m] + b[i]
  <2>. DEFINE T == {i \in 0..n : g[m + i] = a[m] + b[i]}
  <2>1. 0 \in T
    <3>1. m \in 0..m /\ 0 \in 0..n /\ m + 0 = m
      BY <1>1
    <3>2. a[m] \in Nat /\ g[m] = a[m]
      BY <1>6, <3>1
    <3>. QED  BY <1>5, <3>1, <3>2
  <2>2. ASSUME NEW i \in 1..n, i - 1 \in T PROVE i \in T
    <3>1. /\ g[m + (i - 1)] = a[m] + b[i - 1] /\ m + i \in 1..m + n
          /\ (m + i) - 1 = m + (i - 1) /\ i \in 0..n /\ i - 1 \in 0..n
      BY <1>1, <2>2
    <3>2. g[m + i] = g[m + (i - 1)] + h[i]
      BY <1>1, <1>5, <3>1
    <3>3. b[i] = b[i - 1] + h[i] /\ h[i] \in Nat /\ b[i - 1] \in Nat /\ a[m] \in Nat
      <4>1. m \in 0..m
        BY <1>1
      <4>2. h \in [1..n -> Nat]
        BY Zenon, LenProperties DEF n
      <4>. QED  BY <1>5, <3>1, <4>1, <4>2
    <3>. QED  BY <3>1, <3>2, <3>3
  <2>3. \A i \in 0..n : i \in T
    <3>. HIDE DEF T
    <3>. QED  BY <1>1, <2>1, <2>2, UpTo
  <2>. QED  BY <2>3
<1>8. g[m + n] = a[m] + b[n]
  BY <1>1, <1>7
<1>. QED  BY <1>5, <1>8 DEF c

(* Two sequences that differ in one place differ by that in sum.           *)
LEMMA TotalUpdate ==
  ASSUME NEW f \in Seq(Nat), NEW h \in Seq(Nat), Len(h) = Len(f), NEW k \in 1..Len(f),
         \A i \in 1..Len(f) : i # k => h[i] = f[i]
  PROVE  Total(h) + f[k] = Total(f) + h[k]
<1>. DEFINE m == Len(f)
<1>1. m \in Nat /\ m = Len(h) /\ f \in [1..m -> Nat] /\ h \in [1..m -> Nat]
  OBVIOUS
<1>2. PICK a \in [0..m -> Nat] : SumOf(a, f)
  BY TotalSums
<1>3. PICK b \in [0..Len(h) -> Nat] : SumOf(b, h)
  BY TotalSums
<1>4. /\ a[0] = 0 /\ \A i \in 1..m : a[i] = a[i - 1] + f[i]
      /\ b[0] = 0 /\ \A i \in 1..m : b[i] = b[i - 1] + h[i]
      /\ Total(f) = a[m] /\ Total(h) = b[m] /\ b \in [0..m -> Nat]
  BY <1>1, <1>2, <1>3 DEF SumOf, IsSum
<1>. HIDE DEF m
<1>. DEFINE T == {i \in 0..m : IF i < k THEN b[i] = a[i] ELSE b[i] + f[k] = a[i] + h[k]}
<1>5. k \in 1..m
  BY DEF m
<1>6. 0 \in T
  BY <1>1, <1>4, <1>5
<1>7. ASSUME NEW i \in 1..m, i - 1 \in T PROVE i \in T
  <2>0. i \in 0..m /\ i - 1 \in 0..m
    BY <1>1
  <2>1. /\ i \in 0..m /\ i - 1 \in 0..m
        /\ a[i] = a[i - 1] + f[i] /\ b[i] = b[i - 1] + h[i]
        /\ a[i - 1] \in Nat /\ b[i - 1] \in Nat
        /\ f[i] \in Nat /\ h[i] \in Nat /\ f[k] \in Nat /\ h[k] \in Nat
    BY <2>0, <1>1, <1>4, <1>5
  <2>2. i # k => h[i] = f[i]
    BY DEF m
  <2>3. IF i - 1 < k THEN b[i - 1] = a[i - 1] ELSE b[i - 1] + f[k] = a[i - 1] + h[k]
    BY <1>7
  <2>4. i \in Int /\ k \in Int
    BY <1>1, <1>5
  <2>5. IF i < k THEN b[i] = a[i] ELSE b[i] + f[k] = a[i] + h[k]
    <3>1. CASE i < k
      BY <2>1, <2>2, <2>3, <2>4, <3>1
    <3>2. CASE i = k
      BY <2>1, <2>3, <2>4, <3>2
    <3>3. CASE i > k
      <4>1. ~(i - 1 < k) /\ i # k /\ ~(i < k)
        BY <2>4, <3>3
      <4>2. b[i - 1] + f[k] = a[i - 1] + h[k] /\ h[i] = f[i]
        BY <2>2, <2>3, <4>1
      <4>3. b[i] + f[k] = a[i] + h[k]
        <5>. DEFINE p == b[i - 1]  q == f[k]  r == a[i - 1]  u == h[k]  v == f[i]
        <5>1. /\ p \in Nat /\ q \in Nat /\ r \in Nat /\ u \in Nat /\ v \in Nat
              /\ p + q = r + u /\ b[i] = p + v /\ a[i] = r + v
          BY <2>1, <4>2
        <5>. HIDE DEF p, q, r, u, v
        <5>2. (p + v) + q = (r + v) + u
          BY <5>1
        <5>. QED  BY <5>1, <5>2 DEF q, u
      <4>. QED  BY <4>1, <4>3
    <3>. QED  BY <2>4, <3>1, <3>2, <3>3
  <2>. QED  BY <2>1, <2>5
<1>8. \A i \in 0..m : i \in T
  <2>. HIDE DEF T
  <2>. QED  BY <1>1, <1>6, <1>7, UpTo
<1>9. m \in T /\ ~(m < k)
  BY <1>1, <1>5, <1>8
<1>. QED  BY <1>4, <1>9

(* A sequence nowhere above another has no larger sum.                     *)
LEMMA TotalLeq ==
  ASSUME NEW f \in Seq(Nat), NEW h \in Seq(Nat), Len(h) = Len(f),
         \A i \in 1..Len(f) : f[i] <= h[i]
  PROVE  Total(f) <= Total(h)
<1>. DEFINE m == Len(f)
<1>1. m \in Nat /\ m = Len(h) /\ f \in [1..m -> Nat] /\ h \in [1..m -> Nat]
  OBVIOUS
<1>2. PICK a \in [0..m -> Nat] : SumOf(a, f)
  BY TotalSums
<1>3. PICK b \in [0..Len(h) -> Nat] : SumOf(b, h)
  BY TotalSums
<1>4. /\ a[0] = 0 /\ \A i \in 1..m : a[i] = a[i - 1] + f[i]
      /\ b[0] = 0 /\ \A i \in 1..m : b[i] = b[i - 1] + h[i]
      /\ Total(f) = a[m] /\ Total(h) = b[m] /\ b \in [0..m -> Nat]
  BY <1>1, <1>2, <1>3 DEF SumOf, IsSum
<1>5. \A i \in 1..m : f[i] <= h[i]
  OBVIOUS
<1>. HIDE DEF m
<1>. DEFINE T == {i \in 0..m : a[i] <= b[i]}
<1>6. 0 \in T
  BY <1>1, <1>4
<1>7. ASSUME NEW i \in 1..m, i - 1 \in T PROVE i \in T
  <2>0. i \in 0..m /\ i - 1 \in 0..m
    BY <1>1
  <2>1. /\ a[i] = a[i - 1] + f[i] /\ b[i] = b[i - 1] + h[i]
        /\ a[i - 1] \in Nat /\ b[i - 1] \in Nat /\ f[i] \in Nat /\ h[i] \in Nat
        /\ f[i] <= h[i] /\ a[i - 1] <= b[i - 1]
    BY <2>0, <1>1, <1>4, <1>5, <1>7
  <2>2. a[i] <= b[i]
    <3>. DEFINE y == a[i]  p == a[i - 1]  z == b[i]  q == b[i - 1]  u == f[i]  v == h[i]
    <3>1. /\ y = p + u /\ z = q + v /\ p \in Nat /\ q \in Nat /\ u \in Nat /\ v \in Nat
          /\ u <= v /\ p <= q
      BY <2>1
    <3>. HIDE DEF y, p, z, q, u, v
    <3>2. y <= z
      BY <3>1
    <3>. QED  BY <3>2 DEF y, z
  <2>. QED  BY <2>0, <2>2
<1>8. \A i \in 0..m : i \in T
  <2>. HIDE DEF T
  <2>. QED  BY <1>1, <1>6, <1>7, UpTo
<1>. QED  BY <1>1, <1>4, <1>8

(* With no element above c, and one of them 0, the sum leaves room for c.  *)
LEMMA TotalBound ==
  ASSUME NEW f \in Seq(Nat), NEW c \in Nat, NEW k \in 1..Len(f), f[k] = 0,
         \A i \in 1..Len(f) : f[i] <= c
  PROVE  Total(f) + c <= Len(f) * c
<1>. DEFINE m == Len(f)
<1>1. m \in Nat /\ f \in [1..m -> Nat] /\ k \in 1..m /\ \A i \in 1..m : f[i] <= c
  OBVIOUS
<1>2. PICK a \in [0..m -> Nat] : SumOf(a, f)
  BY TotalSums
<1>3. a[0] = 0 /\ (\A i \in 1..m : a[i] = a[i - 1] + f[i]) /\ Total(f) = a[m]
  BY <1>2 DEF SumOf, IsSum
<1>. HIDE DEF m
<1>. DEFINE T == {i \in 0..m : IF i < k THEN a[i] <= i * c ELSE a[i] + c <= i * c}
<1>4. 0 \in T
  BY <1>1, <1>3
<1>5. ASSUME NEW i \in 1..m, i - 1 \in T PROVE i \in T
  <2>. DEFINE p == (i - 1) * c
  <2>1. i * c = p + c /\ p \in Nat /\ i * c \in Nat
    OBVIOUS
  <2>2. /\ i \in 0..m /\ i - 1 \in 0..m /\ a[i] = a[i - 1] + f[i]
        /\ a[i - 1] \in Nat /\ f[i] \in Nat /\ f[i] <= c
    <3>1. i \in 0..m /\ i - 1 \in 0..m
      BY <1>1
    <3>. QED  BY <3>1, <1>1, <1>3
  <2>3. IF i - 1 < k THEN a[i - 1] <= p ELSE a[i - 1] + c <= p
    BY <1>5
  <2>4. i = k => f[i] = 0
    OBVIOUS
  <2>. HIDE DEF p
  <2>5. IF i < k THEN a[i] <= p + c ELSE a[i] + c <= p + c
    <3>0. i \in Int /\ k \in Int
      BY <1>1
    <3>1. CASE i < k
      BY <3>0, <2>1, <2>2, <2>3, <3>1
    <3>2. CASE i = k
      BY <3>0, <2>1, <2>2, <2>3, <2>4, <3>2
    <3>3. CASE i > k
      <4>1. ~(i - 1 < k) /\ ~(i < k)
        BY <3>0, <3>3
      <4>2. a[i - 1] + c <= p
        BY <2>3, <4>1
      <4>. DEFINE x == a[i - 1]  y == f[i]
      <4>3. x \in Nat /\ y \in Nat /\ y <= c /\ x + c <= p /\ p \in Nat /\ a[i] = x + y
        BY <2>1, <2>2, <4>2
      <4>. HIDE DEF x, y
      <4>4. (x + y) + c <= p + c
        BY <4>3
      <4>. QED  BY <4>1, <4>3, <4>4
    <3>. QED  BY <3>0, <3>1, <3>2, <3>3
  <2>. QED  BY <2>1, <2>2, <2>5
<1>6. \A i \in 0..m : i \in T
  <2>. HIDE DEF T
  <2>. QED  BY <1>1, <1>4, <1>5, UpTo
<1>7. m \in T /\ ~(m < k)
  BY <1>1, <1>6
<1>. QED  BY <1>3, <1>7 DEF m

--------------------------------------------------------------------------------
(* What the constants give.                                                *)
LEMMA Constants ==
  /\ MaxSegs \in Segs /\ MaxSegs \in Nat \ {0} /\ Segs \subseteq Nat \ {0} /\ Direct \in Segs
  /\ \A k \in Segs : k <= MaxSegs /\ Direct <= k
  /\ \A h \in Hosts : h.segs \in Segs /\ h.persistent \in BOOLEAN
  /\ RingSize \in Nat \ {0}
  /\ \A b \in Bios : b # "none" /\ b # "bounce" /\ b # "frame"
<1>1. \E n \in Segs : \A k \in Segs : k <= n
  BY BlkAssumption
<1>2. MaxSegs \in Segs /\ \A k \in Segs : k <= MaxSegs
  <2>. HIDE DEF Segs
  <2>. QED  BY <1>1 DEF MaxSegs
<1>3. Segs \subseteq Nat \ {0} /\ Direct \in Segs
  BY BlkAssumption DEF Segs
<1>4. \A h \in Hosts : h.segs \in Segs /\ h.persistent \in BOOLEAN
  BY BlkAssumption DEF Segs
<1>5. \A b \in Bios : b # "none" /\ b # "bounce" /\ b # "frame"
  BY BlkAssumption
<1>6. RingSize \in Nat \ {0}
  BY BlkAssumption
<1>7. \A k \in Segs : Direct <= k
  BY BlkAssumption DEF Segs
<1>. QED  BY <1>2, <1>3, <1>4, <1>5, <1>6, <1>7

(* A request needs its pages and a frame at most; the more pages, the more *)
(* it needs.                                                               *)
LEMMA Needs ==
  /\ \A n \in Nat : Need(n) \in Nat /\ n <= Need(n) /\ Need(n) <= n + 1
  /\ \A n, k \in Nat : n <= k => Need(n) <= Need(k)
  /\ Need(0) = 0
<1>1. Direct \in Nat \ {0}
  BY BlkAssumption
<1>. QED  BY <1>1 DEF Need, Frames

(* A sequence of requests, weighed by what each counts for.                *)
Reqs == Requests \cup {NoRequest}
Weigh(s, w) == Total([i \in 1..Len(s) |-> w[s[i]]])
PageW(b) == [r \in Reqs |-> IF r.bio = b THEN r.n ELSE 0]
PieceW(b) == [r \in Reqs |-> IF r.bio = b THEN 1 ELSE 0]

(* A request weighs its pages, or one, for its bio; none weighs nothing.   *)
LEMMA Weights ==
  ASSUME NEW b \in Bios
  PROVE  /\ PageW(b) \in [Reqs -> Nat] /\ PieceW(b) \in [Reqs -> Nat]
         /\ \A r \in Reqs : PieceW(b)[r] <= PageW(b)[r]
         /\ PageW(b)[NoRequest] = 0 /\ PieceW(b)[NoRequest] = 0
<1>1. \A r \in Requests : r.n \in Nat \ {0}
  BY Constants DEF Requests
<1>2. NoRequest.n = 0 /\ NoRequest.bio # b
  BY Constants DEF NoRequest
<1>3. \A r \in Reqs : r.n \in Nat /\ (r.bio = b => r.n # 0)
  BY <1>1, <1>2 DEF Reqs
<1>4. NoRequest \in Reqs
  BY DEF Reqs
<1>. HIDE DEF Reqs
<1>. QED  BY <1>2, <1>3, <1>4 DEF PageW, PieceW

(* PagesOf and PiecesOf are such weights.                                  *)
LEMMA PagesWeighed ==
  ASSUME NEW b \in Bios, NEW s \in Seq(Reqs)
  PROVE  PagesOf(b, s) = Weigh(s, PageW(b)) /\ PiecesOf(b, s) = Weigh(s, PieceW(b))
<1>1. \A i \in 1..Len(s) : s[i] \in Reqs
  OBVIOUS
<1>. HIDE DEF Reqs
<1>2. [i \in 1..Len(s) |-> IF s[i].bio = b THEN s[i].n ELSE 0]
        = [i \in 1..Len(s) |-> PageW(b)[s[i]]]
  BY <1>1 DEF PageW
<1>3. [i \in 1..Len(s) |-> IF s[i].bio = b THEN 1 ELSE 0]
        = [i \in 1..Len(s) |-> PieceW(b)[s[i]]]
  BY <1>1 DEF PieceW
<1>. QED  BY <1>2, <1>3 DEF PagesOf, PiecesOf, Weigh

(* The weights of a sequence are naturals, and so is their sum.            *)
LEMMA WeighTyped ==
  ASSUME NEW R, NEW s \in Seq(R), NEW w \in [R -> Nat]
  PROVE  /\ [i \in 1..Len(s) |-> w[s[i]]] \in Seq(Nat)
         /\ Len([i \in 1..Len(s) |-> w[s[i]]]) = Len(s)
         /\ \A i \in 1..Len(s) : [j \in 1..Len(s) |-> w[s[j]]][i] = w[s[i]]
         /\ Weigh(s, w) \in Nat
<1>1. \A i \in 1..Len(s) : s[i] \in R
  OBVIOUS
<1>2. /\ [i \in 1..Len(s) |-> w[s[i]]] \in Seq(Nat)
      /\ Len([i \in 1..Len(s) |-> w[s[i]]]) = Len(s)
  BY <1>1
<1>. QED  BY <1>2, TotalNat DEF Weigh

(* Two sequences, one after the other, weigh what both do.                 *)
LEMMA WeighConcat ==
  ASSUME NEW R, NEW s \in Seq(R), NEW t \in Seq(R), NEW w \in [R -> Nat]
  PROVE  Weigh(s \o t, w) = Weigh(s, w) + Weigh(t, w)
<1>. DEFINE f == [i \in 1..Len(s) |-> w[s[i]]]
            h == [i \in 1..Len(t) |-> w[t[i]]]
            c == [i \in 1..Len(s \o t) |-> w[(s \o t)[i]]]
<1>1. f \in Seq(Nat) /\ h \in Seq(Nat) /\ Len(f) = Len(s) /\ Len(h) = Len(t)
  BY WeighTyped
<1>2. s \o t \in Seq(R) /\ Len(s \o t) = Len(s) + Len(t)
  OBVIOUS
<1>3. c \in Seq(Nat) /\ Len(c) = Len(s) + Len(t)
  <2>1. c \in Seq(Nat) /\ Len(c) = Len(s \o t)
    BY <1>2, WeighTyped
  <2>. QED  BY <1>2, <2>1
<1>4. f \o h \in Seq(Nat) /\ Len(f \o h) = Len(s) + Len(t)
  <2>. HIDE DEF f, h
  <2>. QED  BY <1>1
<1>5. \A i \in 1..Len(s) + Len(t) : c[i] = (f \o h)[i]
  <2>1. \A i \in 1..Len(s) : f[i] = w[s[i]]
    OBVIOUS
  <2>2. \A i \in 1..Len(t) : h[i] = w[t[i]]
    OBVIOUS
  <2>3. \A i \in 1..Len(s) + Len(t) : c[i] = w[(s \o t)[i]]
    BY <1>2
  <2>. HIDE DEF f, h, c
  <2>4. \A i \in 1..Len(s) + Len(t) :
          (f \o h)[i] = IF i <= Len(s) THEN f[i] ELSE h[i - Len(s)]
    BY <1>1
  <2>5. \A i \in 1..Len(s) + Len(t) :
          (s \o t)[i] = IF i <= Len(s) THEN s[i] ELSE t[i - Len(s)]
    OBVIOUS
  <2>6. ASSUME NEW i \in 1..Len(s) + Len(t) PROVE c[i] = (f \o h)[i]
    <3>1. CASE i <= Len(s)
      <4>1. i \in 1..Len(s)
        BY <3>1
      <4>2. i \in 1..Len(s) + Len(t)
        OBVIOUS
      <4>3. (f \o h)[i] = f[i] /\ (s \o t)[i] = s[i]
        BY Zenon, <3>1, <4>2, <2>4, <2>5
      <4>. QED  BY Zenon, <4>1, <4>2, <4>3, <2>1, <2>3
    <3>2. CASE ~(i <= Len(s))
      <4>1. i - Len(s) \in 1..Len(t)
        BY <3>2
      <4>. QED  BY <3>2, <4>1, <2>2, <2>3, <2>4, <2>5
    <3>. QED  BY <3>1, <3>2
  <2>. QED  BY <2>6
<1>6. c = f \o h
  <2>. HIDE DEF c, f, h
  <2>1. Len(c) = Len(f \o h) /\ \A i \in 1..Len(c) : c[i] = (f \o h)[i]
    BY <1>3, <1>4, <1>5
  <2>. QED  BY <1>3, <1>4, <2>1, SeqEqual
<1>7. Total(f \o h) = Total(f) + Total(h)
  <2>. HIDE DEF f, h
  <2>. QED  BY <1>1, TotalConcat
<1>. QED  BY <1>6, <1>7 DEF Weigh

(* The weight of nothing, and of one request.                              *)
LEMMA WeighSmall ==
  ASSUME NEW R, NEW r \in R, NEW w \in [R -> Nat]
  PROVE  Weigh(<<>>, w) = 0 /\ Weigh(<<r>>, w) = w[r]
<1>1. [i \in 1..Len(<<>>) |-> w[<<>>[i]]] = <<>>
  OBVIOUS
<1>2. [i \in 1..Len(<<r>>) |-> w[<<r>>[i]]] = <<w[r]>>
  OBVIOUS
<1>. QED  BY <1>1, <1>2, TotalNone, TotalOne DEF Weigh

(* A sequence weighs what its head and its tail do.                        *)
LEMMA WeighTail ==
  ASSUME NEW R, NEW s \in Seq(R), s # <<>>, NEW w \in [R -> Nat]
  PROVE  Weigh(s, w) = w[Head(s)] + Weigh(Tail(s), w)
<1>1. s = <<Head(s)>> \o Tail(s) /\ Head(s) \in R /\ Tail(s) \in Seq(R) /\ <<Head(s)>> \in Seq(R)
  OBVIOUS
<1>2. Weigh(<<Head(s)>> \o Tail(s), w) = Weigh(<<Head(s)>>, w) + Weigh(Tail(s), w)
  BY <1>1, WeighConcat
<1>3. Weigh(<<Head(s)>>, w) = w[Head(s)]
  BY <1>1, WeighSmall
<1>. QED  BY <1>1, <1>2, <1>3

(* A request at the end adds its weight.                                   *)
LEMMA WeighAppend ==
  ASSUME NEW R, NEW s \in Seq(R), NEW r \in R, NEW w \in [R -> Nat]
  PROVE  Weigh(Append(s, r), w) = Weigh(s, w) + w[r]
<1>1. Append(s, r) = s \o <<r>> /\ <<r>> \in Seq(R)
  OBVIOUS
<1>2. Weigh(s \o <<r>>, w) = Weigh(s, w) + Weigh(<<r>>, w)
  BY <1>1, WeighConcat
<1>3. Weigh(<<r>>, w) = w[r]
  BY WeighSmall
<1>. QED  BY <1>1, <1>2, <1>3

--------------------------------------------------------------------------------
(* Sums over the shadows.                                                  *)
LEMMA Indices ==
  /\ \A i \in 1..RingSize : i - 1 \in Ids
  /\ \A id \in Ids : id + 1 \in 1..RingSize /\ (id + 1) - 1 = id
  /\ IsFiniteSet(Ids) /\ Cardinality(Ids) = RingSize
<1>1. RingSize \in Nat
  BY Constants
<1>2. IsFiniteSet(Ids) /\ Cardinality(Ids) = RingSize
  <2>1. IsFiniteSet(0..RingSize - 1)
        /\ Cardinality(0..RingSize - 1) =
             IF 0 > RingSize - 1 THEN 0 ELSE (RingSize - 1) - 0 + 1
    BY <1>1, FS_Interval
  <2>. QED  BY <1>1, <2>1, Constants DEF Ids
<1>. QED  BY <1>1, <1>2 DEF Ids

(* The requests of the shadows, as a sequence.                             *)
LEMMA ShadowedTyped ==
  ASSUME NEW sh \in [Ids -> Shadows]
  PROVE  /\ Shadowed(sh) \in Seq(Reqs) /\ Len(Shadowed(sh)) = RingSize
         /\ \A i \in 1..RingSize : Shadowed(sh)[i] = sh[i - 1].req
<1>1. \A i \in 1..RingSize : sh[i - 1].req \in Reqs
  BY Indices DEF Shadows, Reqs
<1>2. RingSize \in Nat
  BY Constants
<1>. HIDE DEF Reqs
<1>. QED  BY <1>1, <1>2 DEF Shadowed

(* Shadows that differ in one id differ by that in weight.                 *)
LEMMA WeighShadow ==
  ASSUME NEW sh \in [Ids -> Shadows], NEW sh2 \in [Ids -> Shadows], NEW id \in Ids,
         \A other \in Ids \ {id} : sh2[other].req = sh[other].req,
         NEW w \in [Reqs -> Nat]
  PROVE  Weigh(Shadowed(sh2), w) + w[sh[id].req] = Weigh(Shadowed(sh), w) + w[sh2[id].req]
<1>. DEFINE s == Shadowed(sh)  t == Shadowed(sh2)
            f == [i \in 1..Len(s) |-> w[s[i]]]
            h == [i \in 1..Len(t) |-> w[t[i]]]
<1>1. /\ s \in Seq(Reqs) /\ Len(s) = RingSize /\ t \in Seq(Reqs) /\ Len(t) = RingSize
      /\ \A i \in 1..RingSize : s[i] = sh[i - 1].req /\ t[i] = sh2[i - 1].req
  BY ShadowedTyped
<1>. HIDE DEF s, t
<1>2. /\ f \in Seq(Nat) /\ Len(f) = RingSize /\ h \in Seq(Nat) /\ Len(h) = RingSize
      /\ \A i \in 1..RingSize : f[i] = w[s[i]] /\ h[i] = w[t[i]]
  <2>1. f \in Seq(Nat) /\ Len(f) = Len(s) /\ \A i \in 1..Len(s) : f[i] = w[s[i]]
    BY <1>1, WeighTyped
  <2>2. h \in Seq(Nat) /\ Len(h) = Len(t) /\ \A i \in 1..Len(t) : h[i] = w[t[i]]
    BY <1>1, WeighTyped
  <2>. HIDE DEF f, h
  <2>. QED  BY <1>1, <2>1, <2>2
<1>3. Total(f) = Weigh(s, w) /\ Total(h) = Weigh(t, w)
  BY DEF Weigh
<1>. HIDE DEF f, h
<1>4. id + 1 \in 1..Len(f) /\ (id + 1) - 1 = id
  BY <1>2, Indices
<1>5. \A i \in 1..Len(f) : i # id + 1 => h[i] = f[i]
  <2>1. ASSUME NEW i \in 1..Len(f), i # id + 1 PROVE h[i] = f[i]
    <3>1. i \in 1..RingSize /\ i - 1 \in Ids
      BY <1>2, Indices
    <3>2. i - 1 # id
      BY <2>1 DEF Ids
    <3>3. sh2[i - 1].req = sh[i - 1].req
      BY <3>1, <3>2
    <3>4. t[i] = s[i]
      BY <1>1, <3>1, <3>3
    <3>. QED  BY <1>2, <3>1, <3>4
  <2>. QED  BY <2>1
<1>6. Total(h) + f[id + 1] = Total(f) + h[id + 1]
  <2>. DEFINE k == id + 1
  <2>1. /\ f \in Seq(Nat) /\ h \in Seq(Nat) /\ Len(h) = Len(f) /\ k \in 1..Len(f)
        /\ \A i \in 1..Len(f) : i # k => h[i] = f[i]
    BY <1>2, <1>4, <1>5
  <2>. HIDE DEF k
  <2>2. Total(h) + f[k] = Total(f) + h[k]
    BY Zenon, <2>1, TotalUpdate
  <2>. QED  BY <2>2 DEF k
<1>7. f[id + 1] = w[sh[id].req] /\ h[id + 1] = w[sh2[id].req]
  BY <1>1, <1>2, <1>4
<1>. QED  BY <1>3, <1>6, <1>7 DEF s, t

(* The grants of all the requests in flight are a sum of naturals.         *)
LEMMA UsedTyped ==
  ASSUME NEW sh \in [Ids -> Shadows]
  PROVE  LET f == [i \in 1..RingSize |-> Len(sh[i - 1].used)]
         IN  /\ f \in Seq(Nat) /\ Len(f) = RingSize /\ UsedTotal(sh) = Total(f)
             /\ \A i \in 1..RingSize : f[i] = Len(sh[i - 1].used)
             /\ UsedTotal(sh) \in Nat
<1>1. \A i \in 1..RingSize : Len(sh[i - 1].used) \in Nat
  BY Indices DEF Shadows
<1>2. RingSize \in Nat
  BY Constants
<1>. DEFINE f == [i \in 1..RingSize |-> Len(sh[i - 1].used)]
<1>3. f \in Seq(Nat) /\ Len(f) = RingSize
  BY <1>1, <1>2
<1>4. Total(f) \in Nat
  <2>. HIDE DEF f
  <2>. QED  BY <1>3, TotalNat
<1>. QED  BY <1>3, <1>4 DEF UsedTotal

(* Shadows that differ in one id differ by its grants.                     *)
LEMMA UsedUpdate ==
  ASSUME NEW sh \in [Ids -> Shadows], NEW sh2 \in [Ids -> Shadows], NEW id \in Ids,
         \A other \in Ids \ {id} : sh2[other].used = sh[other].used
  PROVE  UsedTotal(sh2) + Len(sh[id].used) = UsedTotal(sh) + Len(sh2[id].used)
<1>. DEFINE f == [i \in 1..RingSize |-> Len(sh[i - 1].used)]
            h == [i \in 1..RingSize |-> Len(sh2[i - 1].used)]
<1>1. /\ f \in Seq(Nat) /\ Len(f) = RingSize /\ UsedTotal(sh) = Total(f)
      /\ \A i \in 1..RingSize : f[i] = Len(sh[i - 1].used)
  BY UsedTyped
<1>2. /\ h \in Seq(Nat) /\ Len(h) = RingSize /\ UsedTotal(sh2) = Total(h)
      /\ \A i \in 1..RingSize : h[i] = Len(sh2[i - 1].used)
  BY UsedTyped
<1>. HIDE DEF f, h
<1>3. id + 1 \in 1..Len(f) /\ (id + 1) - 1 = id
  BY <1>1, Indices
<1>4. \A i \in 1..Len(f) : i # id + 1 => h[i] = f[i]
  <2>1. ASSUME NEW i \in 1..Len(f), i # id + 1 PROVE h[i] = f[i]
    <3>1. i \in 1..RingSize /\ i - 1 \in Ids
      BY <1>1, Indices
    <3>2. i - 1 # id
      BY <2>1 DEF Ids
    <3>3. sh2[i - 1].used = sh[i - 1].used
      BY <3>1, <3>2
    <3>4. h[i] = Len(sh2[i - 1].used) /\ f[i] = Len(sh[i - 1].used)
      BY <1>1, <1>2, <3>1
    <3>. QED  BY <3>3, <3>4
  <2>. QED  BY <2>1
<1>5. Total(h) + f[id + 1] = Total(f) + h[id + 1]
  BY <1>1, <1>2, <1>3, <1>4, TotalUpdate
<1>6. f[id + 1] = Len(sh[id].used) /\ h[id + 1] = Len(sh2[id].used)
  BY <1>1, <1>2, <1>3
<1>. QED  BY <1>1, <1>2, <1>5, <1>6

(* As long as an id is free, the others leave the grants of a request.     *)
LEMMA UsedBound ==
  ASSUME NEW sh \in [Ids -> Shadows], NEW id \in Ids, sh[id].used = <<>>, NEW c \in Nat,
         \A other \in Ids : Len(sh[other].used) <= c
  PROVE  UsedTotal(sh) + c <= RingSize * c
<1>. DEFINE f == [i \in 1..RingSize |-> Len(sh[i - 1].used)]
<1>1. /\ f \in Seq(Nat) /\ Len(f) = RingSize /\ UsedTotal(sh) = Total(f)
      /\ \A i \in 1..RingSize : f[i] = Len(sh[i - 1].used)
  BY UsedTyped
<1>. HIDE DEF f
<1>2. id + 1 \in 1..Len(f) /\ f[id + 1] = 0
  BY <1>1, Indices
<1>3. \A i \in 1..Len(f) : f[i] <= c
  <2>1. ASSUME NEW i \in 1..Len(f) PROVE f[i] <= c
    <3>1. i \in 1..RingSize /\ i - 1 \in Ids
      BY <1>1, Indices
    <3>2. f[i] = Len(sh[i - 1].used) /\ Len(sh[i - 1].used) <= c
      BY <1>1, <3>1
    <3>. QED  BY <3>2
  <2>. QED  BY <2>1
<1>4. Total(f) + c <= Len(f) * c
  BY <1>1, <1>2, <1>3, TotalBound
<1>. QED  BY <1>1, <1>4

(* Shadows that are all idle have no grants and weigh nothing.             *)
LEMMA AllIdleSums ==
  ASSUME NEW w \in [Reqs -> Nat], w[NoRequest] = 0
  PROVE  LET sh == [id \in Ids |-> Idle]
         IN  /\ sh \in [Ids -> Shadows] /\ UsedTotal(sh) = 0 /\ Weigh(Shadowed(sh), w) = 0
<1>. DEFINE sh == [id \in Ids |-> Idle]  s == Shadowed(sh)
            f == [i \in 1..Len(s) |-> w[s[i]]]
<1>1. sh \in [Ids -> Shadows] /\ \A id \in Ids : sh[id].used = <<>> /\ sh[id].req = NoRequest
  BY DEF Shadows, Idle
<1>. HIDE DEF sh
<1>2. RingSize \in Nat \ {0} /\ 0 \in Ids /\ RingSize * 0 = 0
  BY Constants DEF Ids
<1>3. UsedTotal(sh) = 0
  <2>1. UsedTotal(sh) + 0 <= RingSize * 0
    BY <1>1, <1>2, UsedBound
  <2>2. UsedTotal(sh) \in Nat
    BY <1>1, UsedTyped
  <2>. QED  BY <1>2, <2>1, <2>2
<1>4. s \in Seq(Reqs) /\ Len(s) = RingSize /\ \A i \in 1..RingSize : s[i] = NoRequest
  BY <1>1, ShadowedTyped, Indices
<1>. HIDE DEF s
<1>5. f \in Seq(Nat) /\ Len(f) = RingSize /\ \A i \in 1..RingSize : f[i] = 0
  <2>1. f \in Seq(Nat) /\ Len(f) = Len(s) /\ \A i \in 1..Len(s) : f[i] = w[s[i]]
    BY <1>4, WeighTyped
  <2>. HIDE DEF f
  <2>. QED  BY <1>4, <2>1
<1>6. Total(f) = Weigh(s, w)
  BY DEF Weigh
<1>. HIDE DEF f
<1>7. Total(f) + 0 <= Len(f) * 0
  <2>1. 1 \in 1..Len(f) /\ f[1] = 0 /\ \A i \in 1..Len(f) : f[i] <= 0
    BY <1>2, <1>5
  <2>. QED  BY <1>5, <2>1, TotalBound
<1>8. Total(f) \in Nat
  BY <1>5, TotalNat
<1>9. Weigh(s, w) = 0
  BY <1>2, <1>5, <1>6, <1>7, <1>8
<1>. QED  BY <1>1, <1>3, <1>9 DEF sh, s

--------------------------------------------------------------------------------
(* Sequences without repetition, and the references of a list of grants.   *)
LEMMA TakeFirst ==
  ASSUME NEW R, NEW s \in Seq(R), s # <<>>
  PROVE  /\ Head(s) = s[1] /\ 1 \in 1..Len(s) /\ Tail(s) \in Seq(R) /\ Head(s) \in R
         /\ Len(Tail(s)) = Len(s) - 1 /\ Len(s) \in Nat \ {0}
         /\ \A i \in 1..Len(Tail(s)) : i + 1 \in 1..Len(s) /\ Tail(s)[i] = s[i + 1]
         /\ \A i \in 1..Len(s) : i # 1 => i - 1 \in 1..Len(Tail(s)) /\ Tail(s)[i - 1] = s[i]
  OBVIOUS

(* The elements of a sequence with one put last.                           *)
LEMMA PutLast ==
  ASSUME NEW R, NEW s \in Seq(R), NEW x \in R
  PROVE  LET a == Append(s, x)
         IN  /\ a \in Seq(R) /\ Len(a) = Len(s) + 1 /\ a[Len(s) + 1] = x
             /\ Len(s) + 1 \in 1..Len(a) /\ Len(s) \in Nat
             /\ \A i \in 1..Len(s) : i \in 1..Len(a) /\ a[i] = s[i]
             /\ \A i \in 1..Len(a) : i # Len(s) + 1 => i \in 1..Len(s)
  OBVIOUS

(* The elements of a sequence with one put in at k.                        *)
Inserted(s, k, x, a) ==
    /\ Len(a) = Len(s) + 1 /\ a[k] = x /\ k \in 1..Len(a) /\ Len(s) \in Nat
    /\ \A i \in 1..Len(s) : i < k => i \in 1..Len(a) /\ a[i] = s[i]
    /\ \A i \in 1..Len(s) : i >= k => i + 1 \in 1..Len(a) /\ a[i + 1] = s[i]
    /\ \A i \in 1..Len(a) : i < k => i \in 1..Len(s)
    /\ \A i \in 1..Len(a) : i > k => i - 1 \in 1..Len(s) /\ a[i] = s[i - 1]

LEMMA PutBefore ==
  ASSUME NEW R, NEW s \in Seq(R), NEW x \in R, NEW k \in 1..Len(s) + 1
  PROVE  InsertAt(s, k, x) \in Seq(R) /\ Inserted(s, k, x, InsertAt(s, k, x))
<1>. DEFINE m == Len(s)
            f == SubSeq(s, 1, k - 1)  h == f \o <<x>>  b == SubSeq(s, k, m)  a == h \o b
<1>1. m \in Nat /\ k \in 1..m + 1
  OBVIOUS
<1>2. /\ f \in Seq(R) /\ Len(f) = k - 1 /\ \A i \in 1..k - 1 : f[i] = s[i]
  BY <1>1
<1>3. /\ b \in Seq(R) /\ Len(b) = m - k + 1 /\ \A i \in 1..m - k + 1 : b[i] = s[k + i - 1]
  BY <1>1
<1>4. a = InsertAt(s, k, x)
  BY DEF InsertAt
<1>. HIDE DEF f, b, m
<1>5. h \in Seq(R) /\ Len(h) = k /\ h[k] = x /\ \A i \in 1..k - 1 : h[i] = f[i]
  BY <1>1, <1>2
<1>. HIDE DEF h
<1>6. /\ a \in Seq(R) /\ Len(a) = m + 1 /\ \A i \in 1..k : a[i] = h[i]
      /\ \A i \in 1..m - k + 1 : a[k + i] = b[i]
  <2>1. h \in Seq(R) /\ b \in Seq(R)
    BY <1>3, <1>5
  <2>2. a \in Seq(R) /\ Len(a) = Len(h) + Len(b)
    BY <2>1
  <2>3. \A i \in 1..Len(h) + Len(b) : a[i] = IF i <= Len(h) THEN h[i] ELSE b[i - Len(h)]
    BY <2>1
  <2>. HIDE DEF a
  <2>4. k + (m - k + 1) = m + 1
    BY <1>1
  <2>5. Len(a) = m + 1
    BY Zenon, <1>3, <1>5, <2>2, <2>4
  <2>6. \A i \in 1..m + 1 : a[i] = IF i <= k THEN h[i] ELSE b[i - k]
    BY Zenon, <1>3, <1>5, <2>3, <2>4
  <2>7. ASSUME NEW i \in 1..k PROVE a[i] = h[i]
    <3>1. i \in 1..m + 1 /\ i <= k
      BY <1>1
    <3>. QED  BY Zenon, <2>6, <3>1
  <2>8. ASSUME NEW i \in 1..m - k + 1 PROVE a[k + i] = b[i]
    <3>1. k + i \in 1..m + 1 /\ ~(k + i <= k) /\ (k + i) - k = i
      BY <1>1
    <3>2. PICK j \in 1..m + 1 : j = k + i
      BY <3>1
    <3>3. a[j] = b[j - k]
      BY Zenon, <2>6, <3>1, <3>2
    <3>. QED  BY Zenon, <3>1, <3>2, <3>3
  <2>. QED  BY Zenon, <2>2, <2>5, <2>7, <2>8
<1>. HIDE DEF a
<1>7. a[k] = x /\ k \in 1..m + 1
  BY <1>1, <1>5, <1>6
<1>8. \A i \in 1..m : i < k => i \in 1..m + 1 /\ a[i] = s[i]
  BY <1>1, <1>2, <1>5, <1>6
<1>9. ASSUME NEW i \in 1..m, i >= k PROVE i + 1 \in 1..m + 1 /\ a[i + 1] = s[i]
  <2>. DEFINE j == i - k + 1
  <2>1. j \in 1..m - k + 1 /\ k + j = i + 1 /\ k + j - 1 = i
    BY <1>1, <1>9
  <2>. HIDE DEF j
  <2>2. a[k + j] = b[j] /\ b[j] = s[k + j - 1]
    BY <1>3, <1>6, <2>1
  <2>. QED  BY <1>1, <2>1, <2>2
<1>10. ASSUME NEW i \in 1..m + 1, i > k PROVE i - 1 \in 1..m /\ a[i] = s[i - 1]
  <2>1. i - 1 \in 1..m /\ i - 1 >= k /\ (i - 1) + 1 = i
    BY <1>1, <1>10
  <2>2. a[(i - 1) + 1] = s[i - 1]
    BY <1>9, <2>1
  <2>. QED  BY <2>1, <2>2
<1>11. \A i \in 1..m + 1 : i < k => i \in 1..m
  BY <1>1
<1>12. Inserted(s, k, x, a)
  BY <1>1, <1>6, <1>7, <1>8, <1>9, <1>10, <1>11 DEF Inserted, m
<1>. QED  BY <1>4, <1>6, <1>12

(* The elements of a sequence with one put first.                          *)
LEMMA PutFirst ==
  ASSUME NEW R, NEW s \in Seq(R), NEW x \in R
  PROVE  LET a == <<x>> \o s
         IN  /\ a \in Seq(R) /\ Len(a) = Len(s) + 1 /\ a[1] = x /\ 1 \in 1..Len(a)
             /\ Len(s) \in Nat
             /\ \A i \in 1..Len(s) : i + 1 \in 1..Len(a) /\ a[i + 1] = s[i]
             /\ \A i \in 1..Len(a) : i # 1 => i - 1 \in 1..Len(s) /\ a[i] = s[i - 1]
  OBVIOUS

(* What the tail of a sequence without repetition has lost.                *)
LEMMA MembersTail ==
  ASSUME NEW R, NEW s \in Seq(R), s # <<>>
  PROVE  /\ Members(s) = {Head(s)} \cup Members(Tail(s))
         /\ Injective(s) => Injective(Tail(s)) /\ Head(s) \notin Members(Tail(s))
<1>. DEFINE t == Tail(s)
<1>1. /\ Head(s) = s[1] /\ 1 \in 1..Len(s) /\ Len(t) = Len(s) - 1 /\ Len(s) \in Nat \ {0}
      /\ \A i \in 1..Len(t) : i + 1 \in 1..Len(s) /\ t[i] = s[i + 1]
      /\ \A i \in 1..Len(s) : i # 1 => i - 1 \in 1..Len(t) /\ t[i - 1] = s[i]
  BY TakeFirst
<1>. HIDE DEF t
<1>2. \A i \in 1..Len(t) : i \in Nat /\ i + 1 # 1
  BY <1>1
<1>3. Members(s) = {Head(s)} \cup Members(t)
  <2>1. ASSUME NEW x \in Members(s) PROVE x \in {Head(s)} \cup Members(t)
    <3>1. PICK i \in 1..Len(s) : x = s[i]
      BY DEF Members
    <3>2. CASE i = 1
      BY <1>1, <3>1, <3>2
    <3>3. CASE i # 1
      BY <1>1, <3>1, <3>3 DEF Members
    <3>. QED  BY <3>2, <3>3
  <2>2. Members(t) \subseteq Members(s) /\ Head(s) \in Members(s)
    BY <1>1 DEF Members
  <2>. QED  BY <2>1, <2>2
<1>4. ASSUME Injective(s) PROVE Injective(t) /\ Head(s) \notin Members(t)
  <2>1. ASSUME NEW i \in 1..Len(t), NEW j \in 1..Len(t), t[i] = t[j] PROVE i = j
    <3>1. i + 1 \in 1..Len(s) /\ j + 1 \in 1..Len(s) /\ s[i + 1] = s[j + 1]
      BY <1>1, <2>1
    <3>2. i + 1 = j + 1
      BY <1>4, <3>1 DEF Injective
    <3>. QED  BY <1>2, <3>2
  <2>2. ASSUME NEW i \in 1..Len(t), t[i] = Head(s) PROVE FALSE
    BY <1>1, <1>2, <1>4, <2>2 DEF Injective
  <2>. QED  BY <2>1, <2>2 DEF Injective, Members
<1>. QED  BY <1>3, <1>4 DEF t

(* What a sequence has gained at its end.                                  *)
LEMMA MembersAppend ==
  ASSUME NEW R, NEW s \in Seq(R), NEW x \in R
  PROVE  /\ Members(Append(s, x)) = Members(s) \cup {x}
         /\ Injective(s) /\ x \notin Members(s) => Injective(Append(s, x))
<1>. DEFINE a == Append(s, x)
<1>1. /\ Len(a) = Len(s) + 1 /\ a[Len(s) + 1] = x
      /\ Len(s) + 1 \in 1..Len(a) /\ Len(s) \in Nat
      /\ \A i \in 1..Len(s) : i \in 1..Len(a) /\ a[i] = s[i]
      /\ \A i \in 1..Len(a) : i # Len(s) + 1 => i \in 1..Len(s)
  BY PutLast
<1>. HIDE DEF a
<1>2. Members(a) = Members(s) \cup {x}
  BY <1>1 DEF Members
<1>3. ASSUME Injective(s), x \notin Members(s) PROVE Injective(a)
  BY <1>1, <1>3 DEF Injective, Members
<1>. QED  BY <1>2, <1>3 DEF a

(* What a sequence has gained at its front.                                *)
LEMMA MembersCons ==
  ASSUME NEW R, NEW s \in Seq(R), NEW x \in R
  PROVE  /\ Members(<<x>> \o s) = Members(s) \cup {x}
         /\ Injective(s) /\ x \notin Members(s) => Injective(<<x>> \o s)
<1>. DEFINE a == <<x>> \o s
<1>1. /\ Len(a) = Len(s) + 1 /\ a[1] = x /\ 1 \in 1..Len(a) /\ Len(s) \in Nat
      /\ \A i \in 1..Len(s) : i + 1 \in 1..Len(a) /\ a[i + 1] = s[i]
      /\ \A i \in 1..Len(a) : i # 1 => i - 1 \in 1..Len(s) /\ a[i] = s[i - 1]
  BY PutFirst
<1>. HIDE DEF a
<1>2. Members(a) = Members(s) \cup {x}
  <2>1. \A i \in 1..Len(a) : a[i] \in Members(s) \cup {x}
    BY <1>1 DEF Members
  <2>2. \A i \in 1..Len(s) : s[i] \in Members(a)
    BY <1>1 DEF Members
  <2>3. x \in Members(a)
    BY <1>1 DEF Members
  <2>. QED  BY <2>1, <2>2, <2>3 DEF Members
<1>3. ASSUME Injective(s), x \notin Members(s) PROVE Injective(a)
  <2>1. ASSUME NEW i \in 1..Len(a), NEW j \in 1..Len(a), a[i] = a[j] PROVE i = j
    <3>1. CASE i = 1 \/ j = 1
      <4>1. \A k \in 1..Len(a) : k # 1 => a[k] # x
        BY <1>1, <1>3 DEF Members
      <4>. QED  BY <1>1, <2>1, <3>1, <4>1
    <3>2. CASE i # 1 /\ j # 1
      <4>1. i - 1 = j - 1
        BY <1>1, <1>3, <2>1, <3>2 DEF Injective
      <4>. QED  BY <1>1, <4>1
    <3>. QED  BY <3>1, <3>2
  <2>. QED  BY <2>1 DEF Injective
<1>. QED  BY <1>2, <1>3 DEF a

(* A sequence without repetition has as many members as its length.        *)
LEMMA MembersCount ==
  ASSUME NEW s \in Seq(Ids)
  PROVE  /\ IsFiniteSet(Members(s)) /\ Members(s) \subseteq Ids
         /\ Injective(s) => Cardinality(Members(s)) = Len(s)
<1>1. Members(s) \subseteq Ids
  BY DEF Members
<1>2. IsFiniteSet(Members(s))
  BY <1>1, Indices, FS_Subset
<1>3. ASSUME Injective(s) PROVE Cardinality(Members(s)) = Len(s)
  <2>. DEFINE f == [i \in 1..Len(s) |-> s[i]]
  <2>1. f \in Bijection(1..Len(s), Members(s))
    <3>1. f \in [1..Len(s) -> Members(s)] /\ \A i \in 1..Len(s) : f[i] = s[i]
      BY DEF Members
    <3>2. \A x \in Members(s) : \E i \in 1..Len(s) : s[i] = x
      BY DEF Members
    <3>. HIDE DEF f
    <3>3. f \in Injection(1..Len(s), Members(s))
      BY <1>3, <3>1 DEF Injective, Injection, IsInjective
    <3>4. f \in Surjection(1..Len(s), Members(s))
      BY <3>1, <3>2 DEF Surjection
    <3>. QED  BY <3>3, <3>4 DEF Bijection
  <2>2. ExistsBijection(1..Len(s), Members(s))
    <3>. HIDE DEF f
    <3>. QED  BY <2>1 DEF ExistsBijection
  <2>3. IsFiniteSet(1..Len(s)) /\ Cardinality(1..Len(s)) = Len(s)
    <3>1. Len(s) \in Nat
      OBVIOUS
    <3>2. IsFiniteSet(1..Len(s))
          /\ Cardinality(1..Len(s)) = IF 1 > Len(s) THEN 0 ELSE Len(s) - 1 + 1
      <4>1. 1 \in Int /\ Len(s) \in Int
        BY <3>1
      <4>. QED  BY Zenon, <4>1, FS_Interval
    <3>. QED  BY <3>1, <3>2
  <2>. QED  BY <2>2, <2>3, FS_Bijection
<1>. QED  BY <1>1, <1>2, <1>3

(* The references of a list without its first grant.                       *)
LEMMA RefsTail ==
  ASSUME NEW s \in Seq(Grants), s # <<>>, Once(s)
  PROVE  /\ RefsIn(Tail(s)) = RefsIn(s) \ {Head(s).gref} /\ Once(Tail(s))
         /\ Head(s).gref # NoRef => Head(s).gref \in RefsIn(s)
<1>. DEFINE t == Tail(s)  x == Head(s).gref
<1>1. /\ Head(s) = s[1] /\ 1 \in 1..Len(s) /\ Len(t) = Len(s) - 1 /\ Len(s) \in Nat \ {0}
      /\ \A i \in 1..Len(t) : i + 1 \in 1..Len(s) /\ t[i] = s[i + 1]
      /\ \A i \in 1..Len(s) : i # 1 => i - 1 \in 1..Len(t) /\ t[i - 1] = s[i]
  BY TakeFirst
<1>. HIDE DEF t
<1>2. \A i \in 1..Len(t) : i \in Nat /\ i + 1 # 1
  BY <1>1
<1>3. \A i \in 1..Len(s) : i # 1 /\ s[i].gref # NoRef => s[i].gref # x
  BY <1>1 DEF Once
<1>4. \A i \in 1..Len(t) : t[i].gref # NoRef => t[i].gref # x
  BY <1>1, <1>2, <1>3
<1>5. RefsIn(t) \subseteq RefsIn(s) \ {x}
  BY <1>1, <1>4 DEF RefsIn
<1>6. ASSUME NEW r \in RefsIn(s) \ {x} PROVE r \in RefsIn(t)
  <2>1. PICK i \in 1..Len(s) : r = s[i].gref /\ r # NoRef
    BY DEF RefsIn
  <2>2. i # 1
    BY <1>1, <2>1
  <2>3. i - 1 \in 1..Len(t) /\ t[i - 1].gref = r
    BY <1>1, <2>1, <2>2
  <2>. QED  BY <2>1, <2>3 DEF RefsIn
<1>7. ASSUME NEW i \in 1..Len(t), NEW j \in 1..Len(t), t[i].gref = t[j].gref, i # j
      PROVE t[i].gref = NoRef
  <2>1. i + 1 # j + 1 /\ i + 1 \in 1..Len(s) /\ j + 1 \in 1..Len(s)
        /\ s[i + 1].gref = s[j + 1].gref /\ t[i] = s[i + 1]
    BY <1>1, <1>2, <1>7
  <2>. QED  BY <2>1 DEF Once
<1>8. x # NoRef => x \in RefsIn(s)
  BY <1>1 DEF RefsIn
<1>. QED  BY <1>5, <1>6, <1>7, <1>8 DEF Once, t

(* The references of a list with a grant put last.                         *)
LEMMA RefsAppend ==
  ASSUME NEW s \in Seq(Grants), NEW g \in Grants
  PROVE  /\ RefsIn(Append(s, g)) = RefsIn(s) \cup ({g.gref} \ {NoRef})
         /\ Once(s) /\ g.gref \notin RefsIn(s) => Once(Append(s, g))
<1>. DEFINE a == Append(s, g)
<1>1. /\ Len(a) = Len(s) + 1 /\ a[Len(s) + 1] = g
      /\ Len(s) + 1 \in 1..Len(a) /\ Len(s) \in Nat
      /\ \A i \in 1..Len(s) : i \in 1..Len(a) /\ a[i] = s[i]
      /\ \A i \in 1..Len(a) : i # Len(s) + 1 => i \in 1..Len(s)
  BY PutLast
<1>. HIDE DEF a
<1>2. RefsIn(a) = RefsIn(s) \cup ({g.gref} \ {NoRef})
  BY <1>1 DEF RefsIn
<1>3. ASSUME Once(s), g.gref \notin RefsIn(s) PROVE Once(a)
  <2>1. \A i \in 1..Len(s) : s[i].gref # NoRef => s[i].gref # g.gref
    BY <1>3 DEF RefsIn
  <2>. QED  BY <1>1, <1>3, <2>1 DEF Once
<1>. QED  BY <1>2, <1>3 DEF a

(* The references of a list with a grant put in.                           *)
LEMMA RefsInsert ==
  ASSUME NEW s \in Seq(Grants), NEW g \in Grants, NEW k, NEW a, Inserted(s, k, g, a)
  PROVE  /\ RefsIn(a) = RefsIn(s) \cup ({g.gref} \ {NoRef})
         /\ Once(s) /\ g.gref \notin RefsIn(s) => Once(a)
<1>. DEFINE from == [i \in 1..Len(a) |-> IF i < k THEN i ELSE i - 1]
<1>1. /\ Len(a) = Len(s) + 1 /\ a[k] = g /\ k \in 1..Len(a) /\ Len(s) \in Nat /\ k \in Int
      /\ \A i \in 1..Len(s) : i < k => i \in 1..Len(a) /\ a[i] = s[i]
      /\ \A i \in 1..Len(s) : i >= k => i + 1 \in 1..Len(a) /\ a[i + 1] = s[i]
      /\ \A i \in 1..Len(a) : i < k => i \in 1..Len(s)
      /\ \A i \in 1..Len(a) : i > k => i - 1 \in 1..Len(s) /\ a[i] = s[i - 1]
  BY DEF Inserted
<1>2. ASSUME NEW i \in 1..Len(a), i # k PROVE from[i] \in 1..Len(s) /\ a[i] = s[from[i]]
  BY <1>1, <1>2
<1>3. ASSUME NEW i \in 1..Len(s) PROVE \E j \in 1..Len(a) : a[j] = s[i]
  <2>1. i < k \/ i >= k
    BY <1>1
  <2>. QED  BY <1>1, <2>1
<1>4. \A i, j \in 1..Len(a) : i # k /\ j # k /\ i # j => from[i] # from[j]
  BY <1>1
<1>. HIDE DEF from
<1>5. RefsIn(a) = RefsIn(s) \cup ({g.gref} \ {NoRef})
  <2>1. \A i \in 1..Len(a) : a[i].gref \in {s[j].gref : j \in 1..Len(s)} \cup {g.gref}
    BY <1>1, <1>2
  <2>2. \A i \in 1..Len(s) : s[i].gref \in {a[j].gref : j \in 1..Len(a)}
    BY <1>3
  <2>3. g.gref \in {a[j].gref : j \in 1..Len(a)}
    BY <1>1
  <2>. QED  BY <2>1, <2>2, <2>3 DEF RefsIn
<1>6. ASSUME Once(s), g.gref \notin RefsIn(s) PROVE Once(a)
  <2>1. \A i \in 1..Len(s) : s[i].gref # NoRef => s[i].gref # g.gref
    BY <1>6 DEF RefsIn
  <2>2. ASSUME NEW i \in 1..Len(a), NEW j \in 1..Len(a), a[i].gref = a[j].gref, i # j
        PROVE a[i].gref = NoRef
    <3>1. CASE i = k \/ j = k
      <4>1. ASSUME NEW h \in 1..Len(a), h # k, a[h].gref # NoRef PROVE a[h].gref # a[k].gref
        <5>1. from[h] \in 1..Len(s) /\ a[h] = s[from[h]] /\ a[k] = g
          BY <1>1, <1>2, <4>1
        <5>. QED  BY <2>1, <4>1, <5>1
      <4>. QED  BY <1>1, <2>2, <3>1, <4>1
    <3>2. CASE i # k /\ j # k
      <4>1. /\ from[i] # from[j] /\ from[i] \in 1..Len(s) /\ from[j] \in 1..Len(s)
            /\ a[i] = s[from[i]] /\ a[j] = s[from[j]]
        BY <1>2, <1>4, <2>2, <3>2
      <4>2. s[from[i]].gref = NoRef
        BY Zenon, <1>6, <2>2, <4>1 DEF Once
      <4>. QED  BY <4>1, <4>2
    <3>. QED  BY <3>1, <3>2
  <2>. QED  BY <2>2 DEF Once
<1>. QED  BY <1>5, <1>6

(* The references of a list with a grant put first.                        *)
LEMMA RefsCons ==
  ASSUME NEW s \in Seq(Grants), NEW g \in Grants
  PROVE  /\ RefsIn(<<g>> \o s) = RefsIn(s) \cup ({g.gref} \ {NoRef})
         /\ Once(s) /\ g.gref \notin RefsIn(s) => Once(<<g>> \o s)
<1>. DEFINE a == <<g>> \o s
<1>1. /\ Len(a) = Len(s) + 1 /\ a[1] = g /\ 1 \in 1..Len(a) /\ Len(s) \in Nat
      /\ \A i \in 1..Len(s) : i + 1 \in 1..Len(a) /\ a[i + 1] = s[i]
      /\ \A i \in 1..Len(a) : i # 1 => i - 1 \in 1..Len(s) /\ a[i] = s[i - 1]
  BY PutFirst
<1>. HIDE DEF a
<1>2. RefsIn(a) = RefsIn(s) \cup ({g.gref} \ {NoRef})
  <2>1. \A i \in 1..Len(a) : a[i].gref \in RefsIn(s) \cup {g.gref, NoRef}
    BY <1>1 DEF RefsIn
  <2>2. \A i \in 1..Len(s) : s[i].gref \in {a[j].gref : j \in 1..Len(a)}
    BY <1>1
  <2>3. g.gref \in {a[j].gref : j \in 1..Len(a)}
    BY <1>1
  <2>. QED  BY <2>1, <2>2, <2>3 DEF RefsIn
<1>3. ASSUME Once(s), g.gref \notin RefsIn(s) PROVE Once(a)
  <2>1. \A i \in 1..Len(s) : s[i].gref # NoRef => s[i].gref # g.gref
    BY <1>3 DEF RefsIn
  <2>2. ASSUME NEW i \in 1..Len(a), NEW j \in 1..Len(a), a[i].gref = a[j].gref, i # j
        PROVE a[i].gref = NoRef
    <3>1. CASE i = 1 \/ j = 1
      <4>1. \A k \in 1..Len(a) : k # 1 /\ a[k].gref # NoRef => a[k].gref # a[1].gref
        BY <1>1, <2>1
      <4>. QED  BY <1>1, <2>2, <3>1, <4>1
    <3>2. CASE i # 1 /\ j # 1
      <4>1. i - 1 # j - 1
        BY <1>1, <2>2
      <4>2. /\ i - 1 \in 1..Len(s) /\ a[i] = s[i - 1]
            /\ j - 1 \in 1..Len(s) /\ a[j] = s[j - 1]
        BY Zenon, <1>1, <2>2, <3>2
      <4>3. s[i - 1].gref = s[j - 1].gref
        BY Zenon, <2>2, <4>2
      <4>4. s[i - 1].gref = NoRef
        BY Zenon, <1>3, <4>1, <4>2, <4>3 DEF Once
      <4>. QED  BY Zenon, <4>2, <4>4
    <3>. QED  BY <3>1, <3>2
  <2>. QED  BY <2>2 DEF Once
<1>. QED  BY <1>2, <1>3 DEF a

--------------------------------------------------------------------------------
(* One grant moves from the list to a request in flight, or back.          *)

(* What such a step leaves alone.                                          *)
Moved(d, e, id) ==
    /\ e \in Drivers
    /\ e.rq = d.rq /\ e.free = d.free /\ e.ring = d.ring /\ e.answers = d.answers
    /\ e.pending = d.pending /\ e.answered = d.answered /\ e.bug = d.bug
    /\ e.shadow[id].req = d.shadow[id].req
    /\ \A other \in Ids \ {id} : e.shadow[other] = d.shadow[other]

(* There is a reference per slot and segment, and NoRef is none of them.   *)
LEMMA RefsSet ==
  /\ IsFiniteSet(Refs) /\ Cardinality(Refs) = RingSize * (MaxSegs + 1)
  /\ RingSize * (MaxSegs + 1) \in Nat /\ Refs \subseteq Nat /\ NoRef \notin Refs
<1>. DEFINE m == RingSize * (MaxSegs + 1)
<1>1. m \in Nat
  BY Constants
<1>. HIDE DEF m
<1>2. IsFiniteSet(1..m) /\ Cardinality(1..m) = IF 1 > m THEN 0 ELSE m - 1 + 1
  BY <1>1, FS_Interval
<1>3. Cardinality(1..m) = m
  BY <1>1, <1>2
<1>4. Refs = 1..m
  BY DEF Refs, m
<1>. QED  BY <1>1, <1>2, <1>3, <1>4 DEF NoRef, m

(* There is a reference for each grant that has none.                      *)
LEMMA UnusedFresh ==
  ASSUME NEW d \in Drivers, GrantsOk(d), d.grants # <<>>, Head(d.grants).gref = NoRef
  PROVE  Unused(d) \in Refs \ d.granted
<1>1. /\ d.grants \in Seq(Grants) /\ d.granted \subseteq Refs /\ d.count \in Nat
      /\ d.shadow \in [Ids -> Shadows]
  BY DEF Drivers
<1>2. 1 \in 1..Len(d.grants) /\ d.grants[1] = Head(d.grants) /\ Len(d.grants) \in Nat \ {0}
  BY <1>1
<1>3. ~(1 <= d.count)
  BY <1>2 DEF GrantsOk, CountOk
<1>4. UsedTotal(d.shadow) \in Nat
  BY <1>1, UsedTyped
<1>5. Cardinality(d.granted) < Cardinality(Refs)
  <2>1. /\ Cardinality(d.granted) = d.count + UsedTotal(d.shadow)
        /\ Len(d.grants) + UsedTotal(d.shadow) <= Cardinality(Refs)
        /\ Cardinality(Refs) \in Nat
    BY RefsSet DEF GrantsOk, CountOk
  <2>. QED  BY <1>1, <1>2, <1>3, <1>4, <2>1
<1>6. Refs \ d.granted # {}
  <2>1. ASSUME Refs \ d.granted = {} PROVE FALSE
    <3>1. Refs = d.granted
      BY <1>1, <2>1
    <3>2. Cardinality(Refs) \in Nat
      BY RefsSet
    <3>. QED  BY <1>5, <3>1, <3>2
  <2>. QED  BY <2>1
<1>. DEFINE T == Refs \ d.granted
<1>7. \E x \in T : \A y \in T : x <= y
  <2>1. T \subseteq Nat /\ T # {}
    BY <1>6, RefsSet
  <2>. HIDE DEF T
  <2>. QED  BY <2>1, LeastElement
<1>8. Unused(d) = CHOOSE x \in T : \A y \in T : x <= y
  BY DEF Unused
<1>. HIDE DEF T
<1>9. Unused(d) \in T
  BY <1>7, <1>8
<1>. QED  BY <1>9 DEF T

(* The grant a request takes.                                              *)
NextGrant(d, page) ==
    IF Head(d.grants).gref # NoRef THEN Head(d.grants)
    ELSE [gref |-> Unused(d), page |-> page]

(* Where it goes: before the last of those the request has.                *)
PutIn(used, u, last) == InsertAt(used, Len(used) + 1 - last, u)

LEMMA PutInUsed ==
  ASSUME NEW s \in Seq(Grants), NEW u \in Grants, NEW last \in 0..Len(s)
  PROVE  PutIn(s, u, last) \in Seq(Grants) /\ Inserted(s, Len(s) + 1 - last, u, PutIn(s, u, last))
<1>1. Len(s) + 1 - last \in 1..Len(s) + 1
  OBVIOUS
<1>. QED  BY <1>1, PutBefore DEF PutIn

(* What get_grant changes of the driver, field by field.                   *)
LEMMA TakeFields ==
  ASSUME NEW d \in Drivers, GrantsOk(d), d.grants # <<>>, NEW id \in Ids, NEW page \in Pages,
         NEW last \in 0..Len(d.shadow[id].used)
  PROVE  LET e == TakeGrant(d, id, page, last)
             u == NextGrant(d, page)
         IN  /\ Moved(d, e, id) /\ u \in Grants /\ u.gref \in Refs
             /\ e.shadow[id].used = PutIn(d.shadow[id].used, u, last) /\ e.pages = d.pages
             /\ e.grants = Tail(d.grants) /\ e.granted = d.granted \cup {u.gref}
             /\ e.count = IF Head(d.grants).gref # NoRef THEN d.count - 1 ELSE d.count
             /\ IF Head(d.grants).gref # NoRef THEN d.count > 0
                ELSE d.count = 0 /\ u.gref \notin d.granted
<1>. DEFINE e == TakeGrant(d, id, page, last)  u == NextGrant(d, page)  g == Head(d.grants)
<1>1. /\ d.grants \in Seq(Grants) /\ d.granted \subseteq Refs /\ d.count \in Nat
      /\ d.shadow \in [Ids -> Shadows] /\ d.shadow[id] \in Shadows
  BY DEF Drivers
<1>2. g \in Grants /\ 1 \in 1..Len(d.grants) /\ d.grants[1] = g /\ Tail(d.grants) \in Seq(Grants)
  BY <1>1
<1>3. u \in Grants /\ u.gref \in Refs
  <2>1. CASE g.gref # NoRef
    BY <1>2, <2>1 DEF NextGrant, Grants
  <2>2. CASE g.gref = NoRef
    BY <2>2, UnusedFresh DEF NextGrant, Grants
  <2>. QED  BY <2>1, <2>2
<1>4. /\ g.gref # NoRef => d.count > 0
      /\ g.gref = NoRef => d.count = 0 /\ u.gref \notin d.granted
  <2>1. g.gref # NoRef <=> 1 <= d.count
    BY <1>2 DEF GrantsOk, CountOk
  <2>2. g.gref = NoRef => u.gref \notin d.granted
    BY UnusedFresh DEF NextGrant
  <2>. QED  BY <1>1, <2>1, <2>2
<1>. DEFINE sh == [d.shadow EXCEPT ![id].used = InsertAt(@, Len(@) + 1 - last, u)]
<1>5. e = [d EXCEPT !.grants = Tail(@), !.shadow = sh,
                    !.count = IF g.gref # NoRef THEN @ - 1 ELSE @,
                    !.granted = @ \cup {u.gref}]
  BY DEF TakeGrant, NextGrant
<1>. HIDE DEF u, g
<1>6. /\ sh \in [Ids -> Shadows] /\ sh[id].req = d.shadow[id].req
      /\ sh[id].used = PutIn(d.shadow[id].used, u, last)
      /\ \A other \in Ids \ {id} : sh[other] = d.shadow[other]
  <2>1. d.shadow[id].used \in Seq(Grants)
    BY <1>1 DEF Shadows
  <2>2. PutIn(d.shadow[id].used, u, last) \in Seq(Grants)
    BY <1>3, <2>1, PutInUsed
  <2>. DEFINE v == [d.shadow[id] EXCEPT !.used = PutIn(@, u, last)]
  <2>3. v \in Shadows /\ v.req = d.shadow[id].req /\ v.used = PutIn(d.shadow[id].used, u, last)
    BY <1>1, <2>2 DEF Shadows
  <2>4. sh = [d.shadow EXCEPT ![id] = v]
    BY DEF PutIn
  <2>. HIDE DEF v, sh
  <2>. QED  BY <1>1, <2>3, <2>4
<1>. HIDE DEF sh, e
<1>7. (IF g.gref # NoRef THEN d.count - 1 ELSE d.count) \in Nat
  BY <1>1, <1>4
<1>8. d.granted \cup {u.gref} \subseteq Refs
  BY <1>1, <1>3
<1>9. /\ e.rq = d.rq /\ e.free = d.free /\ e.ring = d.ring /\ e.answers = d.answers
      /\ e.pending = d.pending /\ e.answered = d.answered /\ e.bug = d.bug
      /\ e.pages = d.pages
      /\ e.shadow = sh /\ e.grants = Tail(d.grants) /\ e.granted = d.granted \cup {u.gref}
      /\ e.count = IF g.gref # NoRef THEN d.count - 1 ELSE d.count
  BY <1>5 DEF Drivers
<1>10. e \in Drivers
  BY <1>2, <1>5, <1>6, <1>7, <1>8 DEF Drivers
<1>11. Moved(d, e, id)
  BY <1>6, <1>9, <1>10 DEF Moved
<1>. QED  BY <1>3, <1>4, <1>6, <1>9, <1>11 DEF e, u, g

(* References moved between the list L and the request id, by their sets.  *)
Apart(L, R) ==
    \A id \in Ids : /\ R[id] \cap L = {}
                    /\ \A other \in Ids \ {id} : R[id] \cap R[other] = {}
RefSets(d) == [id \in Ids |-> RefsIn(d.shadow[id].used)]
AllOf(L, R) == L \cup UNION {R[id] : id \in Ids}

(* HeldOnce, as a statement on the sets of references.                     *)
LEMMA HeldSets ==
  ASSUME NEW d
  PROVE  HeldOnce(d) <=> /\ d.granted = AllOf(RefsIn(d.grants), RefSets(d))
                         /\ Apart(RefsIn(d.grants), RefSets(d))
                         /\ Once(d.grants) /\ \A id \in Ids : Once(d.shadow[id].used)
<1>1. \A id \in Ids : RefSets(d)[id] = RefsIn(d.shadow[id].used)
  BY DEF RefSets
<1>2. {RefsIn(d.shadow[id].used) : id \in Ids} = {RefSets(d)[id] : id \in Ids}
  BY <1>1
<1>3. AllOf(RefsIn(d.grants), RefSets(d))
        = RefsIn(d.grants) \cup UNION {RefsIn(d.shadow[id].used) : id \in Ids}
  BY <1>2 DEF AllOf
<1>. HIDE DEF RefSets
<1>. QED  BY <1>1, <1>3 DEF HeldOnce, Apart

Took(L, R, L2, R2, x) == Apart(L2, R2) /\ AllOf(L2, R2) = AllOf(L, R) \cup {x}
Kept(L, R, L2, R2)    == Apart(L2, R2) /\ AllOf(L2, R2) = AllOf(L, R)
Ended(L, R, L2, R2, x) == Apart(L2, R2) /\ AllOf(L2, R2) = AllOf(L, R) \ {x}

(* A new reference goes to one request.                                    *)
LEMMA SetsTake ==
  ASSUME NEW L, NEW R, NEW L2, NEW R2, NEW id \in Ids, NEW x, Apart(L, R),
         \A other \in Ids \ {id} : R2[other] = R[other],
         L2 = L \ {x}, R2[id] = R[id] \cup {x}, x \in L \/ x \notin AllOf(L, R)
  PROVE  Took(L, R, L2, R2, x)
<1>1. \A o \in Ids : x \notin R[o]
  BY DEF Apart, AllOf
<1>2. Apart(L2, R2)
  BY <1>1 DEF Apart
<1>3. ASSUME NEW y \in AllOf(L2, R2) PROVE y \in AllOf(L, R) \cup {x}
  BY DEF AllOf
<1>4. ASSUME NEW y \in AllOf(L, R) \cup {x} PROVE y \in AllOf(L2, R2)
  BY DEF AllOf
<1>. QED  BY <1>2, <1>3, <1>4 DEF Took


(* A request's reference comes back to the list.                           *)
LEMMA SetsKeep ==
  ASSUME NEW L, NEW R, NEW L2, NEW R2, NEW id \in Ids, NEW x, Apart(L, R),
         \A other \in Ids \ {id} : R2[other] = R[other],
         L2 = L \cup {x}, R2[id] = R[id] \ {x}, x \in R[id]
  PROVE  Kept(L, R, L2, R2)
<1>1. \A o \in Ids \ {id} : x \notin R[o]
  BY DEF Apart
<1>2. Apart(L2, R2)
  BY <1>1 DEF Apart
<1>3. ASSUME NEW y \in AllOf(L2, R2) PROVE y \in AllOf(L, R)
  BY DEF AllOf
<1>4. ASSUME NEW y \in AllOf(L, R) PROVE y \in AllOf(L2, R2)
  BY DEF AllOf
<1>. QED  BY <1>2, <1>3, <1>4 DEF Kept


(* A reference is given back to the grant table.                           *)
LEMMA SetsEnd ==
  ASSUME NEW L, NEW R, NEW L2, NEW R2, NEW id \in Ids, NEW x, Apart(L, R),
         \A other \in Ids \ {id} : R2[other] = R[other],
         L2 = L, R2[id] = R[id] \ {x}, x \in R[id]
  PROVE  Ended(L, R, L2, R2, x)
<1>1. x \notin L /\ \A o \in Ids \ {id} : x \notin R[o]
  BY DEF Apart
<1>2. Apart(L2, R2)
  BY <1>1 DEF Apart
<1>3. ASSUME NEW y \in AllOf(L2, R2) PROVE y \in AllOf(L, R) \ {x}
  BY <1>1 DEF AllOf
<1>4. ASSUME NEW y \in AllOf(L, R) \ {x} PROVE y \in AllOf(L2, R2)
  BY DEF AllOf
<1>. QED  BY <1>2, <1>3, <1>4 DEF Ended


(* What is used of a request never lacks a reference.                      *)
AllValid(entries) == \A i \in 1..Len(entries) : entries[i].gref # NoRef

(* The next grant is taken: it may have been granted already.              *)
LEMMA TakeKeeps ==
  ASSUME NEW d \in Drivers, GrantsOk(d), d.grants # <<>>, NEW id \in Ids, NEW page \in Pages,
         NEW last \in 0..Len(d.shadow[id].used)
  PROVE  LET e == TakeGrant(d, id, page, last)
         IN  /\ GrantsOk(e) /\ UsedTotal(e.shadow) = UsedTotal(d.shadow) + 1
             /\ Len(e.grants) = Len(d.grants) - 1
<1>. DEFINE e == TakeGrant(d, id, page, last)  u == NextGrant(d, page)  g == Head(d.grants)
            x == u.gref  L == RefsIn(d.grants)  R == RefSets(d)
            L2 == RefsIn(e.grants)  R2 == RefSets(e)
<1>1. /\ Moved(d, e, id) /\ u \in Grants /\ x \in Refs
      /\ e.shadow[id].used = PutIn(d.shadow[id].used, u, last)
      /\ e.grants = Tail(d.grants) /\ e.granted = d.granted \cup {x}
      /\ e.count = IF g.gref # NoRef THEN d.count - 1 ELSE d.count
      /\ IF g.gref # NoRef THEN d.count > 0 ELSE d.count = 0 /\ x \notin d.granted
  BY TakeFields
<1>2. g.gref # NoRef => x = g.gref
  BY DEF NextGrant
<1>3. /\ d.grants \in Seq(Grants) /\ d.granted \subseteq Refs /\ d.count \in Nat
      /\ d.shadow \in [Ids -> Shadows] /\ d.shadow[id].used \in Seq(Grants)
      /\ e \in Drivers /\ e.shadow \in [Ids -> Shadows]
  BY <1>1 DEF Moved, Drivers, Shadows
<1>. HIDE DEF e, u, g
<1>4. HeldOnce(d) /\ CountOk(d) /\ mapped \subseteq d.granted
  BY DEF GrantsOk
<1>5. d.granted = AllOf(L, R) /\ Apart(L, R) /\ Once(d.grants)
      /\ \A o \in Ids : Once(d.shadow[o].used)
  BY <1>4, HeldSets
<1>6. x # NoRef /\ (g.gref = NoRef => x \notin L) /\ NoRef \notin L
  <2>1. x # NoRef
    BY <1>1, RefsSet
  <2>2. NoRef \notin L
    BY DEF RefsIn
  <2>3. g.gref = NoRef => x \notin L
    BY <1>1, <1>5 DEF AllOf
  <2>. QED  BY <2>1, <2>2, <2>3
<1>7. RefsIn(Tail(d.grants)) = L \ {g.gref} /\ Once(Tail(d.grants))
      /\ (g.gref # NoRef => g.gref \in L)
  BY <1>3, <1>5, RefsTail DEF g
<1>8. L2 = L \ {x} /\ Once(e.grants) /\ (x \in L \/ x \notin AllOf(L, R))
  <2>. HIDE DEF L, R
  <2>. QED  BY <1>1, <1>2, <1>5, <1>6, <1>7
<1>9. x \notin R[id]
  BY <1>5, <1>8 DEF Apart, AllOf
<1>10. R2[id] = R[id] \cup {x} /\ Once(e.shadow[id].used)
  <2>1. RefsIn(PutIn(d.shadow[id].used, u, last)) = RefsIn(d.shadow[id].used) \cup ({x} \ {NoRef})
        /\ (Once(d.shadow[id].used) /\ x \notin RefsIn(d.shadow[id].used)
              => Once(PutIn(d.shadow[id].used, u, last)))
    BY <1>1, <1>3, PutInUsed, RefsInsert
  <2>2. R2[id] = RefsIn(e.shadow[id].used) /\ R[id] = RefsIn(d.shadow[id].used)
    BY DEF RefSets
  <2>. HIDE DEF R, R2
  <2>. QED  BY <1>1, <1>5, <1>6, <1>9, <2>1, <2>2
<1>11. \A o \in Ids \ {id} : R2[o] = R[o] /\ Once(e.shadow[o].used)
  BY <1>1, <1>5 DEF Moved, RefSets
<1>12. Apart(L2, R2) /\ AllOf(L2, R2) = AllOf(L, R) \cup {x}
  <2>. HIDE DEF L, R, L2, R2, x
  <2>1. \A o \in Ids \ {id} : R2[o] = R[o]
    BY <1>11
  <2>2. Took(L, R, L2, R2, x)
    BY <1>5, <1>8, <1>10, <2>1, SetsTake
  <2>. QED  BY <2>2 DEF Took
<1>13. HeldOnce(e)
  <2>. HIDE DEF R, R2, x
  <2>1. e.granted = AllOf(L2, R2)
    BY <1>1, <1>5, <1>12
  <2>2. \A o \in Ids : Once(e.shadow[o].used)
    BY <1>10, <1>11
  <2>. QED  BY <1>8, <1>12, <2>1, <2>2, HeldSets DEF R2
<1>14. /\ Len(e.grants) = Len(d.grants) - 1 /\ Len(d.grants) \in Nat \ {0} /\ g = d.grants[1]
       /\ \A i \in 1..Len(e.grants) : i + 1 \in 1..Len(d.grants) /\ e.grants[i] = d.grants[i + 1]
       /\ 1 \in 1..Len(d.grants)
  BY <1>1, <1>3, TakeFirst DEF g
<1>15. UsedTotal(e.shadow) = UsedTotal(d.shadow) + 1
  <2>1. UsedTotal(e.shadow) + Len(d.shadow[id].used)
          = UsedTotal(d.shadow) + Len(e.shadow[id].used)
    BY <1>1, <1>3, UsedUpdate DEF Moved
  <2>2. Len(e.shadow[id].used) = Len(d.shadow[id].used) + 1 /\ Len(d.shadow[id].used) \in Nat
    BY <1>1, <1>3, PutInUsed DEF Inserted
  <2>3. UsedTotal(e.shadow) \in Nat /\ UsedTotal(d.shadow) \in Nat
    BY <1>3, UsedTyped
  <2>. DEFINE a == UsedTotal(e.shadow)  b == UsedTotal(d.shadow)
              k == Len(d.shadow[id].used)  n == Len(e.shadow[id].used)
  <2>4. a \in Nat /\ b \in Nat /\ k \in Nat /\ n = k + 1 /\ a + k = b + n
    BY <2>1, <2>2, <2>3
  <2>. HIDE DEF a, b, k, n
  <2>5. a = b + 1
    BY <2>4
  <2>. QED  BY <2>5 DEF a, b
<1>16. CountOk(e)
  <2>1. /\ d.count \in 0..Len(d.grants)
        /\ \A i \in 1..Len(d.grants) : d.grants[i].gref # NoRef <=> i <= d.count
        /\ \A o \in Ids : AllValid(d.shadow[o].used)
        /\ Cardinality(d.granted) = d.count + UsedTotal(d.shadow)
        /\ Len(d.grants) + UsedTotal(d.shadow) <= RingSize * (MaxSegs + 1)
    BY <1>4 DEF CountOk, AllValid
  <2>2. e.count \in 0..Len(e.grants)
    BY <1>1, <1>3, <1>14, <2>1
  <2>3. ASSUME NEW i \in 1..Len(e.grants) PROVE e.grants[i].gref # NoRef <=> i <= e.count
    <3>1. /\ i + 1 \in 1..Len(d.grants) /\ i \in Nat /\ i >= 1
          /\ e.grants[i].gref # NoRef <=> i + 1 <= d.count
      BY <1>14, <2>1
    <3>2. e.count = IF d.count > 0 THEN d.count - 1 ELSE 0
      BY <1>1
    <3>. QED  BY <1>3, <3>1, <3>2
  <2>4. \A o \in Ids : AllValid(e.shadow[o].used)
    <3>. DEFINE s == d.shadow[id].used  a == PutIn(s, u, last)  k == Len(s) + 1 - last
    <3>3. Inserted(s, k, u, a) /\ AllValid(s)
      BY Zenon, <1>1, <1>3, <2>1, PutInUsed
    <3>. HIDE DEF s, a, k
    <3>0. /\ \A i \in 1..Len(a) : i < k => i \in 1..Len(s)
          /\ \A i \in 1..Len(s) : i < k => a[i] = s[i]
          /\ \A i \in 1..Len(a) : i > k => i - 1 \in 1..Len(s) /\ a[i] = s[i - 1]
          /\ a[k] = u /\ k \in Int /\ AllValid(s) /\ Len(a) \in Nat
      BY <3>3 DEF Inserted
    <3>1. AllValid(a)
      BY <1>6, <3>0 DEF AllValid
    <3>2. AllValid(PutIn(d.shadow[id].used, u, last))
      BY <3>1 DEF a, s
    <3>. QED  BY <1>1, <2>1, <3>2 DEF Moved
  <2>5. Cardinality(e.granted) = e.count + UsedTotal(e.shadow)
    <3>1. IsFiniteSet(d.granted)
      BY <1>3, RefsSet, FS_Subset
    <3>2. UsedTotal(d.shadow) \in Nat
      BY <1>3, UsedTyped
    <3>3. Cardinality(d.granted \cup {x}) =
            IF x \in d.granted THEN Cardinality(d.granted) ELSE Cardinality(d.granted) + 1
      BY <3>1, FS_AddElement
    <3>4. CASE g.gref # NoRef
      <4>1. x \in d.granted
        BY <1>2, <1>5, <1>7, <3>4 DEF AllOf
      <4>. QED  BY <1>1, <1>3, <1>15, <2>1, <3>2, <3>3, <3>4, <4>1
    <3>5. CASE g.gref = NoRef
      BY <1>1, <1>3, <1>15, <2>1, <3>2, <3>3, <3>5
    <3>. QED  BY <3>4, <3>5
  <2>6. Len(e.grants) + UsedTotal(e.shadow) <= RingSize * (MaxSegs + 1)
    <3>. DEFINE m == RingSize * (MaxSegs + 1)
    <3>1. m \in Nat /\ UsedTotal(d.shadow) \in Nat
      BY <1>3, RefsSet, UsedTyped
    <3>2. Len(d.grants) + UsedTotal(d.shadow) <= m
      BY <2>1
    <3>. HIDE DEF m
    <3>3. Len(e.grants) + UsedTotal(e.shadow) <= m
      BY <1>14, <1>15, <3>1, <3>2
    <3>. QED  BY <3>3 DEF m
  <2>. QED  BY <2>2, <2>3, <2>4, <2>5, <2>6 DEF CountOk, AllValid
<1>17. mapped \subseteq e.granted
  BY <1>1, <1>4
<1>. QED  BY <1>13, <1>14, <1>15, <1>16, <1>17 DEF GrantsOk, e

(* The next grant of an answered request goes back.                        *)
BackIn(d, g) == IF g.gref \in mapped THEN <<g>> \o d.grants
                ELSE Append(d.grants, [gref |-> NoRef, page |-> g.page])

(* Its page goes back as well if it is a frame's, not kept and not copied. *)
FrameBack(d, id) ==
    /\ Len(d.shadow[id].used) = 1 /\ d.shadow[id].req.n > Direct
    /\ Head(d.shadow[id].used).gref \notin mapped /\ ~feature_persistent

(* What a returned grant changes of the driver, field by field.            *)
LEMMA ReturnFields ==
  ASSUME NEW d \in Drivers, GrantsOk(d), NEW id \in Ids, d.shadow[id].used # <<>>
  PROVE  LET e == ReturnGrant(d, id)
             g == Head(d.shadow[id].used)
         IN  /\ Moved(d, e, id) /\ g \in Grants /\ g.gref # NoRef
             /\ e.shadow[id].used = Tail(d.shadow[id].used)
             /\ e.grants = BackIn(d, g)
             /\ e.count = IF g.gref \in mapped THEN d.count + 1 ELSE d.count
             /\ e.granted = IF g.gref \in mapped THEN d.granted ELSE d.granted \ {g.gref}
             /\ e.pages = IF FrameBack(d, id) THEN d.pages + 1 ELSE d.pages
<1>. DEFINE e == ReturnGrant(d, id)  used == d.shadow[id].used  g == Head(used)
            sh == [d.shadow EXCEPT ![id].used = Tail(@)]
<1>1. /\ d.grants \in Seq(Grants) /\ d.granted \subseteq Refs /\ d.count \in Nat
      /\ d.shadow \in [Ids -> Shadows] /\ d.shadow[id] \in Shadows /\ used \in Seq(Grants)
  BY DEF Drivers, Shadows
<1>2. g \in Grants /\ 1 \in 1..Len(used) /\ used[1] = g /\ Tail(used) \in Seq(Grants)
  <2>. HIDE DEF used
  <2>. QED  BY <1>1, TakeFirst DEF used
<1>3. g.gref # NoRef
  BY <1>2 DEF GrantsOk, CountOk
<1>4. e = [d EXCEPT !.shadow = sh,
                    !.grants = IF g.gref \in mapped THEN <<g>> \o @
                               ELSE Append(@, [gref |-> NoRef, page |-> g.page]),
                    !.count = IF g.gref \in mapped THEN @ + 1 ELSE @,
                    !.granted = IF g.gref \in mapped THEN @ ELSE @ \ {g.gref},
                    !.pages = IF FrameBack(d, id) THEN @ + 1 ELSE @]
  BY DEF ReturnGrant, FrameBack
<1>5. /\ sh \in [Ids -> Shadows] /\ sh[id].req = d.shadow[id].req
      /\ sh[id].used = Tail(used) /\ \A other \in Ids \ {id} : sh[other] = d.shadow[other]
  <2>. DEFINE v == [d.shadow[id] EXCEPT !.used = Tail(@)]
  <2>1. v \in Shadows /\ v.req = d.shadow[id].req /\ v.used = Tail(used)
    BY <1>1, <1>2 DEF Shadows
  <2>2. sh = [d.shadow EXCEPT ![id] = v]
    OBVIOUS
  <2>. HIDE DEF v, sh, used
  <2>. QED  BY <1>1, <2>1, <2>2
<1>6. BackIn(d, g) \in Seq(Grants)
  <2>1. [gref |-> NoRef, page |-> g.page] \in Grants
    BY <1>2 DEF Grants
  <2>. HIDE DEF g
  <2>. QED  BY <1>1, <1>2, <2>1 DEF BackIn
<1>. HIDE DEF g, sh, e
<1>7. /\ e.rq = d.rq /\ e.free = d.free /\ e.ring = d.ring /\ e.answers = d.answers
      /\ e.pending = d.pending /\ e.answered = d.answered /\ e.bug = d.bug
      /\ e.shadow = sh /\ e.grants = BackIn(d, g)
      /\ e.count = IF g.gref \in mapped THEN d.count + 1 ELSE d.count
      /\ e.granted = IF g.gref \in mapped THEN d.granted ELSE d.granted \ {g.gref}
      /\ e.pages = IF FrameBack(d, id) THEN d.pages + 1 ELSE d.pages
  BY <1>4 DEF Drivers, BackIn
<1>8. e.grants \in Seq(Grants) /\ e.count \in Nat /\ e.granted \subseteq Refs /\ e.pages \in Nat
  <2>1. d.pages \in Nat
    BY DEF Drivers
  <2>. QED  BY <1>1, <1>6, <1>7, <2>1
<1>9. e \in Drivers
  <2>1. e = [d EXCEPT !.shadow = e.shadow, !.grants = e.grants, !.count = e.count,
                      !.granted = e.granted, !.pages = e.pages]
    BY <1>4, <1>7 DEF BackIn, Drivers
  <2>2. e.shadow \in [Ids -> Shadows]
    BY <1>5, <1>7
  <2>. QED  BY <1>8, <2>1, <2>2 DEF Drivers
<1>10. Moved(d, e, id)
  BY <1>5, <1>7, <1>9 DEF Moved
<1>. QED  BY <1>2, <1>3, <1>5, <1>7, <1>10 DEF e, g

(* A returned grant leaves the accounts of the grants true.                *)
LEMMA ReturnKeeps ==
  ASSUME NEW d \in Drivers, GrantsOk(d), NEW id \in Ids, d.shadow[id].used # <<>>
  PROVE  LET e == ReturnGrant(d, id)
         IN  /\ GrantsOk(e) /\ UsedTotal(e.shadow) + 1 = UsedTotal(d.shadow)
             /\ Len(e.grants) = Len(d.grants) + 1
<1>. DEFINE e == ReturnGrant(d, id)  used == d.shadow[id].used  g == Head(used)
            x == g.gref  L == RefsIn(d.grants)  R == RefSets(d)
            L2 == RefsIn(e.grants)  R2 == RefSets(e)
            none == [gref |-> NoRef, page |-> g.page]
<1>1. /\ Moved(d, e, id) /\ g \in Grants /\ x # NoRef
      /\ e.shadow[id].used = Tail(used) /\ e.grants = BackIn(d, g)
      /\ e.count = IF x \in mapped THEN d.count + 1 ELSE d.count
      /\ e.granted = IF x \in mapped THEN d.granted ELSE d.granted \ {x}
  BY ReturnFields
<1>2. /\ d.grants \in Seq(Grants) /\ d.granted \subseteq Refs /\ d.count \in Nat
      /\ d.shadow \in [Ids -> Shadows] /\ used \in Seq(Grants)
      /\ e \in Drivers /\ e.shadow \in [Ids -> Shadows] /\ e.count \in Nat
  BY <1>1 DEF Moved, Drivers, Shadows
<1>3. HeldOnce(d) /\ CountOk(d) /\ mapped \subseteq d.granted
  BY DEF GrantsOk
<1>4. d.granted = AllOf(L, R) /\ Apart(L, R) /\ Once(d.grants)
      /\ \A o \in Ids : Once(d.shadow[o].used)
  BY <1>3, HeldSets
<1>5. /\ RefsIn(Tail(used)) = RefsIn(used) \ {x} /\ Once(Tail(used)) /\ x \in RefsIn(used)
  BY <1>1, <1>2, <1>4, RefsTail
<1>6. R2[id] = R[id] \ {x} /\ x \in R[id] /\ Once(e.shadow[id].used)
  BY <1>1, <1>5 DEF RefSets
<1>7. \A o \in Ids \ {id} : R2[o] = R[o] /\ Once(e.shadow[o].used)
  BY <1>1, <1>4 DEF Moved, RefSets
<1>8. none \in Grants /\ none.gref = NoRef
  BY <1>1 DEF Grants
<1>. HIDE DEF e, g, none
<1>9. x \notin L /\ x \in d.granted
  BY <1>4, <1>6 DEF Apart, AllOf
<1>10. /\ Once(e.grants)
       /\ x \in mapped => L2 = L \cup {x}
       /\ x \notin mapped => L2 = L
  <2>1. CASE x \in mapped
    <3>1. e.grants = <<g>> \o d.grants
      BY <1>1, <2>1 DEF BackIn
    <3>2. RefsIn(<<g>> \o d.grants) = L \cup ({x} \ {NoRef}) /\ Once(<<g>> \o d.grants)
      BY <1>1, <1>2, <1>4, <1>9, RefsCons
    <3>. HIDE DEF x
    <3>. QED  BY <1>1, <2>1, <3>1, <3>2
  <2>2. CASE x \notin mapped
    <3>1. e.grants = Append(d.grants, none)
      BY <1>1, <2>2 DEF BackIn, none
    <3>2. NoRef \notin RefsIn(d.grants)
      BY DEF RefsIn
    <3>3. RefsIn(Append(d.grants, none)) = L \cup ({NoRef} \ {NoRef})
          /\ Once(Append(d.grants, none))
      BY <1>2, <1>4, <1>8, <3>2, RefsAppend
    <3>. QED  BY <2>2, <3>1, <3>3
  <2>. QED  BY <2>1, <2>2
<1>11. Apart(L2, R2) /\ AllOf(L2, R2) = e.granted
  <2>. HIDE DEF L, R, L2, R2, x
  <2>1. \A o \in Ids \ {id} : R2[o] = R[o]
    BY <1>7
  <2>2. CASE x \in mapped
    <3>1. Kept(L, R, L2, R2)
      BY <1>4, <1>6, <1>10, <2>1, <2>2, SetsKeep
    <3>. QED  BY <1>1, <1>4, <2>2, <3>1 DEF Kept
  <2>3. CASE x \notin mapped
    <3>1. Ended(L, R, L2, R2, x)
      BY <1>4, <1>6, <1>10, <2>1, <2>3, SetsEnd
    <3>. QED  BY <1>1, <1>4, <2>3, <3>1 DEF Ended
  <2>. QED  BY <2>2, <2>3
<1>12. HeldOnce(e)
  <2>. HIDE DEF R2
  <2>1. \A o \in Ids : Once(e.shadow[o].used)
    BY <1>6, <1>7
  <2>. QED  BY <1>10, <1>11, <2>1, HeldSets DEF R2
<1>13. UsedTotal(e.shadow) + 1 = UsedTotal(d.shadow)
  <2>1. UsedTotal(e.shadow) + Len(used) = UsedTotal(d.shadow) + Len(e.shadow[id].used)
    BY <1>1, <1>2, UsedUpdate DEF Moved
  <2>2. Len(e.shadow[id].used) = Len(used) - 1 /\ Len(used) \in Nat
    BY <1>1, <1>2, TakeFirst
  <2>3. UsedTotal(e.shadow) \in Nat /\ UsedTotal(d.shadow) \in Nat
    BY <1>2, UsedTyped
  <2>. HIDE DEF used
  <2>. QED  BY <2>1, <2>2, <2>3
<1>14. Len(e.grants) = Len(d.grants) + 1
  BY <1>1, <1>2, <1>8, PutFirst, PutLast DEF BackIn, none
<1>15. CountOk(e)
  <2>1. /\ d.count \in 0..Len(d.grants) /\ Len(d.grants) \in Nat
        /\ \A i \in 1..Len(d.grants) : d.grants[i].gref # NoRef <=> i <= d.count
        /\ \A o \in Ids : AllValid(d.shadow[o].used)
        /\ Cardinality(d.granted) = d.count + UsedTotal(d.shadow)
        /\ Len(d.grants) + UsedTotal(d.shadow) <= RingSize * (MaxSegs + 1)
    BY <1>2, <1>3 DEF CountOk, AllValid
  <2>2. e.count \in 0..Len(e.grants)
    BY <1>1, <1>2, <1>14, <2>1
  <2>3. ASSUME NEW i \in 1..Len(e.grants) PROVE e.grants[i].gref # NoRef <=> i <= e.count
    <3>1. CASE x \in mapped
      <4>1. e.grants = <<g>> \o d.grants /\ e.count = d.count + 1
        BY <1>1, <3>1 DEF BackIn
      <4>2. /\ e.grants[1] = g
            /\ i # 1 => i - 1 \in 1..Len(d.grants) /\ e.grants[i] = d.grants[i - 1]
        BY <1>1, <1>2, <4>1, PutFirst
      <4>3. CASE i = 1
        BY <1>1, <1>2, <4>1, <4>2, <4>3
      <4>4. CASE i # 1
        <5>1. e.grants[i].gref # NoRef <=> i - 1 <= d.count
          BY <2>1, <4>2, <4>4
        <5>. QED  BY <1>2, <4>1, <5>1
      <4>. QED  BY <4>3, <4>4
    <3>2. CASE x \notin mapped
      <4>1. e.grants = Append(d.grants, none) /\ e.count = d.count
        BY <1>1, <3>2 DEF BackIn, none
      <4>2. /\ e.grants[Len(d.grants) + 1] = none
            /\ \A k \in 1..Len(d.grants) : e.grants[k] = d.grants[k]
            /\ i # Len(d.grants) + 1 => i \in 1..Len(d.grants)
        BY <1>2, <1>8, <4>1, PutLast
      <4>3. CASE i = Len(d.grants) + 1
        BY <1>2, <1>8, <2>1, <4>1, <4>2, <4>3
      <4>4. CASE i # Len(d.grants) + 1
        BY <2>1, <4>1, <4>2, <4>4
      <4>. QED  BY <4>3, <4>4
    <3>. QED  BY <3>1, <3>2
  <2>4. \A o \in Ids : AllValid(e.shadow[o].used)
    <3>1. AllValid(Tail(used))
      BY <1>2, <2>1, TakeFirst DEF AllValid
    <3>. QED  BY <1>1, <2>1, <3>1 DEF Moved
  <2>5. Cardinality(e.granted) = e.count + UsedTotal(e.shadow)
    <3>1. IsFiniteSet(d.granted) /\ UsedTotal(d.shadow) \in Nat /\ UsedTotal(e.shadow) \in Nat
      BY <1>2, RefsSet, FS_Subset, UsedTyped
    <3>2. Cardinality(d.granted \ {x}) = Cardinality(d.granted) - 1
      BY <1>9, <3>1, FS_RemoveElement
    <3>3. CASE x \in mapped
      BY <1>1, <1>2, <1>13, <2>1, <3>1, <3>3
    <3>4. CASE x \notin mapped
      <4>1. Cardinality(e.granted) = Cardinality(d.granted) - 1 /\ e.count = d.count
        BY <1>1, <3>2, <3>4
      <4>. DEFINE p == UsedTotal(d.shadow)  q == UsedTotal(e.shadow)
      <4>2. p \in Nat /\ q \in Nat /\ q + 1 = p /\ Cardinality(d.granted) = d.count + p
        BY <1>13, <2>1, <3>1
      <4>. HIDE DEF p, q
      <4>3. Cardinality(e.granted) = e.count + q
        <5>. DEFINE c == d.count
        <5>0. c \in Nat /\ p \in Nat /\ q \in Nat /\ q + 1 = p
          BY <1>2, <4>2
        <5>. HIDE DEF c
        <5>2. c + p = c + (q + 1) /\ (c + (q + 1)) - 1 = c + q
          BY <5>0
        <5>1. d.count + p = d.count + (q + 1) /\ (d.count + (q + 1)) - 1 = d.count + q
          BY <5>2 DEF c
        <5>. QED  BY <4>1, <4>2, <5>1
      <4>. QED  BY <4>3 DEF q
    <3>. QED  BY <3>3, <3>4
  <2>6. Len(e.grants) + UsedTotal(e.shadow) <= RingSize * (MaxSegs + 1)
    <3>1. UsedTotal(d.shadow) \in Nat /\ UsedTotal(e.shadow) \in Nat
      BY <1>2, UsedTyped
    <3>2. Len(e.grants) + UsedTotal(e.shadow) = Len(d.grants) + UsedTotal(d.shadow)
      <4>. DEFINE p == UsedTotal(d.shadow)  q == UsedTotal(e.shadow)
      <4>1. p \in Nat /\ q \in Nat /\ q + 1 = p
        BY <1>13, <3>1
      <4>. HIDE DEF p, q
      <4>2. Len(e.grants) + q = Len(d.grants) + p
        BY <1>14, <2>1, <4>1
      <4>. QED  BY <4>2 DEF p, q
    <3>. QED  BY <2>1, <3>2
  <2>. QED  BY <2>2, <2>3, <2>4, <2>5, <2>6 DEF CountOk, AllValid
<1>16. mapped \subseteq e.granted
  BY <1>1, <1>3
<1>. QED  BY <1>12, <1>13, <1>14, <1>15, <1>16 DEF GrantsOk, e

--------------------------------------------------------------------------------
(* A loop of m steps, each from what is allowed after i - 1 steps to what  *)
(* is allowed after i.                                                     *)
Runs(g, m, e, N, I) ==
    /\ g[0] = e /\ \A i \in 1..m : g[i] = N[g[i - 1]]
    /\ \A i \in 0..m : g[i] \in I[i]

(* A loop with an invariant has a run in which it holds throughout.        *)
LEMMA LoopRuns ==
  ASSUME NEW m \in Nat, NEW S, NEW e, NEW N, NEW I \in [0..m -> SUBSET S],
         e \in I[0], \A i \in 1..m : \A x \in I[i - 1] : N[x] \in I[i]
  PROVE  \E g \in [0..m -> S] : Runs(g, m, e, N, I)
<1>. DEFINE F == [p \in S \X (1..m) |-> IF N[p[1]] \in S THEN N[p[1]] ELSE p[1]]
<1>1. F \in [S \X (1..m) -> S]
  OBVIOUS
<1>2. 0 \in 0..m /\ e \in S
  OBVIOUS
<1>3. \E g \in [0..m -> S] : Recursion(g, m, e, F)
  <2>. HIDE DEF F
  <2>. QED  BY <1>1, <1>2, RecursionWorks
<1>. PICK g \in [0..m -> S] : Recursion(g, m, e, F)
  BY <1>3
<1>4. \A i \in 1..m : i - 1 \in 0..m /\ i \in 0..m
  OBVIOUS
<1>5. ASSUME NEW i \in 1..m, g[i - 1] \in I[i - 1] PROVE g[i] = N[g[i - 1]] /\ g[i] \in I[i]
  <2>1. N[g[i - 1]] \in I[i] /\ N[g[i - 1]] \in S /\ g[i - 1] \in S
    BY <1>4, <1>5
  <2>2. <<g[i - 1], i>> \in S \X (1..m)
    BY <2>1
  <2>3. F[<<g[i - 1], i>>] = N[g[i - 1]]
    BY <2>1, <2>2
  <2>4. g[i] = F[<<g[i - 1], i>>]
    <3>. HIDE DEF F
    <3>. QED  BY DEF Recursion
  <2>. QED  BY <2>1, <2>3, <2>4
<1>6. g[0] = e
  BY DEF Recursion
<1>. HIDE DEF F
<1>. DEFINE T == {i \in 0..m : g[i] \in I[i]}
<1>7. 0 \in T
  BY <1>2, <1>6
<1>8. \A i \in 1..m : i - 1 \in T => i \in T
  BY <1>4, <1>5
<1>9. \A i \in 0..m : i \in T
  <2>. HIDE DEF T
  <2>. QED  BY <1>7, <1>8, UpTo
<1>10. \A i \in 1..m : g[i] = N[g[i - 1]]
  BY <1>4, <1>5, <1>9
<1>. QED  BY <1>6, <1>9, <1>10 DEF Runs

(* Two functions that follow the same loop agree.                          *)
Follows(f, m, S, e, N) == f[0] = e /\ \A i \in 1..m : f[i - 1] \in S => f[i] = N[f[i - 1]]
Reaches(f, m, I) == f[m] \in I[m]

(* Any other run of the loop is that one.                                  *)
LEMMA LoopUnique ==
  ASSUME NEW m \in Nat, NEW S, NEW e, NEW N, NEW I, NEW g \in [0..m -> S],
         Runs(g, m, e, N, I), NEW f, Follows(f, m, S, e, N)
  PROVE  Reaches(f, m, I)
<1>. DEFINE T == {i \in 0..m : f[i] = g[i]}
<1>1. 0 \in T
  BY DEF Runs, Follows
<1>2. ASSUME NEW i \in 1..m, i - 1 \in T PROVE i \in T
  <2>1. i - 1 \in 0..m /\ i \in 0..m /\ f[i - 1] = g[i - 1] /\ g[i - 1] \in S
    BY <1>2
  <2>. QED  BY <2>1 DEF Runs, Follows
<1>3. \A i \in 0..m : i \in T
  <2>. HIDE DEF T
  <2>. QED  BY <1>1, <1>2, UpTo
<1>4. m \in 0..m /\ g[m] \in I[m]
  BY DEF Runs
<1>. QED  BY <1>3, <1>4 DEF Reaches

--------------------------------------------------------------------------------
(* Moving a grant touches neither the ids nor what is counted of bios.     *)
LEMMA MovedSame ==
  ASSUME NEW d \in Drivers, NEW id \in Ids, NEW e, Moved(d, e, id)
  PROVE  /\ Busy(e) = Busy(d) /\ Shadowed(e.shadow) = Shadowed(d.shadow)
         /\ IdsOk(d) => IdsOk(e)
         /\ BiosOk(d) => BiosOk(e)
         /\ SegsOk(d) => SegsOk(e)
<1>1. \A o \in Ids : e.shadow[o].req = d.shadow[o].req
  BY DEF Moved
<1>2. Busy(e) = Busy(d)
  BY <1>1 DEF Busy
<1>3. Shadowed(e.shadow) = Shadowed(d.shadow)
  BY <1>1, Indices DEF Shadowed
<1>4. /\ e.rq = d.rq /\ e.free = d.free /\ e.ring = d.ring /\ e.answers = d.answers
      /\ e.pending = d.pending /\ e.answered = d.answered
  BY DEF Moved
<1>5. IdsOk(d) => IdsOk(e)
  BY <1>2, <1>4 DEF IdsOk
<1>6. BiosOk(d) => BiosOk(e)
  BY <1>3, <1>4 DEF BiosOk
<1>7. SegsOk(d) => SegsOk(e)
  BY <1>1, <1>4 DEF SegsOk
<1>. QED  BY <1>2, <1>3, <1>5, <1>6, <1>7

(* A grant with that page may be put before the last of those id has: the  *)
(* frame's is the last of a large request.                                 *)
Fits(d, id, page, last) ==
    LET r == d.shadow[id].req  used == d.shadow[id].used
    IN  IF r.n > Direct /\ used = <<>> THEN page = "frame" /\ last = 0
        ELSE page = r.bio /\ last = Frames(r.n)

(* get_grant, for a request that has been placed.                          *)
LEMMA GetGrantKeeps ==
  ASSUME NEW d, Steady(d), d.grants # <<>>, NEW id \in Ids, NEW page \in Pages,
         NEW last \in 0..Len(d.shadow[id].used), Fits(d, id, page, last)
  PROVE  LET e == GetGrant(d, id, page, last)
         IN  /\ e.pages = d.pages /\ Steady(e) /\ Moved(d, e, id) /\ Len(e.grants) = Len(d.grants) - 1
             /\ Len(e.shadow[id].used) = Len(d.shadow[id].used) + 1
<1>. DEFINE put == IF feature_persistent THEN Head(d.grants).page ELSE page
            e == TakeGrant(d, id, put, last)  u == NextGrant(d, put)  g == Head(d.grants)
<1>1. /\ d \in Drivers /\ IdsOk(d) /\ BiosOk(d) /\ GrantsOk(d) /\ (Uniform => UniformOk(d))
      /\ Context
  BY DEF Steady
<1>2. /\ d.grants \in Seq(Grants) /\ d.shadow \in [Ids -> Shadows] /\ d.count \in Nat
      /\ d.shadow[id].used \in Seq(Grants) /\ d.shadow[id].req \in Requests \cup {NoRequest}
  BY <1>1 DEF Drivers, Shadows
<1>3. g = d.grants[1] /\ 1 \in 1..Len(d.grants) /\ g \in Grants
  BY <1>2, TakeFirst
<1>4. put \in Pages
  BY <1>3 DEF Grants
<1>5. e = GetGrant(d, id, page, last)
  BY DEF GetGrant
<1>. HIDE DEF put
<1>6. /\ Moved(d, e, id) /\ u \in Grants /\ u.gref \in Refs
      /\ e.shadow[id].used = PutIn(d.shadow[id].used, u, last) /\ e.pages = d.pages
      /\ e.grants = Tail(d.grants) /\ e.granted = d.granted \cup {u.gref}
      /\ e.count = IF g.gref # NoRef THEN d.count - 1 ELSE d.count
      /\ IF g.gref # NoRef THEN d.count > 0 ELSE d.count = 0 /\ u.gref \notin d.granted
  BY <1>1, <1>4, TakeFields
<1>7. /\ GrantsOk(e) /\ UsedTotal(e.shadow) = UsedTotal(d.shadow) + 1
      /\ Len(e.grants) = Len(d.grants) - 1
  BY <1>1, <1>4, TakeKeeps
<1>. HIDE DEF e
<1>8. Len(e.shadow[id].used) = Len(d.shadow[id].used) + 1
  BY <1>2, <1>6, PutInUsed DEF Inserted
<1>9. IdsOk(e) /\ BiosOk(e) /\ e \in Drivers
  BY <1>1, <1>6, MovedSame DEF Moved
<1>10. ASSUME Uniform PROVE UniformOk(e)
  <2>1. PagesOk(d) /\ SegsOk(d) /\ KeepsNone(d)
        /\ Len(d.grants) + UsedTotal(d.shadow) = RingSize * (host.segs + 1)
    BY <1>1, <1>10 DEF UniformOk
  <2>2. SegsOk(e)
    BY <1>1, <1>6, <2>1, MovedSame
  <2>3. KeepsNone(e)
    <3>1. SUFFICES ASSUME ~feature_persistent
                   PROVE  e.count = 0
                          /\ mapped \subseteq UNION {RefsIn(e.shadow[o].used) : o \in taken}
      BY DEF KeepsNone
    <3>2. d.count = 0 /\ mapped \subseteq UNION {RefsIn(d.shadow[o].used) : o \in taken}
      BY <2>1, <3>1 DEF KeepsNone
    <3>3. e.count = 0
      BY <1>6, <3>2
    <3>4. RefsIn(d.shadow[id].used) \subseteq RefsIn(e.shadow[id].used)
      <4>1. Inserted(d.shadow[id].used, Len(d.shadow[id].used) + 1 - last, u, e.shadow[id].used)
        BY Zenon, <1>2, <1>6, PutInUsed
      <4>. QED  BY <1>2, <1>6, <4>1, RefsInsert
    <3>5. ASSUME NEW o \in taken PROVE RefsIn(d.shadow[o].used) \subseteq RefsIn(e.shadow[o].used)
      <4>1. o \in Ids
        BY <1>1 DEF IdsOk, Busy
      <4>. QED  BY <1>6, <3>4, <4>1 DEF Moved
    <3>. QED  BY <3>2, <3>3, <3>5
  <2>4. PagesOk(e)
    <3>1. ASSUME feature_persistent, NEW i \in 1..Len(e.grants) PROVE e.grants[i].page = "bounce"
      <4>1. e.grants[i] = d.grants[i + 1] /\ i + 1 \in 1..Len(d.grants)
        BY <1>2, <1>6, TakeFirst
      <4>. QED  BY <2>1, <3>1, <4>1 DEF PagesOk
    <3>. DEFINE s == d.shadow[id].used  n == PutIn(s, u, last)  k == Len(s) + 1 - last
                q == d.shadow[id].req
    <3>2. u.page = IF feature_persistent THEN "bounce" ELSE page
      <4>1. CASE feature_persistent
        <5>1. g.page = "bounce"
          BY <1>3, <2>1, <4>1 DEF PagesOk
        <5>. QED  BY <4>1, <5>1 DEF NextGrant, put
      <4>2. CASE ~feature_persistent
        <5>1. d.count = 0
          BY <2>1, <4>2 DEF KeepsNone
        <5>2. g.gref = NoRef
          BY <1>6, <5>1
        <5>. QED  BY <4>2, <5>2 DEF NextGrant, put
      <4>. QED  BY <4>1, <4>2
    <3>3. /\ e.shadow[id].used = n /\ e.shadow[id].req = q /\ n[k] = u
          /\ Len(n) = Len(s) + 1 /\ Len(s) \in Nat /\ last \in 0..Len(s) /\ k \in Int
          /\ Inserted(s, k, u, n)
      <4>1. e.shadow[id].used = n /\ e.shadow[id].req = q /\ last \in 0..Len(s)
            /\ s \in Seq(Grants)
        BY Zenon, <1>2, <1>6 DEF Moved
      <4>2. Inserted(s, k, u, n)
        BY Zenon, <1>2, <1>6, PutInUsed
      <4>3. Len(s) \in Nat /\ k \in Int
        <5>. HIDE DEF s
        <5>. QED  BY <4>1
      <4>. HIDE DEF s, n, k, q
      <4>. QED  BY <4>1, <4>2, <4>3 DEF Inserted
    <3>8. /\ \A i \in 1..Len(n) : i < k => i \in 1..Len(s)
          /\ \A i \in 1..Len(s) : i < k => n[i] = s[i]
          /\ \A i \in 1..Len(n) : i > k => i - 1 \in 1..Len(s) /\ n[i] = s[i - 1]
      BY <3>3 DEF Inserted
    <3>4. \A i \in 1..Len(s) : s[i].page = PageOf(q, i, Len(s))
      BY <2>1 DEF PagesOk
    <3>5. IF q.n > Direct /\ Len(s) = 0 THEN page = "frame" /\ last = 0
          ELSE page = q.bio /\ last = IF q.n > Direct THEN 1 ELSE 0
      <4>1. s = <<>> <=> Len(s) = 0
        BY <1>2
      <4>. QED  BY <4>1 DEF Fits, Frames
    <3>. HIDE DEF s, n, k, q
    <3>6. ASSUME NEW i \in 1..Len(n) PROVE n[i].page = PageOf(q, i, Len(n))
      <4>1. CASE i = k
        <5>1. PageOf(q, k, Len(s) + 1) = IF feature_persistent THEN "bounce" ELSE page
          BY <3>3, <3>5 DEF PageOf, k
        <5>. QED  BY <3>2, <3>3, <4>1, <5>1
      <4>2. CASE i < k
        <5>1. i \in 1..Len(s) /\ n[i] = s[i]
          BY <3>8, <4>2
        <5>2. q.n > Direct => i # Len(s) /\ i # Len(s) + 1
          BY <3>3, <3>5, <4>2, <5>1 DEF k
        <5>. QED  BY <3>3, <3>4, <5>1, <5>2 DEF PageOf
      <4>3. CASE i > k
        <5>1. i - 1 \in 1..Len(s) /\ n[i] = s[i - 1]
          BY <3>8, <4>3
        <5>2. i = Len(s) + 1 <=> i - 1 = Len(s)
          BY <3>3
        <5>. QED  BY <3>3, <3>4, <5>1, <5>2 DEF PageOf
      <4>4. i = k \/ i < k \/ i > k
        BY <3>3
      <4>. QED  BY <4>1, <4>2, <4>3, <4>4
    <3>7. ASSUME NEW o \in Ids, NEW i \in 1..Len(e.shadow[o].used)
          PROVE e.shadow[o].used[i].page = PageOf(e.shadow[o].req, i, Len(e.shadow[o].used))
      <4>1. CASE o = id
        BY <3>3, <3>6, <3>7, <4>1
      <4>2. CASE o # id
        <5>1. e.shadow[o] = d.shadow[o]
          BY <1>6, <4>2 DEF Moved
        <5>. QED  BY <2>1, <3>7, <5>1 DEF PagesOk
      <4>. QED  BY <4>1, <4>2
    <3>. QED  BY <3>1, <3>7 DEF PagesOk
  <2>5. Len(e.grants) + UsedTotal(e.shadow) = RingSize * (host.segs + 1)
    <3>0. Len(d.grants) \in Nat
      BY <1>2
    <3>1. UsedTotal(d.shadow) \in Nat /\ Len(d.grants) \in Nat
      BY <1>2, <3>0, UsedTyped
    <3>2. Len(e.grants) + UsedTotal(e.shadow) = Len(d.grants) + UsedTotal(d.shadow)
      BY <1>7, <3>1
    <3>. QED  BY <2>1, <3>2
  <2>. QED  BY <2>2, <2>3, <2>4, <2>5 DEF UniformOk
<1>. QED  BY <1>1, <1>5, <1>6, <1>7, <1>8, <1>9, <1>10 DEF Steady

(* The places a request of a bio can be in, weighed together.              *)
Sum(d, w) == Weigh(d.rq, w) + Weigh(Shadowed(d.shadow), w) + Weigh(bio_list, w)
BiosSum(d) ==
    \A b \in Bios : /\ size[b] = d.answered[b] + Sum(d, PageW(b))
                    /\ d.pending[b] = Sum(d, PieceW(b))

(* BiosOk, in weights.                                                     *)
LEMMA BiosWeighed ==
  ASSUME bio_list \in Seq(Requests), NEW d \in Drivers
  PROVE  BiosOk(d) <=> BiosSum(d)
<1>1. d.rq \in Seq(Reqs) /\ bio_list \in Seq(Reqs) /\ d.shadow \in [Ids -> Shadows]
  BY DEF Drivers, Reqs
<1>2. Shadowed(d.shadow) \in Seq(Reqs)
  BY <1>1, ShadowedTyped
<1>3. ASSUME NEW b \in Bios
      PROVE  /\ PagesOf(b, d.rq) = Weigh(d.rq, PageW(b))
             /\ PagesOf(b, Shadowed(d.shadow)) = Weigh(Shadowed(d.shadow), PageW(b))
             /\ PagesOf(b, bio_list) = Weigh(bio_list, PageW(b))
             /\ PiecesOf(b, d.rq) = Weigh(d.rq, PieceW(b))
             /\ PiecesOf(b, Shadowed(d.shadow)) = Weigh(Shadowed(d.shadow), PieceW(b))
             /\ PiecesOf(b, bio_list) = Weigh(bio_list, PieceW(b))
  BY <1>1, <1>2, PagesWeighed
<1>4. ASSUME NEW b \in Bios
      PROVE  /\ Weigh(d.rq, PageW(b)) \in Nat /\ Weigh(Shadowed(d.shadow), PageW(b)) \in Nat
             /\ Weigh(bio_list, PageW(b)) \in Nat /\ d.answered[b] \in Int
  <2>1. PageW(b) \in [Reqs -> Nat]
    BY Weights
  <2>2. d.answered[b] \in Int
    BY DEF Drivers
  <2>. QED  BY <1>1, <1>2, <2>1, <2>2, WeighTyped
<1>5. ASSUME NEW b \in Bios, NEW p \in Int, NEW q \in Nat, NEW r \in Nat, NEW t \in Nat
      PROVE  p + q + r + t = p + (q + r + t)
  OBVIOUS
<1>6. ASSUME NEW b \in Bios
      PROVE  /\ d.answered[b] + PagesOf(b, d.rq) + PagesOf(b, Shadowed(d.shadow))
                  + PagesOf(b, bio_list) = d.answered[b] + Sum(d, PageW(b))
             /\ PiecesOf(b, d.rq) + PiecesOf(b, Shadowed(d.shadow)) + PiecesOf(b, bio_list)
                  = Sum(d, PieceW(b))
  BY <1>3, <1>4, <1>5 DEF Sum
<1>. QED  BY <1>6 DEF BiosOk, BiosSum

(* The weights of the queue, the shadows and the list of bios.             *)
LEMMA SumTyped ==
  ASSUME bio_list \in Seq(Requests), NEW d \in Drivers, NEW w \in [Reqs -> Nat]
  PROVE  /\ Weigh(d.rq, w) \in Nat /\ Weigh(Shadowed(d.shadow), w) \in Nat
         /\ Weigh(bio_list, w) \in Nat /\ Sum(d, w) \in Nat
<1>1. d.rq \in Seq(Reqs) /\ bio_list \in Seq(Reqs) /\ d.shadow \in [Ids -> Shadows]
  BY DEF Drivers, Reqs
<1>2. Shadowed(d.shadow) \in Seq(Reqs)
  BY <1>1, ShadowedTyped
<1>3. /\ Weigh(d.rq, w) \in Nat /\ Weigh(Shadowed(d.shadow), w) \in Nat
      /\ Weigh(bio_list, w) \in Nat
  BY <1>1, <1>2, WeighTyped
<1>. QED  BY <1>3 DEF Sum

(* The next request gets an id.                                            *)
Placed(d, e, id) ==
    /\ e \in Drivers /\ id = Head(d.free) /\ id \in Ids /\ id \notin Busy(d)
    /\ e.shadow = [d.shadow EXCEPT ![id] = [req |-> Head(d.rq), used |-> <<>>]]
    /\ Head(d.rq) \in Requests
    /\ e.rq = Tail(d.rq) /\ e.free = Tail(d.free) /\ e.ring = Append(d.ring, id)
    /\ e.answers = d.answers /\ e.grants = d.grants /\ e.count = d.count
    /\ e.granted = d.granted /\ e.pending = d.pending /\ e.answered = d.answered
    /\ e.bug = d.bug /\ e.pages = d.pages

(* What a request placed on the ring changes, field by field.              *)
LEMMA PlaceFields ==
  ASSUME NEW d \in Drivers, d.rq # <<>>, d.free # <<>>, IdsOk(d)
  PROVE  Placed(d, Place(d), Head(d.free))
<1>. DEFINE id == Head(d.free)  e == Place(d)  r == Head(d.rq)
            sh == [d.shadow EXCEPT ![id] = [req |-> r, used |-> <<>>]]
<1>1. /\ d.rq \in Seq(Requests) /\ d.free \in Seq(Ids) /\ d.ring \in Seq(Ids)
      /\ d.shadow \in [Ids -> Shadows]
  BY DEF Drivers
<1>2. /\ id \in Ids /\ r \in Requests /\ Tail(d.rq) \in Seq(Requests) /\ Tail(d.free) \in Seq(Ids)
      /\ 1 \in 1..Len(d.free) /\ id = d.free[1]
  BY <1>1, TakeFirst
<1>3. id \notin Busy(d)
  BY <1>2 DEF IdsOk, Members
<1>4. Append(d.ring, id) \in Seq(Ids)
  BY <1>1, <1>2
<1>5. sh \in [Ids -> Shadows]
  <2>1. [req |-> r, used |-> <<>>] \in Shadows
    BY <1>2 DEF Shadows
  <2>. QED  BY <1>1, <2>1
<1>6. e = [d EXCEPT !.rq = Tail(d.rq), !.free = Tail(d.free), !.ring = Append(d.ring, id),
                    !.shadow = sh]
  BY DEF Place
<1>. HIDE DEF id, r, sh, e
<1>7. e \in Drivers
  BY <1>2, <1>4, <1>5, <1>6 DEF Drivers
<1>8. /\ e.rq = Tail(d.rq) /\ e.free = Tail(d.free) /\ e.ring = Append(d.ring, id)
      /\ e.answers = d.answers /\ e.grants = d.grants /\ e.count = d.count
      /\ e.granted = d.granted /\ e.pending = d.pending /\ e.answered = d.answered
      /\ e.bug = d.bug /\ e.pages = d.pages /\ e.shadow = sh
  BY <1>6 DEF Drivers
<1>. QED  BY <1>2, <1>3, <1>7, <1>8 DEF Placed, id, r, sh, e

(* Its id was free and is now on the ring.                                 *)
LEMMA PlaceIds ==
  ASSUME NEW d \in Drivers, d.free # <<>>, IdsOk(d), NEW e, NEW id, Placed(d, e, id)
  PROVE  IdsOk(e)
<1>1. /\ d.free \in Seq(Ids) /\ d.ring \in Seq(Ids) /\ d.shadow \in [Ids -> Shadows]
      /\ id \in Ids /\ id = Head(d.free) /\ id \notin Busy(d)
  BY DEF Drivers, Placed
<1>2. NoRequest \notin Requests
  BY Constants DEF NoRequest, Requests
<1>3. Busy(e) = Busy(d) \cup {id}
  <2>1. e.shadow[id].req # NoRequest
    BY <1>1, <1>2 DEF Placed
  <2>2. \A o \in Ids \ {id} : e.shadow[o].req = d.shadow[o].req
    BY <1>1 DEF Placed
  <2>. QED  BY <1>1, <2>1, <2>2 DEF Busy
<1>4. /\ Members(d.free) = {id} \cup Members(e.free) /\ Injective(e.free)
      /\ id \notin Members(e.free)
  BY <1>1, MembersTail DEF IdsOk, Placed
<1>5. id \notin Members(d.ring) /\ id \notin taken /\ id \notin Members(d.answers)
  BY <1>1 DEF IdsOk
<1>6. Members(e.ring) = Members(d.ring) \cup {id} /\ Injective(e.ring)
  BY <1>1, <1>5, MembersAppend DEF IdsOk, Placed
<1>7. e.answers = d.answers
  BY DEF Placed
<1>8. Members(d.free) = Ids \ Busy(d)
  BY DEF IdsOk
<1>9. Members(e.free) = Ids \ Busy(e)
  BY <1>3, <1>4, <1>8
<1>. QED  BY <1>3, <1>4, <1>5, <1>6, <1>7, <1>9 DEF IdsOk

(* The request has moved from the queue to the shadows.                    *)
LEMMA PlaceSum ==
  ASSUME bio_list \in Seq(Requests), NEW d \in Drivers, d.rq # <<>>, NEW e, NEW id,
         Placed(d, e, id), NEW w \in [Reqs -> Nat], w[NoRequest] = 0
  PROVE  Sum(e, w) = Sum(d, w)
<1>1. /\ d.shadow \in [Ids -> Shadows] /\ e.shadow \in [Ids -> Shadows] /\ id \in Ids
      /\ d.rq \in Seq(Reqs) /\ e.rq = Tail(d.rq) /\ e \in Drivers
      /\ d.shadow[id].req = NoRequest /\ e.shadow[id].req = Head(d.rq)
      /\ \A o \in Ids \ {id} : e.shadow[o].req = d.shadow[o].req
  <2>1. d.shadow \in [Ids -> Shadows] /\ e.shadow \in [Ids -> Shadows] /\ id \in Ids
        /\ e.rq = Tail(d.rq) /\ e \in Drivers /\ id \notin Busy(d)
    BY DEF Drivers, Placed
  <2>2. e.shadow = [d.shadow EXCEPT ![id] = [req |-> Head(d.rq), used |-> <<>>]]
    BY DEF Placed
  <2>3. d.shadow[id].req = NoRequest
    BY <2>1 DEF Busy
  <2>4. e.shadow[id].req = Head(d.rq) /\ \A o \in Ids \ {id} : e.shadow[o].req = d.shadow[o].req
    BY <2>1, <2>2
  <2>5. d.rq \in Seq(Reqs)
    BY DEF Drivers, Reqs
  <2>. QED  BY <2>1, <2>3, <2>4, <2>5
<1>2. Weigh(Shadowed(e.shadow), w) + w[NoRequest]
        = Weigh(Shadowed(d.shadow), w) + w[Head(d.rq)]
  <2>1. Weigh(Shadowed(e.shadow), w) + w[d.shadow[id].req]
          = Weigh(Shadowed(d.shadow), w) + w[e.shadow[id].req]
    BY <1>1, WeighShadow
  <2>. QED  BY <1>1, <2>1
<1>3. Weigh(d.rq, w) = w[Head(d.rq)] + Weigh(e.rq, w)
  BY <1>1, WeighTail
<1>4. /\ Weigh(Shadowed(e.shadow), w) \in Nat /\ Weigh(Shadowed(d.shadow), w) \in Nat
      /\ Weigh(e.rq, w) \in Nat /\ Weigh(d.rq, w) \in Nat /\ Weigh(bio_list, w) \in Nat
  BY <1>1, SumTyped
<1>5. w[Head(d.rq)] \in Nat
  BY <1>1, TakeFirst
<1>. DEFINE p == Weigh(Shadowed(e.shadow), w)  q == Weigh(Shadowed(d.shadow), w)
            x == w[Head(d.rq)]  s == Weigh(e.rq, w)  t == Weigh(d.rq, w)  l == Weigh(bio_list, w)
<1>6. /\ p \in Nat /\ q \in Nat /\ x \in Nat /\ s \in Nat /\ t \in Nat /\ l \in Nat
      /\ p + 0 = q + x /\ t = x + s
  BY <1>2, <1>3, <1>4, <1>5
<1>. HIDE DEF p, q, x, s, t, l
<1>7. s + p + l = t + q + l
  BY <1>6
<1>. QED  BY <1>7 DEF Sum, p, q, s, t, l

(* A placed request, before its grants.                                    *)
LEMMA PlaceKeeps ==
  ASSUME NEW d, DriverOk(d), d.rq # <<>>, d.free # <<>>
  PROVE  LET e == Place(d)  id == Head(d.free)
         IN  /\ Steady(e) /\ Placed(d, e, id) /\ e.shadow[id].req = Head(d.rq)
             /\ e.shadow[id].used = <<>>
             /\ \A o \in Ids \ {id} : e.shadow[o] = d.shadow[o]
<1>. DEFINE e == Place(d)  id == Head(d.free)
<1>1. /\ d \in Drivers /\ IdsOk(d) /\ BiosOk(d) /\ GrantsOk(d) /\ (Uniform => UniformOk(d))
      /\ Context /\ Full(d) /\ bio_list \in Seq(Requests)
  BY DEF Steady, DriverOk, Context
<1>2. Placed(d, e, id)
  BY <1>1, PlaceFields
<1>. HIDE DEF e, id
<1>3. /\ d.shadow \in [Ids -> Shadows] /\ id \in Ids /\ d.rq \in Seq(Requests)
      /\ e \in Drivers /\ e.shadow \in [Ids -> Shadows]
  BY <1>1, <1>2 DEF Drivers, Placed
<1>4. /\ e.shadow[id].req = Head(d.rq) /\ e.shadow[id].used = <<>>
      /\ \A o \in Ids \ {id} : e.shadow[o] = d.shadow[o]
  BY <1>2, <1>3 DEF Placed
<1>5. d.shadow[id].used = <<>>
  <2>1. d.shadow[id].req = NoRequest /\ d.shadow[id].used \in Seq(Grants)
    BY <1>2, <1>3 DEF Placed, Busy, Shadows
  <2>2. Len(d.shadow[id].used) = 0
    <3>1. d.shadow[id].req.n = 0
      BY <2>1 DEF NoRequest
    <3>2. Len(d.shadow[id].used) = Need(d.shadow[id].req.n)
      BY <1>1, <1>3 DEF Full
    <3>. QED  BY <3>1, <3>2, Needs
  <2>. QED  BY <2>1, <2>2
<1>6. \A o \in Ids : e.shadow[o].used = d.shadow[o].used
  BY <1>4, <1>5
<1>7. UsedTotal(e.shadow) = UsedTotal(d.shadow)
  <2>1. UsedTotal(e.shadow) + Len(d.shadow[id].used)
          = UsedTotal(d.shadow) + Len(e.shadow[id].used)
    BY <1>3, <1>6, UsedUpdate
  <2>2. UsedTotal(e.shadow) \in Nat /\ UsedTotal(d.shadow) \in Nat
    BY <1>3, UsedTyped
  <2>3. Len(d.shadow[id].used) = 0 /\ Len(e.shadow[id].used) = 0
    BY <1>4, <1>5
  <2>. QED  BY <2>1, <2>2, <2>3
<1>8. e.grants = d.grants /\ e.count = d.count /\ e.granted = d.granted /\ e.rq = Tail(d.rq)
      /\ e.pending = d.pending /\ e.answered = d.answered
  BY <1>2 DEF Placed
<1>9. IdsOk(e)
  BY <1>1, <1>2, PlaceIds DEF id
<1>10. GrantsOk(e)
  <2>1. HeldOnce(d) /\ CountOk(d) /\ mapped \subseteq d.granted
    BY <1>1 DEF GrantsOk
  <2>2. HeldOnce(e)
    BY <1>6, <1>8, <2>1 DEF HeldOnce
  <2>3. CountOk(e)
    BY <1>6, <1>7, <1>8, <2>1 DEF CountOk
  <2>. QED  BY <1>8, <2>1, <2>2, <2>3 DEF GrantsOk
<1>11. BiosOk(e)
  <2>1. BiosSum(d)
    BY <1>1, BiosWeighed
  <2>2. ASSUME NEW b \in Bios
        PROVE  Sum(e, PageW(b)) = Sum(d, PageW(b)) /\ Sum(e, PieceW(b)) = Sum(d, PieceW(b))
    BY <1>1, <1>2, Weights, PlaceSum
  <2>3. BiosSum(e)
    BY <1>8, <2>1, <2>2 DEF BiosSum
  <2>. QED  BY <1>1, <1>3, <2>3, BiosWeighed
<1>12. ASSUME Uniform PROVE UniformOk(e)
  <2>1. PagesOk(d) /\ SegsOk(d) /\ KeepsNone(d)
        /\ Len(d.grants) + UsedTotal(d.shadow) = RingSize * (host.segs + 1)
    BY <1>1, <1>12 DEF UniformOk
  <2>2. PagesOk(e)
    <3>1. ASSUME NEW o \in Ids, NEW i \in 1..Len(e.shadow[o].used) PROVE e.shadow[o] = d.shadow[o]
      <4>1. o # id
        BY <1>4, <3>1
      <4>. QED  BY <1>4, <4>1
    <3>. QED  BY <1>8, <2>1, <3>1 DEF PagesOk
  <2>3. SegsOk(e)
    <3>1. /\ Head(d.rq) = d.rq[1] /\ 1 \in 1..Len(d.rq)
          /\ \A i \in 1..Len(e.rq) : i + 1 \in 1..Len(d.rq) /\ e.rq[i] = d.rq[i + 1]
      BY <1>3, <1>8, TakeFirst
    <3>2. \A i \in 1..Len(e.rq) : e.rq[i].n <= max_segments
      BY <2>1, <3>1 DEF SegsOk
    <3>3. d.rq[1].n <= max_segments /\ max_segments <= host.segs
      BY <2>1, <3>1 DEF SegsOk
    <3>4. d.rq[1].n <= host.segs
      <4>1. d.rq[1].n \in Int /\ host.segs \in Int /\ max_segments \in Int
        <5>1. d.rq[1] \in Requests
          BY <1>3, <3>1
        <5>2. d.rq[1].n \in Nat
          BY <5>1, Constants DEF Requests
        <5>3. host \in Hosts /\ max_segments \in Segs
          BY <1>1 DEF Context
        <5>4. host.segs \in Nat /\ max_segments \in Nat
          BY <5>3, Constants
        <5>. QED  BY <5>2, <5>4
      <4>. DEFINE n == d.rq[1].n  s == host.segs
      <4>2. n \in Int /\ s \in Int /\ max_segments \in Int /\ n <= max_segments /\ max_segments <= s
        BY <3>3, <4>1
      <4>. HIDE DEF n, s
      <4>3. n <= s
        BY <4>2
      <4>. QED  BY <4>3 DEF n, s
    <3>5. \A o \in Ids : e.shadow[o].req.n <= host.segs
      BY <1>4, <2>1, <3>1, <3>4 DEF SegsOk
    <3>. QED  BY <2>1, <3>2, <3>5 DEF SegsOk
  <2>4. KeepsNone(e)
    <3>1. \A o \in taken : e.shadow[o].used = d.shadow[o].used
      <4>1. taken \subseteq Ids
        BY <1>1 DEF Context
      <4>. QED  BY Zenon, <1>6, <4>1
    <3>. QED  BY <1>8, <2>1, <3>1 DEF KeepsNone
  <2>. QED  BY <1>7, <1>8, <2>1, <2>2, <2>3, <2>4 DEF UniformOk
<1>. QED  BY <1>1, <1>2, <1>3, <1>4, <1>9, <1>10, <1>11, <1>12 DEF Steady, e, id

--------------------------------------------------------------------------------
(* blkif_queue_request, grant by grant.                                    *)

(* What a driver is worth does not depend on its bug, nor on its pages.    *)
Beside(d, e) ==
    /\ d \in Drivers /\ e \in Drivers
    /\ e.rq = d.rq /\ e.free = d.free /\ e.ring = d.ring /\ e.answers = d.answers
    /\ e.shadow = d.shadow /\ e.grants = d.grants /\ e.count = d.count
    /\ e.granted = d.granted /\ e.pending = d.pending /\ e.answered = d.answered

LEMMA SteadyBeside ==
  ASSUME NEW d, Steady(d), NEW e, Beside(d, e)
  PROVE  Steady(e) /\ (Full(d) => Full(e))
<1>1. /\ e.rq = d.rq /\ e.free = d.free /\ e.ring = d.ring /\ e.answers = d.answers
      /\ e.shadow = d.shadow /\ e.grants = d.grants /\ e.count = d.count
      /\ e.granted = d.granted /\ e.pending = d.pending /\ e.answered = d.answered
      /\ e \in Drivers
  BY DEF Beside
<1>2. Busy(e) = Busy(d)
  BY <1>1 DEF Busy
<1>3. IdsOk(e) /\ BiosOk(e)
  <2>1. IdsOk(d) /\ BiosOk(d)
    BY DEF Steady
  <2>2. IdsOk(e)
    BY <1>1, <1>2, <2>1 DEF IdsOk
  <2>3. BiosOk(e)
    BY <1>1, <2>1 DEF BiosOk
  <2>. QED  BY <2>2, <2>3
<1>4. Full(d) => Full(e)
  BY <1>1 DEF Full
<1>5. HeldOnce(e) /\ CountOk(e) /\ mapped \subseteq e.granted
  <2>1. HeldOnce(d) /\ CountOk(d) /\ mapped \subseteq d.granted
    BY DEF Steady, GrantsOk
  <2>2. HeldOnce(e)
    <3>. DEFINE h == d.granted  g == d.grants  s == d.shadow
    <3>1. e.granted = h /\ e.grants = g /\ e.shadow = s
      BY <1>1
    <3>2. /\ h = RefsIn(g) \cup UNION {RefsIn(s[id].used) : id \in Ids} /\ Once(g)
          /\ \A id \in Ids :
                /\ Once(s[id].used) /\ RefsIn(s[id].used) \cap RefsIn(g) = {}
                /\ \A other \in Ids \ {id} : RefsIn(s[id].used) \cap RefsIn(s[other].used) = {}
      BY Zenon, <2>1 DEF HeldOnce
    <3>. HIDE DEF h, g, s
    <3>. QED  BY Zenon, <3>1, <3>2 DEF HeldOnce
  <2>3. CountOk(e)
    BY <1>1, <2>1 DEF CountOk
  <2>. QED  BY <1>1, <2>1, <2>2, <2>3
<1>6. Uniform => UniformOk(e)
  BY <1>1 DEF Steady, UniformOk, PagesOk, SegsOk, KeepsNone
<1>. QED  BY <1>1, <1>3, <1>4, <1>5, <1>6 DEF Steady, GrantsOk

(* Request id of d, placed, has i of its grants in x.                      *)
Filling(d, id, x, i) ==
    /\ Steady(x)
    /\ x.shadow[id].req = Head(d.rq) /\ Len(x.shadow[id].used) = Frames(Head(d.rq).n) + i
    /\ \A o \in Ids \ {id} : /\ Len(x.shadow[o].used) = Need(x.shadow[o].req.n)
                             /\ x.shadow[o].req = d.shadow[o].req
    /\ Len(x.grants) = Len(d.grants) - Frames(Head(d.rq).n) - i
    /\ x.pages = IF feature_persistent THEN d.pages ELSE d.pages - Frames(Head(d.rq).n)
    /\ x.rq = Tail(d.rq) /\ x.ring = Append(d.ring, id)
    /\ x.answers = d.answers /\ x.bug = d.bug

(* k requests have gone from the queue to the ring.                        *)
Queued(d, e, k) ==
    Len(e.rq) + k = Len(d.rq) /\ Len(e.ring) = Len(d.ring) + k /\ e.answers = d.answers

(* Before the loop over the pages: placed, and with its frame's grant.     *)
LEMMA TakeFrameKeeps ==
  ASSUME NEW d, DriverOk(d), d.rq # <<>>, CanQueue(d)
  PROVE  LET id == Head(d.free)
         IN  id \in Ids /\ id \notin Busy(d) /\ Filling(d, id, TakeFrame(Place(d), id), 0)
<1>. DEFINE id == Head(d.free)  r == Head(d.rq)  n == r.n  e0 == Place(d)
            g0 == GetGrant(e0, id, "frame", 0)
            e == TakeFrame(e0, id)
<1>1. /\ d \in Drivers /\ Full(d) /\ d.rq \in Seq(Requests) /\ d.grants \in Seq(Grants)
      /\ d.pages \in Nat
  BY DEF Steady, DriverOk, Drivers
<1>2. r \in Requests /\ n \in Nat /\ Len(d.grants) \in Nat
  <2>1. r \in Requests
    BY <1>1, TakeFirst
  <2>. QED  BY <1>1, <2>1, Constants DEF Requests
<1>3. /\ Need(n) <= Len(d.grants) /\ d.free # <<>> /\ n \in Nat
      /\ n > Direct /\ ~feature_persistent => d.pages > 0
  BY <1>2 DEF CanQueue
<1>4. /\ Steady(e0) /\ Placed(d, e0, id) /\ e0.shadow[id].req = r
      /\ e0.shadow[id].used = <<>> /\ \A o \in Ids \ {id} : e0.shadow[o] = d.shadow[o]
  BY <1>3, PlaceKeeps
<1>. HIDE DEF e0, id, r
<1>5. /\ id \in Ids /\ id \notin Busy(d) /\ e0 \in Drivers /\ e0.rq = Tail(d.rq)
      /\ e0.ring = Append(d.ring, id) /\ e0.answers = d.answers /\ e0.bug = d.bug
      /\ e0.grants = d.grants /\ e0.pages = d.pages
  BY <1>4 DEF Placed, id
<1>6. \A o \in Ids \ {id} : /\ Len(e0.shadow[o].used) = Need(e0.shadow[o].req.n)
                            /\ e0.shadow[o].req = d.shadow[o].req
  BY <1>1, <1>4 DEF Full
<1>7. CASE ~(n > Direct)
  <2>1. Frames(n) = 0 /\ e = e0
    BY <1>4, <1>7 DEF Frames, TakeFrame
  <2>2. Len(e0.shadow[id].used) = 0
    BY <1>4
  <2>3. Len(d.grants) = Len(d.grants) - 0 - 0 /\ d.pages = d.pages - 0
    BY <1>1, <1>2
  <2>. HIDE DEF e
  <2>4. Filling(d, id, e0, 0)
    <3>1. Frames(Head(d.rq).n) = 0
      BY <2>1 DEF r
    <3>2. Len(e0.shadow[id].used) = 0 + 0 /\ Len(e0.grants) = Len(d.grants) - 0 - 0
      BY <1>2, <1>5, <2>2
    <3>3. e0.pages = IF feature_persistent THEN d.pages ELSE d.pages - 0
      BY <1>5, <2>3
    <3>. QED  BY Zenon, <1>4, <1>5, <1>6, <3>1, <3>2, <3>3 DEF Filling, r
  <2>. QED  BY <1>5, <2>1, <2>4 DEF id, e0, e
<1>8. CASE n > Direct
  <2>1. Frames(n) = 1 /\ Need(n) > 0
    BY <1>2, <1>8 DEF Frames, Need
  <2>2. e0.grants # <<>>
    <3>1. Len(d.grants) > 0
      BY <1>2, <1>3, <2>1 DEF Need
    <3>. QED  BY <1>1, <1>5, <3>1
  <2>3. "frame" \in Pages /\ 0 \in 0..Len(e0.shadow[id].used) /\ Fits(e0, id, "frame", 0)
    <3>1. 0 \in 0..Len(e0.shadow[id].used)
      BY <1>4
    <3>. QED  BY <1>4, <1>8, <3>1 DEF Fits, Pages
  <2>4. /\ g0.pages = e0.pages /\ Steady(g0) /\ Moved(e0, g0, id)
        /\ Len(g0.grants) = Len(e0.grants) - 1
        /\ Len(g0.shadow[id].used) = Len(e0.shadow[id].used) + 1
    BY <1>4, <1>5, <2>2, <2>3, GetGrantKeeps
  <2>. HIDE DEF g0
  <2>. DEFINE p == IF feature_persistent THEN g0.pages ELSE g0.pages - 1
  <2>5. e = [g0 EXCEPT !.pages = p]
    <3>1. e0.shadow[id].req.n > Direct
      BY <1>4, <1>8
    <3>. QED  BY <3>1 DEF TakeFrame, g0
  <2>6. p \in Nat /\ p = IF feature_persistent THEN d.pages ELSE d.pages - 1
    BY <1>1, <1>3, <1>5, <1>8, <2>4
  <2>7. g0 \in Drivers
    BY <2>4 DEF Moved
  <2>. HIDE DEF e, p
  <2>8. Beside(g0, e) /\ e.pages = p /\ e.bug = g0.bug
    BY <2>5, <2>6, <2>7 DEF Drivers, Beside
  <2>9. Steady(e) /\ e.shadow = g0.shadow /\ e.grants = g0.grants /\ e.rq = g0.rq
        /\ e.ring = g0.ring /\ e.answers = g0.answers
    BY <2>4, <2>8, SteadyBeside DEF Beside
  <2>10. /\ e.shadow[id].req = r /\ Len(e.shadow[id].used) = 1
         /\ e.rq = Tail(d.rq) /\ e.ring = Append(d.ring, id) /\ e.answers = d.answers
         /\ e.bug = d.bug
    <3>1. Len(e0.shadow[id].used) = 0
      BY <1>4
    <3>. QED  BY <1>4, <1>5, <2>4, <2>8, <2>9, <3>1 DEF Moved
  <2>11. \A o \in Ids \ {id} : /\ Len(e.shadow[o].used) = Need(e.shadow[o].req.n)
                               /\ e.shadow[o].req = d.shadow[o].req
    <3>1. \A o \in Ids \ {id} : e.shadow[o] = e0.shadow[o]
      BY <2>4, <2>9 DEF Moved
    <3>. QED  BY <1>6, <3>1
  <2>12. Len(e.grants) = Len(d.grants) - 1 - 0
    BY <1>2, <1>5, <2>4, <2>9
  <2>13. Filling(d, id, e, 0)
    BY <2>1, <2>6, <2>8, <2>9, <2>10, <2>11, <2>12 DEF Filling, r
  <2>. QED  BY <1>5, <2>13 DEF id, e, e0
<1>. QED  BY <1>7, <1>8

(* blkif_queue_request: the loop over the pages, a grant for each.         *)
LEMMA QueueRequestKeeps ==
  ASSUME NEW d, DriverOk(d), d.rq # <<>>, CanQueue(d)
  PROVE  LET e == QueueRequest(d) IN DriverOk(e) /\ Queued(d, e, 1) /\ e.bug = d.bug
<1>. DEFINE id == Head(d.free)  n == Head(d.rq).n
            page == Head(d.rq).bio  last == Frames(n)
            e0 == TakeFrame(Place(d), id)
            Rec(g) == g = [i \in 0..n |-> IF i = 0 THEN e0 ELSE GetGrant(g[i - 1], id, page, last)]
            f == CHOOSE g : Rec(g)
            N == [x \in Drivers |-> GetGrant(x, id, page, last)]
            I == [i \in 0..n |-> {x \in Drivers : Filling(d, id, x, i)}]
<1>1. /\ d \in Drivers /\ Full(d) /\ d.rq \in Seq(Requests) /\ d.grants \in Seq(Grants)
      /\ d.free \in Seq(Ids) /\ d.ring \in Seq(Ids)
  BY DEF Steady, DriverOk, Drivers
<1>2. Head(d.rq) \in Requests /\ n \in Nat /\ Len(d.grants) \in Nat
  <2>1. Head(d.rq) \in Requests
    BY <1>1, TakeFirst
  <2>. QED  BY <1>1, <2>1, Constants DEF Requests
<1>3. Need(n) <= Len(d.grants) /\ Need(n) = n + last /\ last \in {0, 1} /\ page \in Pages
  BY <1>2 DEF CanQueue, Need, Frames, Requests, Pages
<1>4. id \in Ids /\ id \notin Busy(d) /\ Filling(d, id, e0, 0)
  BY TakeFrameKeeps
<1>5. id \in Ids
  BY <1>4
<1>. HIDE DEF page, last
<1>6. e0 \in I[0]
  <2>. HIDE DEF e0, id, n
  <2>1. e0 \in Drivers /\ 0 \in 0..n
    BY <1>2, <1>4 DEF Filling, Steady
  <2>. QED  BY <1>4, <2>1
<1>7. ASSUME NEW i \in 1..n, NEW x \in I[i - 1] PROVE N[x] \in I[i]
  <2>. DEFINE y == GetGrant(x, id, page, last)
  <2>1. i - 1 \in 0..n /\ i \in 0..n
    BY <1>2
  <2>2. x \in Drivers /\ Filling(d, id, x, i - 1)
    BY <2>1
  <2>3. /\ Steady(x) /\ x.shadow[id].req = Head(d.rq)
        /\ Len(x.shadow[id].used) = last + (i - 1)
        /\ \A o \in Ids \ {id} : /\ Len(x.shadow[o].used) = Need(x.shadow[o].req.n)
                                 /\ x.shadow[o].req = d.shadow[o].req
        /\ Len(x.grants) = Len(d.grants) - last - (i - 1)
        /\ x.rq = Tail(d.rq) /\ x.ring = Append(d.ring, id)
        /\ x.answers = d.answers /\ x.bug = d.bug
        /\ x.pages = IF feature_persistent THEN d.pages ELSE d.pages - last
    BY <2>2 DEF Filling, last
  <2>4. x.grants # <<>>
    <3>0. Len(x.grants) = Len(d.grants) - last - (i - 1)
      BY Zenon, <2>3
    <3>1. Len(x.grants) > 0
      BY <1>2, <1>3, <3>0
    <3>. QED  BY <3>1
  <2>. HIDE DEF y, id, n
  <2>0. last \in 0..Len(x.shadow[id].used) /\ Fits(x, id, page, last)
    <3>1. last \in 0..Len(x.shadow[id].used)
      BY <1>2, <1>3, <2>1, <2>3
    <3>2. last = 1 => x.shadow[id].used # <<>>
      <4>1. last = 1 => Len(x.shadow[id].used) > 0
        BY <1>2, <2>1, <2>3
      <4>. QED  BY <4>1
    <3>3. Head(d.rq).n > Direct => last = 1
      BY DEF last, Frames, n
    <3>. QED  BY <2>3, <3>1, <3>2, <3>3 DEF Fits, page, last, n
  <2>5. /\ Steady(y) /\ Moved(x, y, id) /\ Len(y.grants) = Len(x.grants) - 1
        /\ Len(y.shadow[id].used) = Len(x.shadow[id].used) + 1 /\ y.pages = x.pages
    BY <1>3, <1>5, <2>3, <2>4, <2>0, GetGrantKeeps DEF y
  <2>6. Len(y.grants) = Len(d.grants) - last - i /\ Len(y.shadow[id].used) = last + i
    <3>1. i \in Int /\ Len(d.grants) \in Int /\ last \in Int
      BY <1>2, <1>3, <2>1
    <3>2. Len(x.grants) = Len(d.grants) - last - (i - 1) /\ Len(x.shadow[id].used) = last + (i - 1)
      BY <2>3
    <3>. QED  BY <2>5, <3>1, <3>2
  <2>7. Filling(d, id, y, i) /\ y \in Drivers
    BY <2>3, <2>5, <2>6 DEF Filling, Moved, last, n
  <2>8. N[x] = y
    BY <2>2 DEF y
  <2>. QED  BY <2>1, <2>7, <2>8
<1>8. I \in [0..n -> SUBSET Drivers]
  OBVIOUS
<1>9. \E g \in [0..n -> Drivers] : Runs(g, n, e0, N, I)
  <2>. HIDE DEF N, I, n, e0
  <2>. QED  BY <1>2, <1>6, <1>7, <1>8, LoopRuns
<1>10. PICK g \in [0..n -> Drivers] : Runs(g, n, e0, N, I)
  BY <1>9
<1>11. Rec(g)
  <2>1. g[0] = e0 /\ \A i \in 1..n : g[i] = N[g[i - 1]]
    BY <1>10 DEF Runs
  <2>2. ASSUME NEW i \in 1..n PROVE g[i] = GetGrant(g[i - 1], id, page, last)
    <3>1. i - 1 \in 0..n /\ g[i - 1] \in Drivers
      BY <1>2
    <3>. QED  BY <2>1, <3>1
  <2>. HIDE DEF N, e0, id, n
  <2>. QED  BY <1>2, <2>1, <2>2
<1>12. Rec(f)
  <2>. HIDE DEF Rec
  <2>. QED  BY <1>11
<1>13. f[n] \in I[n]
  <2>1. f[0] = e0 /\ \A i \in 1..n : f[i] = GetGrant(f[i - 1], id, page, last)
    <3>. HIDE DEF f, id, n
    <3>. QED  BY <1>2, <1>12
  <2>2. Follows(f, n, Drivers, e0, N)
    <3>1. \A i \in 1..n : f[i - 1] \in Drivers => f[i] = N[f[i - 1]]
      <4>. HIDE DEF f, n, id, e0
      <4>. QED  BY <2>1
    <3>. HIDE DEF f, N, n, e0
    <3>. QED  BY <2>1, <3>1 DEF Follows
  <2>3. Reaches(f, n, I)
    <3>. HIDE DEF f, N, I, n, e0
    <3>. QED  BY <1>2, <1>10, <2>2, LoopUnique
  <2>. QED  BY <2>3 DEF Reaches
<1>14. QueueRequest(d) = f[n]
  BY DEF QueueRequest, page, last
<1>. HIDE DEF f
<1>15. Filling(d, id, f[n], n) /\ f[n] \in Drivers
  <2>1. n \in 0..n
    <3>1. n \in Nat
      BY <1>2
    <3>. HIDE DEF n, id, N, I, e0
    <3>. QED  BY <3>1
  <2>. HIDE DEF n, id
  <2>. QED  BY <1>13, <2>1
<1>. DEFINE e == f[n]
<1>. HIDE DEF e
<1>16. /\ Steady(e) /\ e.shadow[id].req = Head(d.rq) /\ Len(e.shadow[id].used) = last + n
       /\ \A o \in Ids \ {id} : /\ Len(e.shadow[o].used) = Need(e.shadow[o].req.n)
                                /\ e.shadow[o].req = d.shadow[o].req
       /\ e.rq = Tail(d.rq) /\ e.ring = Append(d.ring, id)
       /\ e.answers = d.answers /\ e.bug = d.bug
       /\ e.pages = IF feature_persistent THEN d.pages ELSE d.pages - last
  BY Zenon, <1>15 DEF Filling, e, last
<1>17. Full(e)
  <2>1. last + n = Need(n)
    BY <1>2, <1>3
  <2>2. Len(e.shadow[id].used) = Need(e.shadow[id].req.n)
    BY Zenon, <1>16, <2>1
  <2>. HIDE DEF id
  <2>. QED  BY <1>5, <1>16, <2>2 DEF Full
<1>19. ASSUME Uniform PROVE FramesOk(e)
  <2>. HIDE DEF id
  <2>1. SUFFICES ASSUME Indirect PROVE e.pages + Cardinality(Large(e.shadow)) = RingSize
    BY DEF FramesOk
  <2>2. d.pages + Cardinality(Large(d.shadow)) = RingSize
    BY <1>19, <2>1 DEF DriverOk, FramesOk
  <2>3. ~feature_persistent
    BY <2>1 DEF Indirect
  <2>4. d.shadow[id].req = NoRequest
    BY <1>4 DEF Busy
  <2>5. id \notin Large(d.shadow)
    <3>1. ~(0 > Direct)
      BY BlkAssumption
    <3>. QED  BY <2>4, <3>1 DEF Large, NoRequest
  <2>6. Large(e.shadow) = IF n > Direct THEN Large(d.shadow) \cup {id} ELSE Large(d.shadow)
    BY <1>5, <1>16, <2>5 DEF Large
  <2>7. IsFiniteSet(Large(d.shadow)) /\ Cardinality(Large(d.shadow)) \in Nat
    <3>1. IsFiniteSet(Large(d.shadow))
      BY Indices, FS_Subset DEF Large
    <3>. QED  BY <3>1, FS_CardinalityType
  <2>8. Cardinality(Large(d.shadow) \cup {id}) = Cardinality(Large(d.shadow)) + 1
    BY <2>5, <2>7, FS_AddElement
  <2>9. d.pages \in Nat /\ last = IF n > Direct THEN 1 ELSE 0
    BY <1>1 DEF Drivers, last, Frames
  <2>. HIDE DEF n
  <2>10. e.pages = d.pages - last
    BY <1>16, <2>3
  <2>11. CASE n > Direct
    BY <2>2, <2>6, <2>7, <2>8, <2>9, <2>10, <2>11
  <2>12. CASE ~(n > Direct)
    BY <2>2, <2>6, <2>7, <2>9, <2>10, <2>12
  <2>. QED  BY <2>11, <2>12
<1>18. Queued(d, e, 1)
  <2>1. Len(Tail(d.rq)) + 1 = Len(d.rq)
    BY <1>1
  <2>2. Len(Append(d.ring, id)) = Len(d.ring) + 1
    BY <1>1, <1>5
  <2>. HIDE DEF id
  <2>. QED  BY <1>16, <2>1, <2>2 DEF Queued
<1>. QED  BY Zenon, <1>14, <1>16, <1>17, <1>18, <1>19 DEF DriverOk, e

--------------------------------------------------------------------------------
(* The request function: several requests, as far as the ring has room.    *)

(* The number of elements of two sets apart.                               *)
LEMMA UnionCount ==
  ASSUME NEW S, IsFiniteSet(S), NEW T, IsFiniteSet(T), S \cap T = {}
  PROVE  Cardinality(S \cup T) = Cardinality(S) + Cardinality(T)
<1>1. Cardinality(S \cap T) = 0
  BY FS_EmptySet
<1>2. Cardinality(S) \in Nat /\ Cardinality(T) \in Nat
  BY FS_CardinalityType
<1>3. Cardinality(S \cup T) = Cardinality(S) + Cardinality(T) - Cardinality(S \cap T)
  BY FS_Union
<1>. QED  BY <1>1, <1>2, <1>3

(* The ids, counted: free, on the ring, taken, answered.                   *)
LEMMA IdsCount ==
  ASSUME NEW d \in Drivers, IdsOk(d)
  PROVE  /\ Len(d.free) + Cardinality(Busy(d)) = RingSize
         /\ Len(d.ring) + Cardinality(taken) + Len(d.answers) = Cardinality(Busy(d))
         /\ Cardinality(Busy(d)) \in Nat /\ Cardinality(taken) \in Nat
         /\ Len(d.free) \in Nat /\ Len(d.ring) \in Nat /\ Len(d.answers) \in Nat
<1>1. /\ d.free \in Seq(Ids) /\ d.ring \in Seq(Ids) /\ d.answers \in Seq(Ids)
      /\ Len(d.free) \in Nat /\ Len(d.ring) \in Nat /\ Len(d.answers) \in Nat
  <2>1. d.free \in Seq(Ids) /\ d.ring \in Seq(Ids) /\ d.answers \in Seq(Ids)
    BY DEF Drivers
  <2>. QED  BY <2>1
<1>. DEFINE B == Busy(d)  F == Members(d.free)  R == Members(d.ring)  A == Members(d.answers)
<1>2. /\ F = Ids \ B /\ R \cap taken = {} /\ A \cap taken = {} /\ R \cap A = {}
      /\ R \cup taken \cup A = B /\ B \subseteq Ids
  BY DEF IdsOk, Busy
<1>3. /\ IsFiniteSet(F) /\ Cardinality(F) = Len(d.free)
      /\ IsFiniteSet(R) /\ Cardinality(R) = Len(d.ring)
      /\ IsFiniteSet(A) /\ Cardinality(A) = Len(d.answers)
  BY <1>1, MembersCount DEF IdsOk
<1>. HIDE DEF B, F, R, A
<1>4. IsFiniteSet(B) /\ IsFiniteSet(taken)
      /\ Cardinality(B) \in Nat /\ Cardinality(taken) \in Nat
  <2>1. IsFiniteSet(B) /\ IsFiniteSet(taken)
    BY <1>2, Indices, FS_Subset
  <2>. QED  BY <2>1, FS_CardinalityType
<1>5. Cardinality(F) + Cardinality(B) = RingSize
  <2>1. F \cup B = Ids /\ F \cap B = {}
    BY <1>2
  <2>2. Cardinality(F \cup B) = Cardinality(F) + Cardinality(B)
    BY <1>3, <1>4, <2>1, UnionCount
  <2>. QED  BY <2>1, <2>2, Indices
<1>6. Cardinality(B) = Cardinality(R) + Cardinality(taken) + Cardinality(A)
  <2>1. /\ IsFiniteSet(R \cup taken)
        /\ Cardinality(R \cup taken) = Cardinality(R) + Cardinality(taken)
    BY <1>2, <1>3, <1>4, UnionCount, FS_Union
  <2>2. (R \cup taken) \cap A = {}
    BY <1>2
  <2>3. Cardinality((R \cup taken) \cup A) = Cardinality(R \cup taken) + Cardinality(A)
    BY <1>3, <2>1, <2>2, UnionCount
  <2>. QED  BY <1>2, <2>1, <2>3
<1>. QED  BY <1>1, <1>3, <1>4, <1>5, <1>6 DEF B

(* A next request within the limit claims no more references than have     *)
(* been reserved: those with one come first in the list.                   *)
LEMMA ClaimsFit ==
  ASSUME NEW d \in Drivers, CountOk(d), NEW n \in Nat, n = Head(d.rq).n, n <= max_segments,
         max_segments \in Nat, Need(n) <= Len(d.grants)
  PROVE  Claims(d) <= Reserved(d)
<1>. DEFINE k == Need(n)  m == MaxGrefs  C == {i \in 1..k : d.grants[i].gref = NoRef}
<1>1. k \in Nat /\ m \in Nat /\ k <= m
  BY Needs DEF MaxGrefs
<1>2. d.count \in Nat /\ d.grants \in Seq(Grants) /\ Len(d.grants) \in Nat
  <2>1. d.count \in Nat /\ d.grants \in Seq(Grants)
    BY DEF Drivers
  <2>. QED  BY <2>1
<1>3. Claims(d) = Cardinality(C) /\ Reserved(d) = IF d.count < m THEN m - d.count ELSE 0
  BY DEF Claims, Reserved
<1>4. k <= Len(d.grants)
  OBVIOUS
<1>. HIDE DEF k, m
<1>5. \A i \in C : i \in Nat /\ i <= k /\ ~(i <= d.count)
  BY <1>1, <1>2, <1>4 DEF CountOk
<1>. HIDE DEF C
<1>6. CASE d.count < m
  <2>. DEFINE c == d.count  S == (c + 1)..m
  <2>1. C \subseteq S
    BY <1>1, <1>2, <1>5
  <2>2. IsFiniteSet(S) /\ Cardinality(S) = m - c
    <3>1. c + 1 \in Int /\ m \in Int /\ ~(c + 1 > m) /\ m - (c + 1) + 1 = m - c
      BY <1>1, <1>2, <1>6
    <3>2. IsFiniteSet(S) /\ Cardinality(S) = IF c + 1 > m THEN 0 ELSE m - (c + 1) + 1
      BY <3>1, FS_Interval
    <3>. QED  BY <3>1, <3>2
  <2>3. Cardinality(C) <= Cardinality(S)
    BY <2>1, <2>2, FS_Subset
  <2>. QED  BY <1>3, <1>6, <2>2, <2>3
<1>7. CASE ~(d.count < m)
  <2>1. C = {}
    BY <1>1, <1>2, <1>5, <1>7
  <2>. QED  BY <1>3, <1>7, <2>1, FS_EmptySet
<1>. QED  BY <1>6, <1>7

(* An idle id leaves a page for the frame of its next request.             *)
LEMMA FrameLeft ==
  ASSUME NEW d \in Drivers, FramesOk(d), Indirect, NEW id \in Ids, id \notin Busy(d)
  PROVE  d.pages > 0
<1>1. id \notin Large(d.shadow)
  <2>1. d.shadow[id].req.n = 0 /\ ~(0 > Direct)
    BY BlkAssumption DEF Busy, NoRequest
  <2>. QED  BY <2>1 DEF Large
<1>2. IsFiniteSet(Ids \ {id}) /\ Cardinality(Ids \ {id}) = RingSize - 1
  BY Indices, FS_RemoveElement
<1>3. Large(d.shadow) \subseteq Ids \ {id}
  BY <1>1 DEF Large
<1>4. Cardinality(Large(d.shadow)) <= RingSize - 1 /\ Cardinality(Large(d.shadow)) \in Nat
  <2>1. IsFiniteSet(Large(d.shadow)) /\ Cardinality(Large(d.shadow)) <= Cardinality(Ids \ {id})
    BY <1>2, <1>3, FS_Subset
  <2>. QED  BY <1>2, <2>1, FS_CardinalityType
<1>5. d.pages + Cardinality(Large(d.shadow)) = RingSize /\ d.pages \in Nat /\ RingSize \in Nat
  BY Constants DEF FramesOk, Drivers
<1>. QED  BY <1>4, <1>5

(* Room on the ring means a free id, and with it all that is needed.       *)
LEMMA RoomToQueue ==
  ASSUME NEW d, DriverOk(d), d.rq # <<>>,
         Len(d.ring) + Cardinality(taken) + Len(d.answers) < RingSize
  PROVE  d.free # <<>> /\ (Uniform => CanQueue(d))
<1>1. /\ d \in Drivers /\ IdsOk(d) /\ Full(d) /\ Context /\ (Uniform => UniformOk(d))
      /\ CountOk(d) /\ (Uniform => FramesOk(d))
      /\ d.free \in Seq(Ids) /\ d.shadow \in [Ids -> Shadows] /\ d.rq \in Seq(Requests)
      /\ d.grants \in Seq(Grants)
  BY DEF DriverOk, Steady, Drivers, GrantsOk
<1>2. d.free # <<>>
  <2>1. Len(d.free) > 0
    <3>1. RingSize \in Nat
      BY Constants
    <3>. QED  BY <1>1, <3>1, IdsCount
  <2>. QED  BY <2>1
<1>. DEFINE id == Head(d.free)  c == host.segs  n == Head(d.rq).n
<1>3. id \in Ids /\ id \notin Busy(d)
  BY <1>1, <1>2, TakeFirst DEF IdsOk, Members
<1>4. d.shadow[id].used = <<>>
  <2>1. d.shadow[id].req = NoRequest /\ d.shadow[id].used \in Seq(Grants)
    BY <1>1, <1>3 DEF Busy, Shadows
  <2>2. Len(d.shadow[id].used) = 0
    <3>1. d.shadow[id].req.n = 0
      BY <2>1 DEF NoRequest
    <3>2. Len(d.shadow[id].used) = Need(d.shadow[id].req.n)
      BY <1>1, <1>3 DEF Full
    <3>. QED  BY <3>1, <3>2, Needs
  <2>. QED  BY <2>1, <2>2
<1>5. /\ c \in Nat /\ Head(d.rq) = d.rq[1] /\ 1 \in 1..Len(d.rq) /\ n \in Nat
      /\ max_segments \in Nat
  <2>1. Head(d.rq) = d.rq[1] /\ 1 \in 1..Len(d.rq) /\ d.rq[1] \in Requests
    BY <1>1, TakeFirst
  <2>2. d.rq[1].n \in Nat
    BY <2>1, Constants DEF Requests
  <2>3. c \in Nat
    BY <1>1, Constants DEF Context
  <2>4. max_segments \in Nat
    BY <1>1, Constants DEF Context
  <2>. QED  BY <2>1, <2>2, <2>3, <2>4
<1>. HIDE DEF id
<1>6. SUFFICES ASSUME Uniform PROVE CanQueue(d)
  BY <1>2
<1>7. /\ Len(d.grants) + UsedTotal(d.shadow) = RingSize * (c + 1)
      /\ n <= max_segments /\ max_segments <= c /\ \A o \in Ids : d.shadow[o].req.n <= c
  BY <1>1, <1>5, <1>6 DEF UniformOk, SegsOk
<1>8. Len(d.grants) >= Need(n)
  <2>1. ASSUME NEW o \in Ids PROVE Len(d.shadow[o].used) <= c + 1
    <3>. DEFINE p == d.shadow[o].req.n
    <3>1. p \in Nat /\ p <= c /\ Len(d.shadow[o].used) = Need(p)
      <4>1. d.shadow[o].req \in Requests \cup {NoRequest}
        BY <1>1 DEF Shadows
      <4>2. d.shadow[o].req.n \in Nat
        BY <4>1, Constants DEF Requests, NoRequest
      <4>. QED  BY <1>1, <1>7, <4>2 DEF Full
    <3>. HIDE DEF p, c
    <3>2. Need(p) \in Nat /\ Need(p) <= p + 1
      BY <3>1, Needs
    <3>. QED  BY <1>5, <3>1, <3>2
  <2>2. UsedTotal(d.shadow) + (c + 1) <= RingSize * (c + 1)
    <3>1. c + 1 \in Nat
      BY <1>5
    <3>. HIDE DEF c
    <3>. QED  BY <1>1, <1>3, <1>4, <2>1, <3>1, UsedBound
  <2>3. UsedTotal(d.shadow) \in Nat
    BY <1>1, UsedTyped
  <2>4. Need(n) \in Nat /\ Need(n) <= c + 1
    <3>1. Need(n) \in Nat /\ Need(n) <= n + 1
      BY <1>5, Needs
    <3>. HIDE DEF n, c
    <3>. QED  BY <1>5, <1>7, <3>1
  <2>. DEFINE p == RingSize * (c + 1)
  <2>5. p \in Nat /\ Len(d.grants) \in Nat
    <3>1. RingSize \in Nat /\ c + 1 \in Nat
      BY <1>5, Constants
    <3>. HIDE DEF c
    <3>. QED  BY <1>1, <3>1
  <2>. HIDE DEF p, n
  <2>. QED  BY <1>5, <1>7, <2>2, <2>3, <2>4, <2>5 DEF p
<1>9. Claims(d) <= Reserved(d)
  <2>1. Need(n) <= Len(d.grants)
    <3>1. Need(n) \in Nat
      <4>. HIDE DEF n
      <4>. QED  BY <1>5, Needs
    <3>2. Len(d.grants) \in Nat
      BY <1>1
    <3>. HIDE DEF n
    <3>. QED  BY <1>8, <3>1, <3>2
  <2>. HIDE DEF n
  <2>. QED  BY <1>1, <1>5, <1>7, <2>1, ClaimsFit DEF n
<1>10. ASSUME n > Direct, ~feature_persistent PROVE d.pages > 0
  <2>1. Indirect
    <3>1. c > Direct
      <4>1. Direct \in Nat
        BY BlkAssumption
      <4>. HIDE DEF n, c
      <4>. QED  BY <1>5, <1>7, <1>10, <4>1
    <3>. QED  BY <1>10, <3>1 DEF Indirect
  <2>. QED  BY <1>1, <1>3, <1>6, <2>1, FrameLeft
<1>. QED  BY <1>2, <1>7, <1>8, <1>9, <1>10 DEF CanQueue

(* A BUG_ON leaves the driver as it is.                                    *)
LEMMA BugOnly ==
  ASSUME NEW d, DriverOk(d), NEW e, e = [d EXCEPT !.bug = TRUE]
  PROVE  DriverOk(e) /\ e \in Drivers /\ e.bug = TRUE /\ e.answers = d.answers
<1>1. d \in Drivers /\ Steady(d) /\ Full(d) /\ (Uniform => FramesOk(d))
  BY DEF DriverOk, Steady
<1>2. Beside(d, e) /\ e.pages = d.pages /\ e.bug = TRUE
  BY <1>1 DEF Drivers, Beside
<1>3. Steady(e) /\ Full(e)
  BY <1>1, <1>2, SteadyBeside
<1>4. Uniform => FramesOk(e)
  BY <1>1, <1>2 DEF FramesOk, Beside
<1>. QED  BY <1>2, <1>3, <1>4 DEF DriverOk, Beside

Queueing(d, x, i) ==
    /\ DriverOk(x) /\ x.answers = d.answers
    /\ x.bug = FALSE => Queued(d, x, i)
    /\ Uniform => x.bug = FALSE

(* The next round of the request function, with its BUG_ONs.               *)
QueueNext(x) == IF x.bug \/ ~CanQueue(x) THEN [x EXCEPT !.bug = TRUE] ELSE QueueRequest(x)

(* One turn of the loop of do_blkif_request.                               *)
LEMMA QueueNextKeeps ==
  ASSUME NEW d \in Drivers, NEW i \in Nat \ {0}, i <= Len(d.rq), Len(d.rq) \in Nat,
         Len(d.ring) + Cardinality(taken) + Len(d.answers) + i <= RingSize,
         NEW x, Queueing(d, x, i - 1)
  PROVE  Queueing(d, QueueNext(x), i)
<1>1. DriverOk(x) /\ x \in Drivers /\ x.answers = d.answers /\ Context /\ x.bug \in BOOLEAN
      /\ IdsOk(x)
  BY DEF Queueing, DriverOk, Steady, Drivers
<1>2. /\ Len(x.rq) \in Nat /\ Len(x.ring) \in Nat /\ Len(x.answers) \in Nat
      /\ Cardinality(taken) \in Nat
  <2>1. x.rq \in Seq(Requests)
    BY <1>1 DEF Drivers
  <2>2. Len(x.rq) \in Nat
    BY <2>1
  <2>. QED  BY <1>1, <2>2, IdsCount
<1>3. RingSize \in Nat /\ Len(d.ring) \in Nat
  <2>1. d.ring \in Seq(Ids)
    BY DEF Drivers
  <2>2. Len(d.ring) \in Nat
    BY <2>1
  <2>. QED  BY <2>2, Constants
<1>4. ASSUME x.bug = FALSE
      PROVE  /\ Queued(d, x, i - 1) /\ x.rq # <<>>
             /\ Len(x.ring) + Cardinality(taken) + Len(x.answers) < RingSize
  <2>1. Queued(d, x, i - 1)
    BY <1>4 DEF Queueing
  <2>2. Len(x.rq) + (i - 1) = Len(d.rq) /\ Len(x.ring) = Len(d.ring) + (i - 1)
        /\ x.answers = d.answers
    BY <2>1 DEF Queued
  <2>3. Len(x.rq) > 0
    BY <1>2, <2>2
  <2>4. Len(x.ring) + Cardinality(taken) + Len(x.answers) < RingSize
    <3>1. Len(x.ring) = Len(d.ring) + (i - 1) /\ x.answers = d.answers
      BY <2>2
    <3>. DEFINE A == Len(d.ring)  B == Cardinality(taken)  C == Len(d.answers)
    <3>2. A \in Nat /\ B \in Nat /\ C \in Nat /\ A + B + C + i <= RingSize
      BY <1>1, <1>2, <1>3
    <3>3. Len(x.ring) = A + (i - 1) /\ Len(x.answers) = C
      BY <3>1
    <3>. HIDE DEF A, B, C
    <3>4. (A + (i - 1)) + B + C < RingSize
      BY <1>3, <3>2
    <3>. QED  BY <3>3, <3>4 DEF B
  <2>5. x.rq # <<>>
    BY <2>3
  <2>. QED  BY <2>1, <2>4, <2>5
<1>5. CASE x.bug \/ ~CanQueue(x)
  <2>. DEFINE y == [x EXCEPT !.bug = TRUE]
  <2>1. DriverOk(y) /\ y.bug = TRUE /\ y.answers = x.answers
    BY <1>1, BugOnly
  <2>2. ~Uniform
    <3>1. SUFFICES ASSUME Uniform PROVE FALSE
      OBVIOUS
    <3>2. x.bug = FALSE
      BY <3>1 DEF Queueing
    <3>3. CanQueue(x)
      BY <1>1, <1>4, <3>1, <3>2, RoomToQueue
    <3>. QED  BY <1>5, <3>2, <3>3
  <2>3. QueueNext(x) = y
    BY <1>5 DEF QueueNext
  <2>. HIDE DEF y
  <2>. QED  BY <1>1, <2>1, <2>2, <2>3 DEF Queueing
<1>6. CASE ~(x.bug \/ ~CanQueue(x))
  <2>. DEFINE y == QueueRequest(x)
  <2>1. x.bug = FALSE /\ CanQueue(x)
    BY <1>1, <1>6
  <2>2. DriverOk(y) /\ Queued(x, y, 1) /\ y.bug = x.bug
    BY <1>1, <1>4, <2>1, QueueRequestKeeps
  <2>3. QueueNext(x) = y
    BY <1>6 DEF QueueNext
  <2>. HIDE DEF y
  <2>4. Queued(d, y, i)
    <3>1. /\ Len(y.rq) + 1 = Len(x.rq) /\ Len(y.ring) = Len(x.ring) + 1 /\ y.answers = x.answers
          /\ Len(x.rq) + (i - 1) = Len(d.rq) /\ Len(x.ring) = Len(d.ring) + (i - 1)
      BY <1>4, <2>1, <2>2 DEF Queued
    <3>2. Len(y.rq) \in Nat
      <4>1. y.rq \in Seq(Requests)
        BY <2>2 DEF DriverOk, Steady, Drivers
      <4>. QED  BY <4>1
    <3>3. Len(y.rq) + i = Len(d.rq) /\ Len(y.ring) = Len(d.ring) + i
      <4>. DEFINE a == Len(y.rq)  b == Len(x.rq)  c == Len(d.rq)
                  p == Len(y.ring)  q == Len(x.ring)  r == Len(d.ring)
      <4>1. /\ a \in Int /\ b \in Int /\ c \in Int /\ q \in Int /\ r \in Int /\ i \in Int
            /\ a + 1 = b /\ p = q + 1 /\ b + (i - 1) = c /\ q = r + (i - 1)
        BY <1>2, <1>3, <3>1, <3>2
      <4>. HIDE DEF a, b, c, p, q, r
      <4>2. a + i = c /\ p = r + i
        BY <4>1
      <4>. QED  BY <4>2 DEF a, c, p, r
    <3>. QED  BY <1>1, <3>1, <3>3 DEF Queued
  <2>. QED  BY <1>1, <2>1, <2>2, <2>3, <2>4 DEF Queueing, Queued
<1>. QED  BY <1>5, <1>6

(* So many requests leave the queue, unless a BUG_ON stops the guest.      *)
LEMMA QueueManyKeeps ==
  ASSUME NEW d, DriverOk(d), d.bug = FALSE, NEW k \in Nat, k <= Len(d.rq),
         Len(d.ring) + Cardinality(taken) + Len(d.answers) + k <= RingSize
  PROVE  Queueing(d, QueueMany(d, k), k)
<1>. DEFINE Rec(g) == g = [i \in 0..k |->
                             IF i = 0 THEN d
                             ELSE IF g[i - 1].bug \/ ~CanQueue(g[i - 1])
                                  THEN [g[i - 1] EXCEPT !.bug = TRUE]
                             ELSE QueueRequest(g[i - 1])]
            f == CHOOSE g : Rec(g)
            N == [x \in Drivers |-> QueueNext(x)]
            I == [i \in 0..k |-> {x \in Drivers : Queueing(d, x, i)}]
<1>1. /\ d \in Drivers /\ d.rq \in Seq(Requests) /\ d.ring \in Seq(Ids) /\ d.answers \in Seq(Ids)
      /\ IdsOk(d)
  BY DEF DriverOk, Steady, Drivers
<1>2. /\ Len(d.rq) \in Nat /\ Len(d.ring) \in Nat /\ Len(d.answers) \in Nat
      /\ Cardinality(taken) \in Nat /\ RingSize \in Nat
  <2>1. Len(d.rq) \in Nat
    BY <1>1
  <2>. QED  BY <1>1, <2>1, IdsCount, Constants
<1>3. d \in I[0]
  <2>1. Queued(d, d, 0)
    BY <1>2 DEF Queued
  <2>2. Queueing(d, d, 0)
    BY <2>1 DEF Queueing
  <2>. QED  BY <1>1, <2>2
<1>4. ASSUME NEW i \in 1..k, NEW x \in I[i - 1] PROVE N[x] \in I[i]
  <2>1. i - 1 \in 0..k /\ i \in 0..k /\ i \in Nat \ {0} /\ i <= Len(d.rq) /\ i <= k
    BY <1>2
  <2>2. x \in Drivers /\ Queueing(d, x, i - 1)
    BY <2>1
  <2>3. Len(d.ring) + Cardinality(taken) + Len(d.answers) + i <= RingSize
    <3>. DEFINE z == Len(d.ring) + Cardinality(taken) + Len(d.answers)
    <3>1. z \in Nat
      BY <1>2
    <3>2. z + k <= RingSize
      OBVIOUS
    <3>. HIDE DEF z
    <3>3. z + i <= RingSize
      BY <1>2, <2>1, <3>1, <3>2
    <3>. QED  BY <3>3 DEF z
  <2>4. Queueing(d, QueueNext(x), i)
    BY <1>1, <1>2, <2>1, <2>2, <2>3, QueueNextKeeps
  <2>5. QueueNext(x) \in Drivers
    BY <2>4 DEF Queueing, DriverOk, Steady
  <2>. QED  BY <2>1, <2>2, <2>4, <2>5
<1>5. I \in [0..k -> SUBSET Drivers]
  OBVIOUS
<1>6. \E g \in [0..k -> Drivers] : Runs(g, k, d, N, I)
  <2>. HIDE DEF N, I
  <2>. QED  BY <1>3, <1>4, <1>5, LoopRuns
<1>7. PICK g \in [0..k -> Drivers] : Runs(g, k, d, N, I)
  BY <1>6
<1>8. Rec(g)
  <2>1. g[0] = d /\ \A i \in 1..k : g[i] = N[g[i - 1]]
    BY <1>7 DEF Runs
  <2>2. ASSUME NEW i \in 1..k PROVE g[i] = QueueNext(g[i - 1])
    <3>1. i - 1 \in 0..k /\ g[i - 1] \in Drivers
      OBVIOUS
    <3>. QED  BY <2>1, <3>1
  <2>3. g = [i \in 0..k |-> IF i = 0 THEN d ELSE QueueNext(g[i - 1])]
    <3>. HIDE DEF N
    <3>. QED  BY <2>1, <2>2
  <2>. QED  BY <2>3 DEF QueueNext
<1>9. Rec(f)
  <2>. HIDE DEF Rec
  <2>. QED  BY <1>8
<1>10. f[k] \in I[k]
  <2>1. f[0] = d /\ \A i \in 1..k : f[i] = QueueNext(f[i - 1])
    <3>. HIDE DEF f
    <3>1. f = [i \in 0..k |-> IF i = 0 THEN d ELSE QueueNext(f[i - 1])]
      BY <1>9 DEF QueueNext
    <3>. HIDE DEF Rec
    <3>. QED  BY <3>1
  <2>2. Follows(f, k, Drivers, d, N)
    <3>. HIDE DEF f
    <3>1. \A i \in 1..k : f[i - 1] \in Drivers => f[i] = N[f[i - 1]]
      BY <2>1
    <3>. HIDE DEF N
    <3>. QED  BY <2>1, <3>1 DEF Follows
  <2>3. Reaches(f, k, I)
    <3>. HIDE DEF f, N, I
    <3>. QED  BY <1>7, <2>2, LoopUnique
  <2>. QED  BY <2>3 DEF Reaches
<1>11. QueueMany(d, k) = f[k]
  BY DEF QueueMany
<1>. HIDE DEF f
<1>12. k \in 0..k
  OBVIOUS
<1>. QED  BY <1>10, <1>11, <1>12

--------------------------------------------------------------------------------
(* The last grant of a large request is its frame's.                       *)
FrameLast(d, id) ==
    IF Len(d.shadow[id].used) = 1 /\ d.shadow[id].req.n > Direct THEN 1 ELSE 0

(* blkif_completion: a grant of a request the back end has answered.       *)
LEMMA ReturnGrantKeeps ==
  ASSUME NEW d, Steady(d), NEW id \in Ids, id \notin taken, d.shadow[id].used # <<>>
  PROVE  LET e == ReturnGrant(d, id)
         IN  /\ Steady(e) /\ Moved(d, e, id)
             /\ e.shadow[id].used = Tail(d.shadow[id].used)
             /\ Uniform /\ ~feature_persistent => e.pages = d.pages + FrameLast(d, id)
<1>. DEFINE e == ReturnGrant(d, id)  used == d.shadow[id].used  g == Head(used)
<1>1. /\ d \in Drivers /\ IdsOk(d) /\ BiosOk(d) /\ GrantsOk(d) /\ (Uniform => UniformOk(d))
      /\ Context
  BY DEF Steady
<1>2. /\ d.grants \in Seq(Grants) /\ d.shadow \in [Ids -> Shadows] /\ d.count \in Nat
      /\ used \in Seq(Grants)
  BY <1>1 DEF Drivers, Shadows
<1>3. /\ Moved(d, e, id) /\ g \in Grants /\ g.gref # NoRef
      /\ e.shadow[id].used = Tail(used)
      /\ e.grants = BackIn(d, g)
      /\ e.count = IF g.gref \in mapped THEN d.count + 1 ELSE d.count
      /\ e.granted = IF g.gref \in mapped THEN d.granted ELSE d.granted \ {g.gref}
      /\ e.pages = IF FrameBack(d, id) THEN d.pages + 1 ELSE d.pages
  BY <1>1, ReturnFields
<1>4. /\ GrantsOk(e) /\ UsedTotal(e.shadow) + 1 = UsedTotal(d.shadow)
      /\ Len(e.grants) = Len(d.grants) + 1
  BY <1>1, ReturnKeeps
<1>. HIDE DEF e
<1>5. /\ g = used[1] /\ 1 \in 1..Len(used)
      /\ \A i \in 1..Len(Tail(used)) : i + 1 \in 1..Len(used) /\ Tail(used)[i] = used[i + 1]
  <2>. HIDE DEF used
  <2>. QED  BY <1>2, TakeFirst DEF used
<1>6. IdsOk(e) /\ BiosOk(e) /\ e \in Drivers
  BY <1>1, <1>3, MovedSame DEF Moved
<1>7. \A o \in Ids \ {id} : e.shadow[o] = d.shadow[o]
  BY <1>3 DEF Moved
<1>8. ASSUME Uniform, ~feature_persistent
      PROVE  /\ d.count = 0 /\ g.gref \notin mapped
             /\ mapped \subseteq UNION {RefsIn(e.shadow[o].used) : o \in taken}
  <2>1. d.count = 0 /\ mapped \subseteq UNION {RefsIn(d.shadow[o].used) : o \in taken}
    BY <1>1, <1>8 DEF UniformOk, KeepsNone
  <2>2. \A o \in taken : o \in Ids \ {id}
    BY <1>1 DEF Context
  <2>3. g.gref \in RefsIn(used)
    BY <1>3, <1>5 DEF RefsIn
  <2>4. \A o \in taken : RefsIn(used) \cap RefsIn(d.shadow[o].used) = {}
    BY <1>1, <2>2 DEF GrantsOk, HeldOnce
  <2>5. g.gref \notin mapped
    BY <2>1, <2>3, <2>4
  <2>6. \A o \in taken : e.shadow[o] = d.shadow[o]
    BY <1>7, <2>2
  <2>. QED  BY <2>1, <2>5, <2>6
<1>9. ASSUME Uniform PROVE UniformOk(e)
  <2>1. PagesOk(d) /\ SegsOk(d) /\ KeepsNone(d)
        /\ Len(d.grants) + UsedTotal(d.shadow) = RingSize * (host.segs + 1)
    BY <1>1, <1>9 DEF UniformOk
  <2>2. SegsOk(e)
    BY <1>1, <1>3, <2>1, MovedSame
  <2>3. KeepsNone(e)
    <3>1. ~feature_persistent => e.count = 0
      BY <1>3, <1>8, <1>9
    <3>. QED  BY <1>8, <1>9, <3>1 DEF KeepsNone
  <2>4. PagesOk(e)
    <3>1. ASSUME feature_persistent, NEW i \in 1..Len(e.grants) PROVE e.grants[i].page = "bounce"
      <4>. DEFINE b == [gref |-> NoRef, page |-> g.page]
      <4>1. g.page = "bounce" /\ \A j \in 1..Len(d.grants) : d.grants[j].page = "bounce"
        <5>1. used[1].page = PageOf(d.shadow[id].req, 1, Len(used))
          BY <1>5, <2>1 DEF PagesOk
        <5>2. g.page = "bounce"
          BY <1>5, <3>1, <5>1 DEF PageOf
        <5>. HIDE DEF g
        <5>. QED  BY <2>1, <3>1, <5>2 DEF PagesOk
      <4>2. b \in Grants /\ b.page = g.page
        BY <1>3 DEF Grants
      <4>. HIDE DEF g, b
      <4>3. CASE g.gref \in mapped
        <5>1. e.grants = <<g>> \o d.grants
          BY <1>3, <4>3 DEF BackIn
        <5>2. e.grants[1] = g /\ (i # 1 => i - 1 \in 1..Len(d.grants)
                                           /\ e.grants[i] = d.grants[i - 1])
          BY <1>2, <1>3, <3>1, <5>1, PutFirst
        <5>. QED  BY <4>1, <5>2
      <4>4. CASE g.gref \notin mapped
        <5>1. e.grants = Append(d.grants, b)
          BY <1>3, <4>4 DEF BackIn, b
        <5>2. e.grants[Len(d.grants) + 1] = b
              /\ (i # Len(d.grants) + 1 => i \in 1..Len(d.grants) /\ e.grants[i] = d.grants[i])
          BY <1>2, <3>1, <4>2, <5>1, PutLast
        <5>. QED  BY <4>1, <4>2, <5>2
      <4>. QED  BY <4>3, <4>4
    <3>2. e.shadow[id].req = d.shadow[id].req
      BY <1>3 DEF Moved
    <3>3. ASSUME NEW o \in Ids, NEW i \in 1..Len(e.shadow[o].used)
          PROVE e.shadow[o].used[i].page =
                  PageOf(e.shadow[o].req, i, Len(e.shadow[o].used))
      <4>1. CASE o = id
        <5>1. i + 1 \in 1..Len(used) /\ e.shadow[id].used[i] = used[i + 1]
          BY <1>3, <1>5, <3>3, <4>1
        <5>2. i \in Nat /\ Len(e.shadow[id].used) + 1 = Len(used) /\ Len(used) \in Nat
          <6>. HIDE DEF used
          <6>1. Len(Tail(used)) = Len(used) - 1 /\ Len(used) \in Nat /\ i \in Nat
            BY <1>2, TakeFirst DEF used
          <6>. QED  BY <1>3, <6>1
        <5>3. i = Len(e.shadow[id].used) <=> i + 1 = Len(used)
          <6>. DEFINE p == Len(used)  q == Len(e.shadow[id].used)
          <6>1. i \in Nat /\ p \in Nat /\ q + 1 = p /\ q \in Int
            <7>1. Len(e.shadow[id].used) \in Nat
              BY <1>2, <1>3, TakeFirst
            <7>. QED  BY <5>2, <7>1
          <6>. HIDE DEF p, q
          <6>2. i = q <=> i + 1 = p
            BY <6>1
          <6>. QED  BY <6>2 DEF p, q
        <5>4. used[i + 1].page = PageOf(d.shadow[id].req, i + 1, Len(used))
          BY <2>1, <5>1 DEF PagesOk
        <5>5. e.shadow[id].used[i].page = PageOf(e.shadow[id].req, i, Len(e.shadow[id].used))
          BY <3>2, <5>1, <5>3, <5>4 DEF PageOf
        <5>. QED  BY <4>1, <5>5
      <4>2. CASE o # id
        <5>1. e.shadow[o] = d.shadow[o]
          BY <1>7, <4>2
        <5>. QED  BY <2>1, <3>3, <5>1 DEF PagesOk
      <4>. QED  BY <4>1, <4>2
    <3>. QED  BY <3>1, <3>3 DEF PagesOk
  <2>5. Len(e.grants) + UsedTotal(e.shadow) = RingSize * (host.segs + 1)
    <3>0. Len(d.grants) \in Nat
      BY <1>2
    <3>1. UsedTotal(d.shadow) \in Nat /\ UsedTotal(e.shadow) \in Nat
      BY <1>2, <1>6, UsedTyped DEF Drivers
    <3>. DEFINE p == UsedTotal(d.shadow)  q == UsedTotal(e.shadow)  l == Len(d.grants)
    <3>2. p \in Nat /\ q \in Nat /\ l \in Nat /\ q + 1 = p
      BY <1>4, <3>0, <3>1
    <3>. HIDE DEF p, q, l
    <3>3. (l + 1) + q = l + p
      BY <3>2
    <3>4. Len(e.grants) + q = l + p
      BY <1>4, <3>3 DEF l
    <3>. QED  BY <2>1, <3>4 DEF l, p, q
  <2>. QED  BY <2>2, <2>3, <2>4, <2>5 DEF UniformOk
<1>10. ASSUME Uniform, ~feature_persistent PROVE e.pages = d.pages + FrameLast(d, id)
  <2>1. FrameBack(d, id) <=> Len(used) = 1 /\ d.shadow[id].req.n > Direct
    BY <1>8, <1>10 DEF FrameBack
  <2>2. d.pages \in Nat
    BY <1>1 DEF Drivers
  <2>3. FrameLast(d, id) = IF FrameBack(d, id) THEN 1 ELSE 0
    BY <2>1 DEF FrameLast
  <2>. QED  BY <1>3, <2>2, <2>3
<1>. QED  BY <1>1, <1>3, <1>4, <1>6, <1>9, <1>10 DEF Steady, e

(* Request id of d has i of its grants returned in x.                      *)
Freed(d, id, i) ==
    IF i > 0 /\ i = Len(d.shadow[id].used) /\ d.shadow[id].req.n > Direct THEN 1 ELSE 0
Draining(d, id, x, i) ==
    /\ Steady(x)
    /\ x.shadow[id].req = d.shadow[id].req
    /\ Len(x.shadow[id].used) = Len(d.shadow[id].used) - i
    /\ \A o \in Ids \ {id} : x.shadow[o] = d.shadow[o]
    /\ x.rq = d.rq /\ x.free = d.free /\ x.ring = d.ring /\ x.answers = d.answers
    /\ x.pending = d.pending /\ x.answered = d.answered /\ x.bug = d.bug
    /\ Uniform /\ ~feature_persistent => x.pages = d.pages + Freed(d, id, i)

(* blkif_completion: the loop over the grants of a request.                *)
LEMMA ReturnGrantsKeeps ==
  ASSUME NEW d, Steady(d), d.answers # <<>>
  PROVE  LET id == Head(d.answers)
         IN  Draining(d, id, ReturnGrants(d), Len(d.shadow[id].used))
<1>. DEFINE id == Head(d.answers)  n == Len(d.shadow[id].used)
            Rec(g) == g = [i \in 0..n |-> IF i = 0 THEN d ELSE ReturnGrant(g[i - 1], id)]
            f == CHOOSE g : Rec(g)
            N == [x \in Drivers |-> ReturnGrant(x, id)]
            I == [i \in 0..n |-> {x \in Drivers : Draining(d, id, x, i)}]
<1>1. /\ d \in Drivers /\ d.answers \in Seq(Ids) /\ d.shadow \in [Ids -> Shadows] /\ IdsOk(d)
  BY DEF Steady, Drivers
<1>2. id \in Ids /\ id \notin taken
  <2>1. id = d.answers[1] /\ 1 \in 1..Len(d.answers) /\ id \in Ids
    BY <1>1, TakeFirst
  <2>. QED  BY <1>1, <2>1 DEF IdsOk, Members
<1>3. n \in Nat
  <2>1. d.shadow[id].used \in Seq(Grants)
    BY <1>1, <1>2 DEF Shadows
  <2>. QED  BY Zenon, <2>1, LenProperties
<1>4. d \in I[0]
  <2>. HIDE DEF id
  <2>1. n - 0 = n
    BY <1>3
  <2>. HIDE DEF n
  <2>2. Freed(d, id, 0) = 0 /\ d.pages + 0 = d.pages
    BY <1>1 DEF Freed, Drivers
  <2>3. Draining(d, id, d, 0)
    BY <2>1, <2>2 DEF Draining, n
  <2>. QED  BY <1>1, <1>3, <2>3
<1>5. ASSUME NEW i \in 1..n, NEW x \in I[i - 1] PROVE N[x] \in I[i]
  <2>. DEFINE y == ReturnGrant(x, id)
  <2>1. i - 1 \in 0..n /\ i \in 0..n
    BY <1>3
  <2>2. x \in Drivers /\ Draining(d, id, x, i - 1)
    BY <2>1
  <2>. HIDE DEF id
  <2>3. /\ Steady(x) /\ x.shadow[id].req = d.shadow[id].req
        /\ Len(x.shadow[id].used) = n - (i - 1)
        /\ \A o \in Ids \ {id} : x.shadow[o] = d.shadow[o]
        /\ x.rq = d.rq /\ x.free = d.free /\ x.ring = d.ring /\ x.answers = d.answers
        /\ x.pending = d.pending /\ x.answered = d.answered /\ x.bug = d.bug
        /\ Uniform /\ ~feature_persistent => x.pages = d.pages + Freed(d, id, i - 1)
    BY <2>2 DEF Draining
  <2>. HIDE DEF n
  <2>4. x.shadow[id].used \in Seq(Grants)
    BY <1>2, <2>2 DEF Drivers, Shadows
  <2>5. x.shadow[id].used # <<>>
    <3>1. Len(x.shadow[id].used) > 0
      BY <1>3, <2>3
    <3>. QED  BY <3>1
  <2>6. /\ Steady(y) /\ Moved(x, y, id) /\ y.shadow[id].used = Tail(x.shadow[id].used)
        /\ Uniform /\ ~feature_persistent => y.pages = x.pages + FrameLast(x, id)
    BY <1>2, <2>3, <2>5, ReturnGrantKeeps
  <2>. HIDE DEF y
  <2>7. Len(y.shadow[id].used) = n - i
    <3>1. i \in Int /\ n \in Int
      BY <1>3
    <3>2. Len(y.shadow[id].used) = Len(x.shadow[id].used) - 1
      BY <2>4, <2>5, <2>6, TakeFirst
    <3>. QED  BY <2>3, <3>1, <3>2
  <2>8. ASSUME Uniform, ~feature_persistent PROVE y.pages = d.pages + Freed(d, id, i)
    <3>1. i \in Int /\ n \in Int /\ i >= 1 /\ i <= n
      BY <1>3
    <3>2. /\ x.pages = d.pages + Freed(d, id, i - 1) /\ y.pages = x.pages + FrameLast(x, id)
          /\ d.pages \in Nat
      BY <1>1, <2>3, <2>6, <2>8 DEF Drivers
    <3>3. Freed(d, id, i - 1) = 0
      BY <3>1 DEF Freed, n
    <3>4. FrameLast(x, id) = Freed(d, id, i)
      <4>1. Len(x.shadow[id].used) = 1 <=> i = n
        BY <2>3, <3>1
      <4>. QED  BY <2>3, <3>1, <4>1 DEF FrameLast, Freed, n
    <3>5. Freed(d, id, i) \in Nat
      BY DEF Freed
    <3>. QED  BY <3>2, <3>3, <3>4, <3>5
  <2>9. Draining(d, id, y, i) /\ y \in Drivers
    BY <2>3, <2>6, <2>7, <2>8 DEF Draining, Moved, n
  <2>10. N[x] = y
    BY <2>2 DEF y
  <2>. QED  BY <2>1, <2>9, <2>10
<1>6. I \in [0..n -> SUBSET Drivers]
  OBVIOUS
<1>7. \E g \in [0..n -> Drivers] : Runs(g, n, d, N, I)
  <2>. HIDE DEF N, I, n
  <2>. QED  BY <1>3, <1>4, <1>5, <1>6, LoopRuns
<1>8. PICK g \in [0..n -> Drivers] : Runs(g, n, d, N, I)
  BY <1>7
<1>9. Rec(g)
  <2>1. g[0] = d /\ \A i \in 1..n : g[i] = N[g[i - 1]]
    BY <1>8 DEF Runs
  <2>2. ASSUME NEW i \in 1..n PROVE g[i] = ReturnGrant(g[i - 1], id)
    <3>1. i - 1 \in 0..n /\ g[i - 1] \in Drivers
      BY <1>3
    <3>. QED  BY <2>1, <3>1
  <2>. HIDE DEF N, id, n
  <2>. QED  BY <1>3, <2>1, <2>2
<1>10. Rec(f)
  <2>. HIDE DEF Rec
  <2>. QED  BY Zenon, <1>9
<1>11. f[n] \in I[n]
  <2>. HIDE DEF f
  <2>1. f[0] = d /\ \A i \in 1..n : f[i] = ReturnGrant(f[i - 1], id)
    <3>. HIDE DEF id, n
    <3>. QED  BY <1>3, <1>10
  <2>2. Follows(f, n, Drivers, d, N)
    <3>1. \A i \in 1..n : f[i - 1] \in Drivers => f[i] = N[f[i - 1]]
      BY <2>1
    <3>. HIDE DEF N, n
    <3>. QED  BY <2>1, <3>1 DEF Follows
  <2>3. Reaches(f, n, I)
    <3>. HIDE DEF N, I, n
    <3>. QED  BY <1>3, <1>8, <2>2, LoopUnique
  <2>. QED  BY <2>3 DEF Reaches
<1>12. ReturnGrants(d) = f[n]
  BY DEF ReturnGrants
<1>. HIDE DEF f
<1>13. n \in 0..n
  BY <1>3
<1>. HIDE DEF n, id
<1>. QED  BY <1>11, <1>12, <1>13 DEF n, id

(* A request is over: its id is free, its bio waits for one less.          *)
Over(x, e, id) ==
    /\ e \in Drivers
    /\ e.shadow = [x.shadow EXCEPT ![id] = Idle]
    /\ e.free = <<id>> \o x.free /\ e.answers = Tail(x.answers)
    /\ e.rq = x.rq /\ e.ring = x.ring /\ e.grants = x.grants /\ e.count = x.count
    /\ e.granted = x.granted /\ e.bug = x.bug /\ e.pages = x.pages
    /\ e.pending = [x.pending EXCEPT ![x.shadow[id].req.bio] = @ - 1]
    /\ e.answered = [x.answered EXCEPT ![x.shadow[id].req.bio] = @ + x.shadow[id].req.n]

(* The id of a request that is over is free.                               *)
LEMMA OverIds ==
  ASSUME NEW x \in Drivers, IdsOk(x), x.answers # <<>>, NEW e, Over(x, e, Head(x.answers))
  PROVE  IdsOk(e)
<1>. DEFINE id == Head(x.answers)
<1>1. /\ x.free \in Seq(Ids) /\ x.answers \in Seq(Ids) /\ x.shadow \in [Ids -> Shadows]
      /\ e.shadow = [x.shadow EXCEPT ![id] = Idle]
      /\ e.free = <<id>> \o x.free /\ e.answers = Tail(x.answers) /\ e.ring = x.ring
  BY DEF Drivers, Over
<1>2. id \in Ids
  BY <1>1, TakeFirst
<1>3. Members(x.answers) = {id} \cup Members(Tail(x.answers))
      /\ Injective(Tail(x.answers)) /\ id \notin Members(Tail(x.answers))
  BY <1>1, MembersTail DEF IdsOk
<1>. HIDE DEF id
<1>4. /\ id \in Busy(x) /\ id \notin taken /\ id \notin Members(x.ring)
      /\ id \notin Members(x.free)
  BY <1>2, <1>3 DEF IdsOk
<1>5. Busy(e) = Busy(x) \ {id}
  <2>1. e.shadow[id].req = NoRequest /\ \A o \in Ids \ {id} : e.shadow[o].req = x.shadow[o].req
    BY <1>1, <1>2 DEF Idle
  <2>. QED  BY <2>1 DEF Busy
<1>6. Members(e.free) = Members(x.free) \cup {id} /\ Injective(e.free)
  BY <1>1, <1>2, <1>4, MembersCons DEF IdsOk
<1>7. Members(e.free) = Ids \ Busy(e)
  BY <1>2, <1>4, <1>5, <1>6 DEF IdsOk
<1>8. Members(e.ring) \cup taken \cup Members(e.answers) = Busy(e)
  BY <1>1, <1>3, <1>4, <1>5 DEF IdsOk
<1>9. /\ Injective(e.answers) /\ Members(e.answers) \cap taken = {}
      /\ Members(e.ring) \cap Members(e.answers) = {}
  BY <1>1, <1>3 DEF IdsOk
<1>10. Injective(e.ring) /\ Members(e.ring) \cap taken = {}
  BY <1>1 DEF IdsOk
<1>. QED  BY Zenon, <1>6, <1>7, <1>8, <1>9, <1>10 DEF IdsOk

(* Its pages have left the shadows.                                        *)
LEMMA OverSum ==
  ASSUME bio_list \in Seq(Requests), NEW x \in Drivers, NEW id \in Ids, NEW e, Over(x, e, id),
         NEW w \in [Reqs -> Nat], w[NoRequest] = 0
  PROVE  Sum(e, w) + w[x.shadow[id].req] = Sum(x, w)
<1>1. /\ x.shadow \in [Ids -> Shadows] /\ e \in Drivers /\ e.shadow \in [Ids -> Shadows]
      /\ e.shadow = [x.shadow EXCEPT ![id] = Idle] /\ e.rq = x.rq
  BY DEF Drivers, Over
<1>2. e.shadow[id].req = NoRequest /\ \A o \in Ids \ {id} : e.shadow[o].req = x.shadow[o].req
  BY <1>1 DEF Idle
<1>3. x.shadow[id].req \in Reqs
  BY <1>1 DEF Shadows, Reqs
<1>4. Weigh(Shadowed(e.shadow), w) + w[x.shadow[id].req]
        = Weigh(Shadowed(x.shadow), w) + w[e.shadow[id].req]
  <2>1. /\ x.shadow \in [Ids -> Shadows] /\ e.shadow \in [Ids -> Shadows]
        /\ \A o \in Ids \ {id} : e.shadow[o].req = x.shadow[o].req
    BY <1>1, <1>2
  <2>. QED  BY <2>1, WeighShadow
<1>5. /\ Weigh(Shadowed(e.shadow), w) \in Nat /\ Weigh(Shadowed(x.shadow), w) \in Nat
      /\ Weigh(x.rq, w) \in Nat /\ Weigh(bio_list, w) \in Nat
  BY <1>1, SumTyped
<1>. DEFINE p == Weigh(Shadowed(e.shadow), w)  q == Weigh(Shadowed(x.shadow), w)
            v == w[x.shadow[id].req]  s == Weigh(x.rq, w)  l == Weigh(bio_list, w)
<1>6. v \in Nat /\ w[e.shadow[id].req] = 0
  BY <1>2, <1>3
<1>7. /\ p \in Nat /\ q \in Nat /\ v \in Nat /\ s \in Nat /\ l \in Nat
      /\ p + v = q + 0
  BY <1>4, <1>5, <1>6
<1>. HIDE DEF p, q, v, s, l
<1>8. (s + p + l) + v = s + q + l
  BY <1>7
<1>. QED  BY <1>1, <1>8 DEF Sum, p, q, s, l, v

(* Its bio has those pages answered, and waits for a request less.         *)
LEMMA OverBios ==
  ASSUME bio_list \in Seq(Requests), NEW x \in Drivers, NEW id \in Ids, NEW e, Over(x, e, id),
         x.shadow[id].req \in Requests, BiosOk(x)
  PROVE  BiosOk(e)
<1>. DEFINE r == x.shadow[id].req
<1>1. /\ e \in Drivers /\ x.pending \in [Bios -> Int] /\ x.answered \in [Bios -> Nat]
      /\ e.pending = [x.pending EXCEPT ![r.bio] = @ - 1]
      /\ e.answered = [x.answered EXCEPT ![r.bio] = @ + r.n]
  BY DEF Drivers, Over
<1>2. r.bio \in Bios /\ r.n \in Nat /\ r \in Reqs
  BY Constants DEF Requests, Reqs
<1>3. BiosSum(x)
  BY BiosWeighed
<1>4. ASSUME NEW b \in Bios
      PROVE  /\ Sum(e, PageW(b)) + PageW(b)[r] = Sum(x, PageW(b))
             /\ Sum(e, PieceW(b)) + PieceW(b)[r] = Sum(x, PieceW(b))
  BY Weights, OverSum
<1>5. ASSUME NEW b \in Bios
      PROVE  /\ PageW(b)[r] = (IF r.bio = b THEN r.n ELSE 0)
             /\ PieceW(b)[r] = (IF r.bio = b THEN 1 ELSE 0)
  <2>. HIDE DEF r
  <2>. QED  BY <1>2 DEF PageW, PieceW
<1>6. ASSUME NEW b \in Bios
      PROVE  /\ size[b] = e.answered[b] + Sum(e, PageW(b))
             /\ e.pending[b] = Sum(e, PieceW(b))
  <2>. DEFINE p == Sum(e, PageW(b))  q == Sum(x, PageW(b))
              s == Sum(e, PieceW(b))  t == Sum(x, PieceW(b))
  <2>1. p \in Nat /\ q \in Nat /\ s \in Nat /\ t \in Nat
    BY <1>1, Weights, SumTyped
  <2>2. size[b] = x.answered[b] + q /\ x.pending[b] = t
    BY <1>3 DEF BiosSum
  <2>3. p + PageW(b)[r] = q /\ s + PieceW(b)[r] = t
    BY <1>4
  <2>. HIDE DEF p, q, s, t, r
  <2>4. CASE r.bio = b
    <3>1. p + r.n = q /\ s + 1 = t
      BY <1>5, <2>3, <2>4
    <3>2. e.answered[b] = x.answered[b] + r.n /\ e.pending[b] = x.pending[b] - 1
      BY <1>1, <1>2, <2>4
    <3>3. x.answered[b] \in Int /\ r.n \in Int
      BY <1>1, <1>2
    <3>4. e.answered[b] + p = x.answered[b] + q
      BY <2>1, <3>1, <3>2, <3>3 DEF p
    <3>5. e.pending[b] = s
      BY <2>1, <2>2, <3>1, <3>2 DEF s
    <3>. QED  BY Zenon, <2>2, <3>4, <3>5 DEF p, s
  <2>5. CASE r.bio # b
    <3>1. p + 0 = q /\ s + 0 = t
      BY <1>5, <2>3, <2>5
    <3>2. e.answered[b] = x.answered[b] /\ e.pending[b] = x.pending[b]
      BY <1>1, <1>2, <2>5
    <3>3. p = q /\ s = t
      BY <2>1, <3>1
    <3>. QED  BY <2>2, <3>2, <3>3 DEF p, s
  <2>. QED  BY <2>4, <2>5
<1>7. BiosSum(e)
  BY <1>6 DEF BiosSum
<1>. QED  BY <1>1, <1>7, BiosWeighed

(* One response is dealt with. *)
Answered(d, e, k) ==
    /\ Len(e.answers) + k = Len(d.answers)
    /\ e.rq = d.rq /\ e.ring = d.ring /\ e.bug = d.bug

(* One turn of the loop of blkif_interrupt.                                *)
LEMMA CompleteKeeps ==
  ASSUME NEW d, DriverOk(d), d.answers # <<>>
  PROVE  DriverOk(Complete(d)) /\ Answered(d, Complete(d), 1)
<1>. DEFINE id == Head(d.answers)  x == ReturnGrants(d)  e == Complete(d)
            r == d.shadow[id].req
<1>1. /\ d \in Drivers /\ IdsOk(d) /\ Full(d) /\ Context /\ Steady(d)
      /\ d.answers \in Seq(Ids) /\ d.shadow \in [Ids -> Shadows] /\ bio_list \in Seq(Requests)
      /\ (Uniform => FramesOk(d))
  BY DEF DriverOk, Steady, Drivers, Context
<1>2. Draining(d, id, x, Len(d.shadow[id].used))
  BY <1>1, ReturnGrantsKeeps
<1>3. id \in Ids /\ id \in Busy(d)
  <2>1. id = d.answers[1] /\ 1 \in 1..Len(d.answers) /\ id \in Ids
    BY <1>1, TakeFirst
  <2>. QED  BY <1>1, <2>1 DEF IdsOk, Members
<1>. HIDE DEF x
<1>4. /\ Steady(x) /\ x.shadow[id].req = r
      /\ Len(x.shadow[id].used) = Len(d.shadow[id].used) - Len(d.shadow[id].used)
      /\ \A o \in Ids \ {id} : x.shadow[o] = d.shadow[o]
      /\ x.rq = d.rq /\ x.free = d.free /\ x.ring = d.ring /\ x.answers = d.answers
      /\ x.pending = d.pending /\ x.answered = d.answered /\ x.bug = d.bug
  BY <1>2 DEF Draining
<1>5. /\ x \in Drivers /\ IdsOk(x) /\ BiosOk(x) /\ GrantsOk(x) /\ (Uniform => UniformOk(x))
      /\ x.shadow \in [Ids -> Shadows] /\ x.pending \in [Bios -> Int]
      /\ x.answered \in [Bios -> Nat] /\ x.free \in Seq(Ids)
  BY <1>4 DEF Steady, Drivers
<1>6. r \in Requests
  BY <1>1, <1>3 DEF Busy, Shadows
<1>7. x.shadow[id].used = <<>>
  <2>1. d.shadow[id].used \in Seq(Grants) /\ x.shadow[id].used \in Seq(Grants)
    <3>1. d.shadow[id] \in Shadows /\ x.shadow[id] \in Shadows
      BY Zenon, <1>1, <1>3, <1>5
    <3>2. \A z \in Shadows : z.used \in Seq(Grants)
      BY DEF Shadows
    <3>. QED  BY Zenon, <3>1, <3>2
  <2>2. Len(d.shadow[id].used) \in Nat
    BY Zenon, <2>1, LenProperties
  <2>3. Len(x.shadow[id].used) = 0
    <3>. DEFINE k == Len(d.shadow[id].used)
    <3>1. Len(x.shadow[id].used) = k - k
      BY Zenon, <1>4
    <3>2. k \in Nat
      BY Zenon, <2>2
    <3>. HIDE DEF k
    <3>3. k - k = 0
      BY Zenon, <3>2, LessItself
    <3>. QED  BY Zenon, <3>1, <3>3
  <2>. QED  BY <2>1, <2>3
<1>8. Over(x, e, id)
  <2>1. r.bio \in Bios /\ r.n \in Nat
    BY <1>6, Constants DEF Requests
  <2>2. Idle \in Shadows
    BY DEF Shadows, Idle
  <2>3. e = [x EXCEPT !.answers = Tail(@), !.free = <<id>> \o @, !.shadow[id] = Idle,
                      !.pending[r.bio] = @ - 1, !.answered[r.bio] = @ + r.n]
    BY DEF Complete, x
  <2>. DEFINE sh == [x.shadow EXCEPT ![id] = Idle]
              pe == [x.pending EXCEPT ![r.bio] = @ - 1]
              an == [x.answered EXCEPT ![r.bio] = @ + r.n]
              fr == <<id>> \o x.free
              as == Tail(x.answers)
  <2>4. e = [x EXCEPT !.answers = as, !.free = fr, !.shadow = sh, !.pending = pe, !.answered = an]
    BY <2>3
  <2>5. sh \in [Ids -> Shadows]
    BY <1>5, <2>2
  <2>6. pe \in [Bios -> Int] /\ an \in [Bios -> Nat]
    <3>. HIDE DEF r
    <3>. QED  BY <1>5, <2>1
  <2>7. fr \in Seq(Ids) /\ as \in Seq(Ids)
    BY <1>1, <1>3, <1>4, <1>5, TakeFirst
  <2>. HIDE DEF e, sh, pe, an, fr, as
  <2>8. e \in Drivers
    BY <1>5, <2>4, <2>5, <2>6, <2>7 DEF Drivers
  <2>9. /\ e.answers = as /\ e.free = fr /\ e.shadow = sh /\ e.pending = pe /\ e.answered = an
        /\ e.rq = x.rq /\ e.ring = x.ring /\ e.grants = x.grants /\ e.count = x.count
        /\ e.granted = x.granted /\ e.bug = x.bug /\ e.pages = x.pages
    BY <1>5, <2>4 DEF Drivers
  <2>10. Over(x, e, id)
    <3>1. /\ e.shadow = [x.shadow EXCEPT ![id] = Idle] /\ e.pending = [x.pending EXCEPT ![r.bio] = @ - 1]
          /\ e.answered = [x.answered EXCEPT ![r.bio] = @ + r.n]
          /\ e.free = <<id>> \o x.free /\ e.answers = Tail(x.answers)
      BY Zenon, <2>9 DEF sh, pe, an, fr, as
    <3>. QED  BY <1>4, <2>8, <2>9, <3>1 DEF Over
  <2>. QED  BY <2>10
<1>. HIDE DEF e, id, r
<1>9. e \in Drivers /\ e.shadow \in [Ids -> Shadows]
  BY <1>8 DEF Over, Drivers
<1>10. e.shadow[id] = Idle /\ \A o \in Ids \ {id} : e.shadow[o] = x.shadow[o]
  BY <1>3, <1>5, <1>8 DEF Over
<1>11. \A o \in Ids : e.shadow[o].used = x.shadow[o].used
  BY <1>7, <1>10 DEF Idle
<1>12. UsedTotal(e.shadow) = UsedTotal(x.shadow)
  <2>1. UsedTotal(e.shadow) + Len(x.shadow[id].used)
          = UsedTotal(x.shadow) + Len(e.shadow[id].used)
    BY <1>3, <1>5, <1>9, <1>11, UsedUpdate
  <2>2. UsedTotal(e.shadow) \in Nat /\ UsedTotal(x.shadow) \in Nat
    BY <1>5, <1>9, UsedTyped
  <2>3. Len(x.shadow[id].used) = 0 /\ Len(e.shadow[id].used) = 0
    BY <1>3, <1>7, <1>11
  <2>. QED  BY <2>1, <2>2, <2>3
<1>13. /\ e.grants = x.grants /\ e.count = x.count /\ e.granted = x.granted
       /\ e.rq = x.rq /\ e.ring = x.ring /\ e.answers = Tail(x.answers) /\ e.bug = x.bug
  BY <1>8 DEF Over
<1>14. IdsOk(e)
  BY <1>1, <1>4, <1>5, <1>8, OverIds DEF id
<1>15. BiosOk(e)
  BY <1>1, <1>3, <1>4, <1>5, <1>6, <1>8, OverBios
<1>16. GrantsOk(e)
  <2>1. HeldOnce(x) /\ CountOk(x) /\ mapped \subseteq x.granted
    BY <1>5 DEF GrantsOk
  <2>2. HeldOnce(e)
    BY <1>11, <1>13, <2>1 DEF HeldOnce
  <2>3. CountOk(e)
    BY <1>11, <1>12, <1>13, <2>1 DEF CountOk
  <2>. QED  BY <1>13, <2>1, <2>2, <2>3 DEF GrantsOk
<1>17. Full(e)
  <2>1. Len(e.shadow[id].used) = Need(e.shadow[id].req.n)
    <3>1. e.shadow[id].used = <<>> /\ e.shadow[id].req.n = 0
      BY <1>10 DEF Idle, NoRequest
    <3>. QED  BY <3>1, Needs
  <2>2. \A o \in Ids \ {id} : e.shadow[o] = d.shadow[o]
    BY <1>4, <1>10
  <2>. QED  BY <1>1, <2>1, <2>2 DEF Full
<1>18. ASSUME Uniform PROVE UniformOk(e)
  <2>1. PagesOk(x) /\ SegsOk(x) /\ KeepsNone(x)
        /\ Len(x.grants) + UsedTotal(x.shadow) = RingSize * (host.segs + 1)
    BY <1>5, <1>18 DEF UniformOk
  <2>2. PagesOk(e)
    <3>1. ASSUME NEW o \in Ids, NEW i \in 1..Len(e.shadow[o].used) PROVE e.shadow[o] = x.shadow[o]
      <4>1. o # id
        BY <1>10, <3>1 DEF Idle
      <4>. QED  BY <1>10, <4>1
    <3>2. ASSUME NEW o \in Ids, NEW i \in 1..Len(e.shadow[o].used)
          PROVE e.shadow[o].used[i].page =
                  PageOf(e.shadow[o].req, i, Len(e.shadow[o].used))
      <4>1. e.shadow[o] = x.shadow[o]
        BY Zenon, <3>1
      <4>. QED  BY Zenon, <2>1, <4>1 DEF PagesOk
    <3>. QED  BY <1>13, <2>1, <3>2 DEF PagesOk
  <2>3. SegsOk(e)
    <3>1. e.shadow[id].req.n <= host.segs
      <4>1. host.segs \in Nat
        BY <1>1, Constants DEF Context
      <4>. QED  BY <1>10, <4>1 DEF Idle, NoRequest
    <3>2. \A o \in Ids : e.shadow[o].req.n <= host.segs
      <4>1. \A o \in Ids : x.shadow[o].req.n <= host.segs
        BY <2>1 DEF SegsOk
      <4>. QED  BY <1>10, <3>1, <4>1
    <3>. QED  BY <1>13, <2>1, <3>2 DEF SegsOk
  <2>4. KeepsNone(e)
    <3>1. \A o \in taken : e.shadow[o].used = x.shadow[o].used
      BY <1>1, <1>11 DEF Context
    <3>. QED  BY <1>13, <2>1, <3>1 DEF KeepsNone
  <2>. QED  BY <1>12, <1>13, <2>1, <2>2, <2>3, <2>4 DEF UniformOk
<1>19. Answered(d, e, 1)
  <2>1. Len(Tail(d.answers)) + 1 = Len(d.answers)
    <3>1. Len(Tail(d.answers)) = Len(d.answers) - 1 /\ Len(d.answers) \in Nat \ {0}
      BY <1>1, TakeFirst
    <3>. QED  BY <3>1
  <2>. QED  BY <1>4, <1>13, <2>1 DEF Answered
<1>20. ASSUME Uniform PROVE FramesOk(e)
  <2>1. SUFFICES ASSUME Indirect PROVE e.pages + Cardinality(Large(e.shadow)) = RingSize
    BY DEF FramesOk
  <2>2. /\ d.pages + Cardinality(Large(d.shadow)) = RingSize /\ d.pages \in Nat
        /\ RingSize \in Nat
    BY <1>1, <1>20, <2>1, Constants DEF FramesOk, Drivers
  <2>3. e.pages = d.pages + Freed(d, id, Len(d.shadow[id].used))
    BY <1>2, <1>8, <1>20, <2>1 DEF Draining, Over, Indirect
  <2>4. Len(d.shadow[id].used) > 0
    <3>1. r.n \in Nat \ {0}
      BY <1>6, Constants DEF Requests
    <3>2. Len(d.shadow[id].used) = Need(r.n)
      BY <1>1, <1>3 DEF Full, r
    <3>3. Need(r.n) \in Nat /\ r.n <= Need(r.n)
      BY <3>1, Needs
    <3>. DEFINE k == Need(r.n)  j == r.n
    <3>4. k \in Nat /\ j \in Nat \ {0} /\ j <= k
      BY <3>1, <3>3
    <3>. HIDE DEF k, j
    <3>5. k > 0
      BY <3>4
    <3>. QED  BY <3>2, <3>5 DEF k
  <2>5. Freed(d, id, Len(d.shadow[id].used)) = IF r.n > Direct THEN 1 ELSE 0
    BY <2>4 DEF Freed, r
  <2>6. Large(e.shadow) = Large(d.shadow) \ {id}
    <3>1. ~(e.shadow[id].req.n > Direct)
      <4>1. e.shadow[id].req.n = 0 /\ ~(0 > Direct)
        BY <1>10, BlkAssumption DEF Idle, NoRequest
      <4>. QED  BY <4>1
    <3>2. \A o \in Ids \ {id} : e.shadow[o] = d.shadow[o]
      BY <1>4, <1>10
    <3>. QED  BY <3>1, <3>2 DEF Large
  <2>7. IsFiniteSet(Large(d.shadow)) /\ Cardinality(Large(d.shadow)) \in Nat
    <3>1. Large(d.shadow) \subseteq Ids
      BY DEF Large
    <3>2. IsFiniteSet(Ids)
      BY Indices
    <3>3. IsFiniteSet(Large(d.shadow))
      BY <3>1, <3>2, FS_Subset
    <3>. QED  BY <3>3, FS_CardinalityType
  <2>8. CASE r.n > Direct
    <3>1. id \in Large(d.shadow)
      BY <1>3, <2>8 DEF Large, r
    <3>2. Cardinality(Large(e.shadow)) = Cardinality(Large(d.shadow)) - 1
      BY <2>6, <2>7, <3>1, FS_RemoveElement
    <3>3. e.pages = d.pages + 1
      BY <2>3, <2>5, <2>8
    <3>. DEFINE k == Cardinality(Large(d.shadow))
    <3>4. k \in Nat /\ d.pages + k = RingSize /\ Cardinality(Large(e.shadow)) = k - 1
      BY <2>2, <2>7, <3>2
    <3>. HIDE DEF k
    <3>. QED  BY <2>2, <3>3, <3>4
  <2>9. CASE ~(r.n > Direct)
    <3>1. id \notin Large(d.shadow)
      BY <2>9 DEF Large, r
    <3>2. Large(e.shadow) = Large(d.shadow)
      BY <2>6, <3>1
    <3>3. e.pages = d.pages
      BY <2>2, <2>3, <2>5, <2>9
    <3>. QED  BY <2>2, <3>2, <3>3
  <2>. QED  BY <2>8, <2>9
<1>. QED  BY <1>1, <1>9, <1>14, <1>15, <1>16, <1>17, <1>18, <1>19, <1>20 DEF DriverOk, Steady, e

(* blkif_interrupt: all the responses on the ring.                         *)
Completing(d, x, i) == DriverOk(x) /\ Answered(d, x, i)

(* The whole loop of blkif_interrupt.                                      *)
LEMMA CompleteAllKeeps ==
  ASSUME NEW d, DriverOk(d)
  PROVE  Completing(d, CompleteAll(d), Len(d.answers))
<1>. DEFINE n == Len(d.answers)
            Rec(g) == g = [i \in 0..n |-> IF i = 0 THEN d ELSE Complete(g[i - 1])]
            f == CHOOSE g : Rec(g)
            N == [x \in Drivers |-> Complete(x)]
            I == [i \in 0..n |-> {x \in Drivers : Completing(d, x, i)}]
<1>1. d \in Drivers /\ d.answers \in Seq(Ids)
  BY DEF DriverOk, Steady, Drivers
<1>2. n \in Nat
  BY <1>1
<1>3. d \in I[0]
  <2>1. Completing(d, d, 0)
    BY <1>2 DEF Completing, Answered
  <2>. QED  BY <1>1, <1>2, <2>1
<1>4. ASSUME NEW i \in 1..n, NEW x \in I[i - 1] PROVE N[x] \in I[i]
  <2>. DEFINE y == Complete(x)
  <2>1. i - 1 \in 0..n /\ i \in 0..n
    BY <1>2
  <2>2. x \in Drivers /\ Completing(d, x, i - 1)
    BY <2>1
  <2>. HIDE DEF n
  <2>3. /\ DriverOk(x) /\ Len(x.answers) + (i - 1) = n
        /\ x.rq = d.rq /\ x.ring = d.ring /\ x.bug = d.bug
    BY <2>2 DEF Completing, Answered, n
  <2>4. x.answers \in Seq(Ids)
    BY <2>2 DEF Drivers
  <2>5. Len(x.answers) \in Nat
    BY <2>4
  <2>6. x.answers # <<>>
    <3>1. Len(x.answers) > 0
      BY <1>2, <2>3, <2>5
    <3>. QED  BY <3>1
  <2>7. DriverOk(y) /\ Answered(x, y, 1)
    BY <2>3, <2>6, CompleteKeeps
  <2>. HIDE DEF y
  <2>8. y \in Drivers /\ y.answers \in Seq(Ids)
    BY <2>7 DEF DriverOk, Steady, Drivers
  <2>9. Len(y.answers) + i = n
    <3>1. Len(y.answers) \in Nat /\ i \in Int
      BY <2>8
    <3>2. Len(y.answers) + 1 = Len(x.answers)
      BY <2>7 DEF Answered
    <3>. DEFINE a == Len(y.answers)  b == Len(x.answers)
    <3>3. a \in Nat /\ b \in Nat /\ a + 1 = b /\ b + (i - 1) = n
      BY <2>3, <2>5, <3>1, <3>2
    <3>. HIDE DEF a, b
    <3>4. a + i = n
      BY <1>2, <3>3
    <3>. QED  BY <3>4 DEF a
  <2>10. Completing(d, y, i)
    BY <2>3, <2>7, <2>9 DEF Completing, Answered, n
  <2>11. N[x] = y
    BY <2>2 DEF y
  <2>. QED  BY <2>1, <2>8, <2>10, <2>11
<1>5. I \in [0..n -> SUBSET Drivers]
  OBVIOUS
<1>6. \E g \in [0..n -> Drivers] : Runs(g, n, d, N, I)
  <2>. HIDE DEF N, I, n
  <2>. QED  BY <1>2, <1>3, <1>4, <1>5, LoopRuns
<1>7. PICK g \in [0..n -> Drivers] : Runs(g, n, d, N, I)
  BY <1>6
<1>8. Rec(g)
  <2>1. g[0] = d /\ \A i \in 1..n : g[i] = N[g[i - 1]]
    BY <1>7 DEF Runs
  <2>2. ASSUME NEW i \in 1..n PROVE g[i] = Complete(g[i - 1])
    <3>1. i - 1 \in 0..n /\ g[i - 1] \in Drivers
      BY <1>2
    <3>. QED  BY <2>1, <3>1
  <2>. HIDE DEF N, n
  <2>. QED  BY <1>2, <2>1, <2>2
<1>9. Rec(f)
  <2>. HIDE DEF Rec
  <2>. QED  BY <1>8
<1>10. f[n] \in I[n]
  <2>. HIDE DEF f
  <2>1. f[0] = d /\ \A i \in 1..n : f[i] = Complete(f[i - 1])
    <3>. HIDE DEF n
    <3>. QED  BY <1>2, <1>9
  <2>2. Follows(f, n, Drivers, d, N)
    <3>1. \A i \in 1..n : f[i - 1] \in Drivers => f[i] = N[f[i - 1]]
      BY <2>1
    <3>. HIDE DEF N, n
    <3>. QED  BY <2>1, <3>1 DEF Follows
  <2>3. Reaches(f, n, I)
    <3>. HIDE DEF N, I, n
    <3>. QED  BY <1>2, <1>7, <2>2, LoopUnique
  <2>. QED  BY <2>3 DEF Reaches
<1>11. CompleteAll(d) = f[n]
  BY DEF CompleteAll
<1>. HIDE DEF f
<1>12. n \in 0..n
  BY <1>2
<1>. HIDE DEF n
<1>. QED  BY <1>10, <1>11, <1>12 DEF n

--------------------------------------------------------------------------------
(* The state after a step of the request function or the interrupt is that *)
(* of the record it worked on.                                             *)
SameContext ==
    UNCHANGED <<taken, mapped, features, host, size, bio_list>>

Aside(d) == [rq |-> d.rq, free |-> d.free, shadow |-> d.shadow, ring |-> d.ring,
             answers |-> d.answers, grants |-> d.grants, count |-> d.count,
             granted |-> d.granted, pages |-> d.pages, pending |-> d.pending,
             answered |-> d.answered, bug |-> FALSE]

(* Whether a BUG_ON was reached does not matter to the rest.               *)
LEMMA BugAside ==
  ASSUME NEW d, DriverOk(d), NEW e, e = Aside(d)
  PROVE  DriverOk(e) /\ Busy(e) = Busy(d)
<1>1. d \in Drivers /\ Steady(d) /\ Full(d) /\ (Uniform => FramesOk(d))
  BY DEF DriverOk, Steady
<1>2. Beside(d, e) /\ e.pages = d.pages
  BY <1>1 DEF Drivers, Beside, Aside
<1>3. Steady(e) /\ Full(e)
  BY <1>1, <1>2, SteadyBeside
<1>4. Busy(e) = Busy(d) /\ (Uniform => FramesOk(e))
  BY <1>1, <1>2 DEF Beside, Busy, FramesOk
<1>. QED  BY <1>3, <1>4 DEF DriverOk

(* The next state's driver is the record it was set to.                    *)
LEMMA SameDriver ==
  ASSUME NEW d, DriverOk(d), SetDriver(d), SameContext
  PROVE  DriverOk(Driver)' /\ Busy(Driver)' = Busy(d)
<1>. DEFINE e == Aside(d)
<1>1. DriverOk(e) /\ Busy(e) = Busy(d)
  BY BugAside
<1>2. Driver' = e
  <2>1. /\ rq' = d.rq /\ shadow_free' = d.free /\ shadow' = d.shadow
        /\ ring' = d.ring /\ answers' = d.answers
        /\ grants' = d.grants /\ persistent_gnts_c' = d.count /\ granted' = d.granted
        /\ indirect_pages' = d.pages
        /\ pending' = d.pending /\ answered' = d.answered
    BY DEF SetDriver
  <2>. QED  BY <2>1 DEF Driver, Aside
<1>. HIDE DEF e
<1>3. Context' /\ Driver' \in Drivers
  BY <1>1, <1>2 DEF DriverOk, Steady, Context, SameContext, features
<1>4. IdsOk(Driver)' /\ Busy(Driver)' = Busy(e)
  BY <1>1, <1>2 DEF DriverOk, Steady, IdsOk, Busy, SameContext
<1>5. BiosOk(Driver)'
  BY <1>1, <1>2 DEF DriverOk, Steady, BiosOk, SameContext
<1>6. GrantsOk(Driver)'
  BY <1>1, <1>2 DEF DriverOk, Steady, GrantsOk, HeldOnce, CountOk, SameContext
<1>7. Full(Driver)'
  BY <1>1, <1>2 DEF DriverOk, Full
<1>8. /\ Context /\ Context' /\ feature_persistent' = feature_persistent
      /\ max_segments' = max_segments /\ host' = host /\ taken' = taken /\ mapped' = mapped
  BY <1>1, <1>3 DEF DriverOk, Steady, SameContext, features
<1>9. ASSUME Uniform PROVE UniformOk(Driver)'
  <2>1. PagesOk(e) /\ SegsOk(e) /\ KeepsNone(e)
        /\ Len(e.grants) + UsedTotal(e.shadow) = RingSize * (host.segs + 1)
    BY <1>1, <1>9 DEF DriverOk, Steady, UniformOk
  <2>2. PagesOk(Driver)'
    BY <1>2, <1>8, <2>1 DEF PagesOk, PageOf
  <2>3. SegsOk(Driver)'
    BY <1>2, <1>8, <2>1 DEF SegsOk
  <2>4. KeepsNone(Driver)'
    BY <1>2, <1>8, <2>1 DEF KeepsNone
  <2>5. (Len(Driver.grants) + UsedTotal(Driver.shadow) = RingSize * (host.segs + 1))'
    BY <1>2, <1>8, <2>1
  <2>. QED  BY <2>2, <2>3, <2>4, <2>5 DEF UniformOk
<1>10. (Uniform => FramesOk(Driver))'
  BY <1>1, <1>2, <1>8 DEF DriverOk, FramesOk, Indirect
<1>. QED  BY <1>1, <1>3, <1>4, <1>5, <1>6, <1>7, <1>9, <1>10 DEF DriverOk, Steady

(* What the request function, and the driver that kicks it, leaves behind. *)
Kicked ==
    /\ DriverOk(Driver)'
    /\ stopped' \in BOOLEAN /\ callback' \in BOOLEAN /\ bug' \in BOOLEAN
    /\ shortages' \in 0..MaxShortages
    /\ Uniform => bug' = FALSE /\ (stopped' => Busy(Driver)' # {} \/ callback')

Room(d) == RingSize - Len(d.ring) - Cardinality(taken) - Len(d.answers)

(* The slots left on the ring; if there are none, a request is in flight.  *)
LEMMA RoomTyped ==
  ASSUME NEW d, DriverOk(d)
  PROVE  /\ Room(d) \in Nat /\ Room(d) <= RingSize /\ Len(d.rq) \in Nat
         /\ Len(d.ring) + Cardinality(taken) + Len(d.answers) + Room(d) = RingSize
         /\ Room(d) = 0 => Busy(d) # {}
<1>1. d \in Drivers /\ IdsOk(d) /\ d.rq \in Seq(Requests) /\ RingSize \in Nat /\ RingSize # 0
  BY Constants DEF DriverOk, Steady, Drivers
<1>2. Len(d.rq) \in Nat
  BY <1>1
<1>3. /\ Len(d.free) + Cardinality(Busy(d)) = RingSize
      /\ Len(d.ring) + Cardinality(taken) + Len(d.answers) = Cardinality(Busy(d))
      /\ Cardinality(Busy(d)) \in Nat /\ Cardinality(taken) \in Nat
      /\ Len(d.free) \in Nat /\ Len(d.ring) \in Nat /\ Len(d.answers) \in Nat
  BY <1>1, IdsCount
<1>. DEFINE b == Cardinality(Busy(d))  r == Len(d.ring)  t == Cardinality(taken)
            a == Len(d.answers)  f == Len(d.free)
<1>4. /\ b \in Nat /\ r \in Nat /\ t \in Nat /\ a \in Nat /\ f \in Nat
      /\ f + b = RingSize /\ r + t + a = b
  BY <1>3
<1>5. Room(d) = RingSize - r - t - a
  BY DEF Room
<1>6. Busy(d) = {} => b = 0
  BY FS_EmptySet
<1>. HIDE DEF b, r, t, a, f
<1>7. Room(d) = f /\ r + t + a + Room(d) = RingSize /\ (f = 0 => b # 0) /\ f <= RingSize
  BY <1>1, <1>4, <1>5
<1>. QED  BY <1>2, <1>4, <1>6, <1>7 DEF r, t, a

(* do_blkif_request, with and without a shortage of references.            *)
LEMMA DoRequestsKeeps ==
  ASSUME NEW d, DriverOk(d), d.bug = FALSE, SameContext,
         shortages \in 0..MaxShortages, callback \in BOOLEAN, DoRequests(d, Room(d))
  PROVE  Kicked
<1>. DEFINE room == Room(d)
            most == IF Len(d.rq) < room THEN Len(d.rq) ELSE room
<1>1. /\ room \in Nat /\ Len(d.rq) \in Nat
      /\ Len(d.ring) + Cardinality(taken) + Len(d.answers) + room = RingSize
  BY RoomTyped
<1>2. most \in Nat /\ most <= Len(d.rq) /\ most <= room
  <2>. HIDE DEF room
  <2>. QED  BY <1>1
<1>3. d \in Drivers /\ IdsOk(d) /\ RingSize \in Nat
  BY Constants DEF DriverOk, Steady
<1>4. Len(d.ring) \in Nat /\ Cardinality(taken) \in Nat /\ Len(d.answers) \in Nat
  BY <1>3, IdsCount
<1>5. ASSUME NEW k \in 0..most
      PROVE  Queueing(d, QueueMany(d, k), k)
  <2>. HIDE DEF room, most
  <2>1. k \in Nat /\ k <= Len(d.rq) /\ k <= room
    BY <1>1, <1>2
  <2>2. Len(d.ring) + Cardinality(taken) + Len(d.answers) + k <= RingSize
    <3>. DEFINE z == Len(d.ring) + Cardinality(taken) + Len(d.answers)
    <3>1. z \in Nat /\ z + room = RingSize
      BY <1>1, <1>4
    <3>. HIDE DEF z
    <3>2. z + k <= RingSize
      BY <1>1, <1>3, <2>1, <3>1
    <3>. QED  BY <3>2 DEF z
  <2>. QED  BY <2>1, <2>2, QueueManyKeeps
<1>6. ASSUME NEW q, NEW k \in 0..most, Queueing(d, q, k), SetDriver(q)
      PROVE  /\ DriverOk(Driver)' /\ Busy(Driver)' = Busy(q)
             /\ bug' \in BOOLEAN /\ (Uniform => bug' = FALSE)
  <2>1. DriverOk(q) /\ (Uniform => q.bug = FALSE) /\ q.bug \in BOOLEAN
    BY <1>6 DEF Queueing, DriverOk, Steady, Drivers
  <2>2. bug' = q.bug
    BY <1>6 DEF SetDriver
  <2>3. DriverOk(Driver)' /\ Busy(Driver)' = Busy(q)
    BY <1>6, <2>1, SameDriver
  <2>. QED  BY <2>1, <2>2, <2>3
<1>. HIDE DEF most
<1>7. CASE \E q : /\ q = QueueMany(d, most) /\ SetDriver(q) /\ stopped' = (q.rq # <<>>)
                  /\ UNCHANGED <<callback, shortages>>
  <2>1. PICK q : /\ q = QueueMany(d, most) /\ SetDriver(q) /\ stopped' = (q.rq # <<>>)
                 /\ UNCHANGED <<callback, shortages>>
    BY <1>7
  <2>2. most \in 0..most /\ Queueing(d, q, most)
    BY <1>2, <1>5, <2>1
  <2>3. /\ DriverOk(Driver)' /\ Busy(Driver)' = Busy(q)
        /\ bug' \in BOOLEAN /\ (Uniform => bug' = FALSE)
    BY <1>6, <2>1, <2>2
  <2>4. stopped' \in BOOLEAN
    BY <2>1
  <2>5. ASSUME Uniform, stopped' PROVE Busy(q) # {}
    <3>1. DriverOk(q) /\ q.bug = FALSE /\ Queued(d, q, most)
      BY <2>2, <2>5 DEF Queueing
    <3>2. Len(q.rq) + most = Len(d.rq) /\ Len(q.ring) = Len(d.ring) + most
          /\ q.answers = d.answers
      BY <3>1 DEF Queued
    <3>3. q.rq \in Seq(Requests) /\ q.rq # <<>>
      BY <2>1, <2>5, <3>1 DEF DriverOk, Steady, Drivers
    <3>4. Len(q.rq) > 0
      BY <3>3
    <3>5. most = room
      BY <1>1, <1>2, <3>2, <3>4 DEF most
    <3>6. Len(q.ring) + Cardinality(taken) + Len(q.answers) = RingSize
      BY <1>1, <1>3, <1>4, <3>2, <3>5
    <3>7. Len(q.ring) + Cardinality(taken) + Len(q.answers) + Room(q) = RingSize
          /\ Room(q) \in Nat /\ (Room(q) = 0 => Busy(q) # {})
      BY <3>1, RoomTyped
    <3>8. Room(q) = 0
      BY <1>3, <3>6, <3>7
    <3>. QED  BY <3>7, <3>8
  <2>. QED  BY <2>1, <2>3, <2>4, <2>5 DEF Kicked
<1>8. CASE \E k \in 0..most - 1 : SetDriver(QueueMany(d, k)) /\ stopped' = TRUE /\ callback' = TRUE
                                  /\ shortages < MaxShortages /\ shortages' = shortages + 1
  <2>1. PICK k \in 0..most - 1 : SetDriver(QueueMany(d, k))
    BY <1>8
  <2>2. k \in 0..most
    BY <1>2
  <2>3. Queueing(d, QueueMany(d, k), k)
    BY <1>5, <2>2
  <2>4. DriverOk(Driver)' /\ bug' \in BOOLEAN /\ (Uniform => bug' = FALSE)
    BY <1>6, <2>1, <2>2, <2>3
  <2>5. shortages' \in 0..MaxShortages
    BY <1>8, BlkAssumption
  <2>. QED  BY <1>8, <2>4, <2>5 DEF Kicked
<1>9. (\E q : /\ q = QueueMany(d, most) /\ SetDriver(q) /\ stopped' = (q.rq # <<>>)
              /\ UNCHANGED <<callback, shortages>>)
      \/ (\E k \in 0..most - 1 : SetDriver(QueueMany(d, k)) /\ stopped' = TRUE /\ callback' = TRUE
              /\ shortages < MaxShortages /\ shortages' = shortages + 1)
  BY DEF DoRequests, most
<1>. QED  BY <1>7, <1>8, <1>9

(* kick_pending_request_queues *)
LEMMA KickKeeps ==
  ASSUME NEW d, DriverOk(d), d.bug = FALSE, SameContext,
         shortages \in 0..MaxShortages, callback \in BOOLEAN, stopped \in BOOLEAN,
         Kick(d, Room(d))
  PROVE  Kicked
<1>1. CASE Room(d) > 0
  <2>1. DoRequests(d, Room(d))
    BY <1>1 DEF Kick
  <2>. QED  BY <2>1, DoRequestsKeeps
<1>2. CASE ~(Room(d) > 0)
  <2>1. SetDriver(d) /\ UNCHANGED <<stopped, callback, shortages>>
    BY <1>2 DEF Kick
  <2>2. Busy(d) # {}
    BY <1>2, RoomTyped
  <2>3. bug' = FALSE
    BY <2>1 DEF SetDriver
  <2>4. DriverOk(Driver)' /\ Busy(Driver)' = Busy(d)
    BY <2>1, SameDriver
  <2>. QED  BY <2>1, <2>2, <2>3, <2>4 DEF Kicked
<1>. QED  BY <1>1, <1>2

--------------------------------------------------------------------------------
(* The invariant holds at first, and each action keeps it.                 *)

(* A step that leaves these alone leaves the driver as it is.              *)
CoreVars == <<rq, shadow_free, shadow, ring, answers, grants, persistent_gnts_c, granted,
              indirect_pages, pending, answered, taken, mapped, feature_persistent,
              max_segments, host, size, bio_list>>

(* Such a step keeps what is said of the driver.                           *)
LEMMA CoreSame ==
  ASSUME UNCHANGED CoreVars
  PROVE  /\ Driver' = Driver
         /\ DriverOk(Driver) => DriverOk(Driver)'
         /\ BiosOk(Driver) => BiosOk(Driver)'
         /\ Full(Driver) => Full(Driver)'
         /\ PagesOk(Driver) => PagesOk(Driver)'
         /\ SegsOk(Driver) => SegsOk(Driver)'
         /\ InFlight' = InFlight
<1>1. Driver' = Driver
  BY DEF CoreVars, Driver
<1>2. UNCHANGED <<shadow, taken, mapped, feature_persistent, max_segments, host, size, bio_list>>
  BY DEF CoreVars
<1>3. Context => Context'
  BY <1>2 DEF Context
<1>4. IdsOk(Driver) => IdsOk(Driver)'
  BY <1>1, <1>2 DEF IdsOk, Busy
<1>5. BiosOk(Driver) => BiosOk(Driver)'
  BY <1>1, <1>2 DEF BiosOk
<1>6. GrantsOk(Driver) => GrantsOk(Driver)'
  BY <1>1, <1>2 DEF GrantsOk, HeldOnce, CountOk
<1>7. Full(Driver) => Full(Driver)'
  BY <1>1 DEF Full
<1>8. PagesOk(Driver) => PagesOk(Driver)'
  BY <1>1, <1>2 DEF PagesOk, PageOf
<1>9. SegsOk(Driver) => SegsOk(Driver)'
  BY <1>1, <1>2 DEF SegsOk
<1>10. UniformOk(Driver) => UniformOk(Driver)'
  BY <1>1, <1>2, <1>8, <1>9 DEF UniformOk, KeepsNone
<1>11. InFlight' = InFlight
  BY <1>2 DEF InFlight
<1>12. FramesOk(Driver) => FramesOk(Driver)'
  BY <1>1, <1>2 DEF FramesOk, Indirect
<1>13. Steady(Driver) => Steady(Driver)'
  BY <1>1, <1>3, <1>4, <1>5, <1>6, <1>10 DEF Steady
<1>14. DriverOk(Driver) => DriverOk(Driver)'
  BY <1>7, <1>12, <1>13 DEF DriverOk
<1>. QED  BY <1>1, <1>5, <1>7, <1>8, <1>9, <1>11, <1>14

(* A device about to be connected, with a ring that is empty.              *)
Ready ==
    /\ Context /\ Driver \in Drivers /\ BiosOk(Driver)
    /\ AllIdle /\ NoneBusy /\ NoGrants /\ shadow_free = ShadowInit
    /\ Len(grants) <= RingSize * (MaxSegs + 1)
    /\ \A i \in 1..Len(grants) : grants[i].gref = NoRef
    /\ Uniform => /\ Len(grants) = RingSize * (host.segs + 1)
                  /\ PagesOk(Driver) /\ SegsOk(Driver)
                  /\ Indirect => indirect_pages = RingSize

(* With such a ring and list the driver is in order.                       *)
LEMMA ReadyConnects == Ready => DriverOk(Driver)
<1>. SUFFICES ASSUME Ready PROVE DriverOk(Driver)
  OBVIOUS
<1>. DEFINE d == Driver
<1>1. /\ d.shadow = [id \in Ids |-> Idle] /\ d.free = ShadowInit /\ d.ring = <<>>
      /\ d.answers = <<>> /\ d.grants = grants /\ d.granted = {} /\ d.count = 0
      /\ taken = {} /\ mapped = {}
  BY DEF Ready, AllIdle, NoneBusy, NoGrants, Driver
<1>2. grants \in Seq(Grants) /\ d \in Drivers
  BY DEF Ready, Driver, Drivers
<1>. HIDE DEF d
<1>3. \A id \in Ids : d.shadow[id] = Idle
  BY <1>1
<1>4. Busy(d) = {}
  BY <1>3 DEF Busy, Idle
<1>5. Injective(ShadowInit) /\ Members(ShadowInit) = Ids
  <2>1. RingSize \in Nat
    BY Constants
  <2>2. ShadowInit \in Seq(Ids) /\ Len(ShadowInit) = RingSize
        /\ \A i \in 1..RingSize : ShadowInit[i] = i - 1
    BY <2>1, Indices DEF ShadowInit
  <2>3. Injective(ShadowInit)
    BY <2>1, <2>2 DEF Injective
  <2>4. \A id \in Ids : id \in Members(ShadowInit)
    <3>1. SUFFICES ASSUME NEW id \in Ids PROVE id \in Members(ShadowInit)
      OBVIOUS
    <3>2. id + 1 \in 1..RingSize /\ (id + 1) - 1 = id
      BY Indices
    <3>. QED  BY <2>2, <3>2 DEF Members
  <2>5. Members(ShadowInit) \subseteq Ids
    BY <2>2, Indices DEF Members
  <2>. QED  BY <2>3, <2>4, <2>5
<1>6. Members(<<>>) = {} /\ Injective(<<>>)
  BY DEF Members, Injective
<1>7. IdsOk(d)
  BY <1>1, <1>4, <1>5, <1>6 DEF IdsOk
<1>8. \A id \in Ids : d.shadow[id].used = <<>> /\ Len(d.shadow[id].used) = 0
  BY <1>3 DEF Idle
<1>9. UsedTotal(d.shadow) = 0
  <2>. DEFINE w == [r \in Reqs |-> 0]
  <2>1. w \in [Reqs -> Nat] /\ w[NoRequest] = 0
    BY DEF Reqs
  <2>. HIDE DEF w
  <2>2. UsedTotal([id \in Ids |-> Idle]) = 0
    BY <2>1, AllIdleSums
  <2>. QED  BY <1>1, <2>2
<1>10. RefsIn(grants) = {} /\ RefsIn(<<>>) = {} /\ Once(grants) /\ Once(<<>>)
  BY DEF Ready, RefsIn, Once
<1>11. HeldOnce(d)
  BY <1>1, <1>8, <1>10 DEF HeldOnce
<1>12. CountOk(d)
  <2>1. Len(grants) \in Nat
    BY <1>2
  <2>2. d.count \in 0..Len(d.grants)
    BY <1>1, <2>1
  <2>3. \A i \in 1..Len(d.grants) : d.grants[i].gref # NoRef <=> i <= d.count
    BY <1>1, <2>1 DEF Ready
  <2>4. Cardinality(d.granted) = d.count + UsedTotal(d.shadow)
    BY <1>1, <1>9, FS_EmptySet
  <2>5. Len(d.grants) + UsedTotal(d.shadow) <= RingSize * (MaxSegs + 1)
    BY <1>1, <1>9, <2>1 DEF Ready
  <2>. QED  BY <1>8, <2>2, <2>3, <2>4, <2>5 DEF CountOk
<1>13. GrantsOk(d)
  BY <1>1, <1>11, <1>12 DEF GrantsOk
<1>14. Full(d)
  <2>1. \A id \in Ids : d.shadow[id].req.n = 0
    BY <1>3 DEF Idle, NoRequest
  <2>. QED  BY <1>8, <2>1, Needs DEF Full
<1>15. ASSUME Uniform PROVE UniformOk(d)
  <2>1. PagesOk(d) /\ SegsOk(d) /\ Len(grants) = RingSize * (host.segs + 1)
    BY <1>15 DEF Ready, d
  <2>2. KeepsNone(d)
    BY <1>1 DEF KeepsNone
  <2>3. Len(grants) \in Nat
    BY <1>2
  <2>4. Len(d.grants) + UsedTotal(d.shadow) = RingSize * (host.segs + 1)
    BY <1>1, <1>9, <2>1, <2>3
  <2>. QED  BY <2>1, <2>2, <2>4 DEF UniformOk
<1>16. ASSUME Uniform PROVE FramesOk(d)
  <2>1. Large(d.shadow) = {}
    <3>1. \A id \in Ids : d.shadow[id].req.n = 0
      BY <1>3 DEF Idle, NoRequest
    <3>2. ~(0 > Direct)
      BY BlkAssumption
    <3>. QED  BY <3>1, <3>2 DEF Large
  <2>2. Cardinality(Large(d.shadow)) = 0 /\ RingSize \in Nat
    BY <2>1, FS_EmptySet, Constants
  <2>3. Indirect => d.pages = RingSize
    BY <1>16 DEF Ready, d, Driver
  <2>. QED  BY <2>2, <2>3 DEF FramesOk
<1>. QED  BY <1>2, <1>7, <1>13, <1>14, <1>15, <1>16 DEF Ready, DriverOk, Steady, d

(* The same of the next state.                                             *)
LEMMA ReadyNext == Ready' => DriverOk(Driver)'
<1>1. Ready => DriverOk(Driver)
  BY ReadyConnects
<1>. QED  BY <1>1, PTL

(* The types of what is in the driver record.                              *)
Fields ==
    /\ rq \in Seq(Requests) /\ shadow_free \in Seq(Ids) /\ shadow \in [Ids -> Shadows]
    /\ ring \in Seq(Ids) /\ answers \in Seq(Ids) /\ grants \in Seq(Grants)
    /\ persistent_gnts_c \in Nat /\ granted \subseteq Refs /\ indirect_pages \in Nat
    /\ pending \in [Bios -> Int] /\ answered \in [Bios -> Nat]

(* The driver record is typed if its fields are.                           *)
LEMMA DriverFields == Driver \in Drivers <=> Fields
  BY DEF Driver, Drivers, Fields

(* The same of the next state.                                             *)
LEMMA FieldsNext == Fields' => Driver' \in Drivers
<1>1. (Driver \in Drivers)' <=> Fields'
  BY DriverFields, PTL
<1>. QED  BY <1>1

(* The initial states.                                                     *)
LEMMA InvInit == Init => Inv
<1>. SUFFICES ASSUME Init PROVE Inv
  OBVIOUS
<1>. USE DEF Init
<1>1. Idle \in Shadows /\ \A id \in Ids : shadow[id] = Idle
  BY DEF Shadows, Idle
<1>2. Driver \in Drivers
  <2>1. shadow \in [Ids -> Shadows]
    BY <1>1
  <2>2. pending \in [Bios -> Int] /\ answered \in [Bios -> Nat]
    OBVIOUS
  <2>3. <<>> \in Seq(Requests) /\ <<>> \in Seq(Ids) /\ <<>> \in Seq(Grants)
    OBVIOUS
  <2>. QED  BY <2>1, <2>2, <2>3 DEF Driver, Drivers
<1>3. Types
  <2>1. size \in [Bios -> 0..MaxSegs]
    BY Constants
  <2>2. max_segments \in Segs /\ bio_list \in Seq(Requests)
    BY Constants
  <2>3. migrations \in 0..MaxMigrations /\ shortages \in 0..MaxShortages
    BY BlkAssumption
  <2>. QED  BY <1>2, <2>1, <2>2, <2>3 DEF Types, Phases, Flags, Data
<1>4. BiosOk(Driver)
  <2>1. \A w \in [Reqs -> Nat] : w[NoRequest] = 0 => Sum(Driver, w) = 0
    <3>1. SUFFICES ASSUME NEW w \in [Reqs -> Nat], w[NoRequest] = 0 PROVE Sum(Driver, w) = 0
      OBVIOUS
    <3>2. Weigh(Shadowed(shadow), w) = 0
      BY <3>1, AllIdleSums
    <3>3. NoRequest \in Reqs
      BY DEF Reqs
    <3>4. Weigh(<<>>, w) = 0
      BY <3>3, WeighSmall
    <3>. QED  BY <3>2, <3>4 DEF Sum, Driver
  <2>2. \A b \in Bios : Sum(Driver, PageW(b)) = 0 /\ Sum(Driver, PieceW(b)) = 0
    BY <2>1, Weights
  <2>5. Driver.answered = answered /\ Driver.pending = pending
    BY DEF Driver
  <2>3. BiosSum(Driver)
    BY <2>2, <2>5 DEF BiosSum
  <2>4. bio_list \in Seq(Requests)
    OBVIOUS
  <2>. QED  BY <1>2, <2>3, <2>4, BiosWeighed
<1>5. Fresh
  BY DEF Fresh, AllIdle, NoneBusy, NoGrants
<1>6. UniformInv
  BY DEF UniformInv
<1>. QED  BY <1>3, <1>4, <1>5, <1>6 DEF Inv

(* A step that moves only the flags of the device, the queue and the       *)
(* xenwatch thread, as the phase it is in allows.                          *)
Allowed ==
    /\ connected = "disconnected" =>
          /\ pc' \in {"idle", "talk"} /\ callback' = FALSE /\ work' = FALSE
          /\ state' # "Initialising" => shadow_free = ShadowInit
          /\ backend' = "Connected" => state' # "Initialising"
    /\ connected = "suspended" => pc' # "resubmit" /\ (pc' = "reconnect" => pc = "reconnect")
    /\ connected = "connected" =>
          /\ pc' \in {"idle", "talk", "resubmit"}
          /\ pc' = "talk" \/ backend' # "Connected" => state' = "Connected"
          /\ stopped' => stopped
          /\ (callback => callback' \/ work') /\ (work => work')
    /\ bio_list # <<>> => pc' \in {"reconnect", "resubmit"}

(* Such a step keeps the invariant.                                        *)
LEMMA QuietKeeps ==
  ASSUME Inv, UNCHANGED CoreVars, UNCHANGED <<connected, gd, max_segments, bug>>,
         Allowed, Types'
  PROVE  Inv'
<1>1. /\ Driver' = Driver
      /\ DriverOk(Driver) => DriverOk(Driver)'
      /\ BiosOk(Driver) => BiosOk(Driver)'
      /\ Full(Driver) => Full(Driver)'
      /\ PagesOk(Driver) => PagesOk(Driver)'
      /\ SegsOk(Driver) => SegsOk(Driver)'
      /\ InFlight' = InFlight
  BY CoreSame
<1>2. UNCHANGED <<rq, shadow_free, shadow, ring, answers, grants, persistent_gnts_c, granted, indirect_pages,
                  taken, mapped, feature_persistent, host, bio_list>>
  BY DEF CoreVars
<1>3. UNCHANGED <<AllIdle, NoneBusy, NoGrants>>
  BY <1>2 DEF AllIdle, NoneBusy, NoGrants
<1>4. BiosOk(Driver)'
  BY <1>1 DEF Inv
<1>5. (bio_list # <<>> => pc \in {"reconnect", "resubmit"})'
  BY <1>2 DEF Allowed
<1>6. (connected = "disconnected" => Fresh)'
  BY <1>2, <1>3 DEF Inv, Fresh, Allowed
<1>7. (connected = "suspended" => Suspended)'
  BY <1>1, <1>2, <1>3 DEF Inv, Suspended, Allowed
<1>8. (connected = "connected" => Connected)'
  BY <1>1 DEF Inv, Connected, Allowed
<1>9. (Uniform => UniformInv)'
  <2>1. SUFFICES ASSUME Uniform PROVE UniformInv'
    OBVIOUS
  <2>2. UniformInv
    BY <2>1 DEF Inv
  <2>3. Indirect' <=> Indirect
    BY <1>2 DEF Indirect
  <2>4. MemoryLasts => bug' = FALSE
    BY <2>2 DEF UniformInv
  <2>5. connected' # "disconnected" =>
          feature_persistent' = host'.persistent /\ PagesOk(Driver)' /\ SegsOk(Driver)'
    BY <1>1, <1>2, <2>2 DEF UniformInv
  <2>6. connected' = "suspended" =>
          Len(grants') = RingSize * (host'.segs + 1) /\ (Indirect' => indirect_pages' = RingSize)
    BY <1>2, <2>2, <2>3 DEF UniformInv
  <2>7. connected' = "connected" /\ stopped' => InFlight' # {} \/ callback' \/ work'
    BY <1>1, <2>2 DEF UniformInv, Allowed
  <2>. QED  BY <2>4, <2>5, <2>6, <2>7 DEF UniformInv
<1>. QED  BY <1>4, <1>5, <1>6, <1>7, <1>8, <1>9 DEF Inv

(* blkif_restart_queue_callback                                            *)
LEMMA CallbackFiresKeeps == Inv /\ CallbackFires => Inv'
<1>. SUFFICES ASSUME Inv, CallbackFires PROVE Inv'
  OBVIOUS
<1>1. UNCHANGED CoreVars /\ UNCHANGED <<connected, gd, max_segments, bug>>
  BY DEF CallbackFires, CoreVars, devVars, features, ringVars, grantVars, watchVars, envVars,
         bioVars
<1>2. UNCHANGED <<state, pc, backend, stopped, bio_list>> /\ callback /\ work' = TRUE
  BY DEF CallbackFires, devVars, watchVars, envVars
<1>3. Allowed
  BY <1>2 DEF Inv, Fresh, Suspended, Connected, Allowed
<1>4. Types'
  <2>1. Driver' = Driver
    BY <1>1, CoreSame
  <2>2. /\ connected' = connected /\ state' = state /\ gd' = gd
        /\ feature_persistent' = feature_persistent /\ max_segments' = max_segments
        /\ bio_list' = bio_list /\ stopped' = stopped /\ irq' = irq /\ watch' = watch
        /\ bug' = bug /\ taken' = taken /\ mapped' = mapped /\ pc' = pc /\ backend' = backend
        /\ host' = host /\ migrations' = migrations /\ shortages' = shortages /\ size' = size
        /\ callback' = FALSE /\ work' = TRUE
    BY DEF CallbackFires, devVars, features, ringVars, grantVars, watchVars, envVars, bioVars
  <2>3. Phases /\ Flags /\ Data
    BY DEF Inv, Types
  <2>4. Phases'
    BY <2>2, <2>3 DEF Phases
  <2>5. Flags'
    BY <2>2, <2>3 DEF Flags
  <2>6. Data'
    BY <2>1, <2>2, <2>3 DEF Data
  <2>. QED  BY <2>4, <2>5, <2>6 DEF Types
<1>. QED  BY <1>1, <1>3, <1>4, QuietKeeps

(* The back end waits for the driver.                                      *)
LEMMA BackendWaitsKeeps == Inv /\ BackendWaits => Inv'
<1>. SUFFICES ASSUME Inv, BackendWaits PROVE Inv'
  OBVIOUS
<1>1. UNCHANGED CoreVars /\ UNCHANGED <<connected, gd, max_segments, bug>>
  BY DEF BackendWaits, CoreVars, devVars, features, queueVars, ringVars, grantVars, watchVars,
         bioVars
<1>2. UNCHANGED <<state, pc, stopped, callback, work, bio_list>>
      /\ backend = "Initialising" /\ backend' = "InitWait"
  BY DEF BackendWaits, devVars, watchVars, queueVars
<1>3. Allowed
  BY <1>2 DEF Inv, Fresh, Suspended, Connected, Allowed
<1>4. Types'
  <2>1. Driver' = Driver
    BY <1>1, CoreSame
  <2>. QED  BY <1>1, <2>1
       DEF Inv, Types, Phases, Flags, Data, BackendWaits, devVars, features, queueVars,
           ringVars, grantVars, watchVars, bioVars
<1>. QED  BY <1>1, <1>3, <1>4, QuietKeeps

(* The back end has connected to the ring.                                 *)
LEMMA BackendConnectsKeeps == Inv /\ BackendConnects => Inv'
<1>. SUFFICES ASSUME Inv, BackendConnects PROVE Inv'
  OBVIOUS
<1>1. UNCHANGED CoreVars /\ UNCHANGED <<connected, gd, max_segments, bug>>
  BY DEF BackendConnects, CoreVars, devVars, features, queueVars, ringVars, grantVars, watchVars,
         bioVars
<1>2. UNCHANGED <<state, pc, stopped, callback, work, bio_list>>
      /\ backend = "InitWait" /\ backend' = "Connected" /\ state \in AtLeastInitialised
  BY DEF BackendConnects, devVars, watchVars, queueVars
<1>3. Allowed
  BY <1>2 DEF Inv, Fresh, Suspended, Connected, Allowed, AtLeastInitialised
<1>4. Types'
  <2>1. Driver' = Driver
    BY <1>1, CoreSame
  <2>. QED  BY <1>1, <2>1
       DEF Inv, Types, Phases, Flags, Data, BackendConnects, devVars, features, queueVars,
           ringVars, grantVars, watchVars, bioVars
<1>. QED  BY <1>1, <1>3, <1>4, QuietKeeps

(* blkfront_resume of a device that is still connected.                    *)
LEMMA ResumeInPlaceKeeps == Inv /\ ResumeInPlace => Inv'
<1>. SUFFICES ASSUME Inv, ResumeInPlace PROVE Inv'
  OBVIOUS
<1>1. UNCHANGED CoreVars /\ UNCHANGED <<connected, gd, max_segments, bug>>
  BY DEF ResumeInPlace, CoreVars, features, queueVars, ringVars, grantVars, watchVars, bioVars
<1>2. UNCHANGED <<pc, backend, stopped, callback, work, bio_list>> /\ pc = "idle"
      /\ backend = "Connected" /\ connected = "connected"
  BY DEF ResumeInPlace, watchVars, queueVars
<1>3. Allowed
  BY <1>2 DEF Inv, Allowed
<1>4. Types'
  <2>1. Driver' = Driver
    BY <1>1, CoreSame
  <2>2. migrations' \in 0..MaxMigrations
    BY BlkAssumption DEF ResumeInPlace, Inv, Types, Data
  <2>. QED  BY <1>1, <2>1, <2>2
       DEF Inv, Types, Phases, Flags, Data, ResumeInPlace, features, queueVars,
           ringVars, grantVars, watchVars, bioVars
<1>. QED  BY <1>1, <1>3, <1>4, QuietKeeps

(* talk_to_blkback                                                         *)
LEMMA TalkKeeps == Inv /\ TalkToBlkback => Inv'
<1>. SUFFICES ASSUME Inv, TalkToBlkback PROVE Inv'
  OBVIOUS
<1>0. /\ UNCHANGED <<connected, gd, feature_persistent, max_segments, rq, stopped, callback, work,
                     shadow, ring, taken, answers, irq, grants, persistent_gnts_c, granted, mapped,
                     indirect_pages, bio_list, backend, host, watch, migrations, shortages, size, pending,
                     answered, bug>>
      /\ pc = "talk"
  BY DEF TalkToBlkback, features, queueVars, grantVars, envVars, bioVars
<1>1. UNCHANGED <<connected, gd, max_segments, bug>> /\ bio_list = <<>>
  BY <1>0 DEF Inv
<1>2. CASE UNCHANGED shadow_free
  <2>1. UNCHANGED CoreVars
    BY <1>0, <1>2 DEF CoreVars
  <2>2. Driver' = Driver
    BY <2>1, CoreSame
  <2>3. \/ state \in AtLeastInitialised /\ pc' = "idle" /\ state' = state
        \/ state \notin AtLeastInitialised /\ state' = "Initialised"
           /\ IF connected = "suspended" THEN pc' = "recover"
              ELSE pc' = "idle" /\ shadow_free' = ShadowInit
    BY DEF TalkToBlkback
  <2>4. Types'
    BY <1>0, <2>2, <2>3 DEF Inv, Types, Phases, Flags, Data
  <2>5. Allowed
    <3>1. connected = "connected" => state = "Connected"
      BY <1>0 DEF Inv, Connected
    <3>2. connected = "disconnected" => Fresh
      BY DEF Inv
    <3>. QED  BY <1>0, <1>1, <1>2, <2>3, <3>1, <3>2 DEF Allowed, AtLeastInitialised, Fresh
  <2>. QED  BY <1>1, <2>1, <2>4, <2>5, QuietKeeps
<1>3. CASE shadow_free' # shadow_free
  <2>1. /\ connected # "suspended" /\ pc' = "idle" /\ shadow_free' = ShadowInit
        /\ state \notin AtLeastInitialised /\ state' = "Initialised"
    BY <1>3 DEF TalkToBlkback
  <2>2. connected = "disconnected"
    <3>1. connected = "connected" => state = "Connected"
      BY <1>0 DEF Inv, Connected
    <3>. QED  BY <2>1, <3>1 DEF Inv, Types, Phases, Flags, Data, AtLeastInitialised
  <2>3. Fresh
    BY <2>2 DEF Inv
  <2>5. ShadowInit \in Seq(Ids)
    BY Constants, Indices DEF ShadowInit
  <2>6. Driver' \in Drivers
    <3>1. Fields
      BY DriverFields DEF Inv, Types, Data
    <3>2. Fields'
      BY <1>0, <2>1, <2>5, <3>1 DEF Fields
    <3>. QED  BY <3>2, FieldsNext
  <2>7. Types'
    BY <1>0, <2>1, <2>6 DEF Inv, Types, Phases, Flags, Data
  <2>8. BiosOk(Driver)'
    BY <1>0 DEF Inv, BiosOk, Driver
  <2>9. Fresh'
    BY <1>0, <2>1, <2>3 DEF Fresh, AllIdle, NoneBusy, NoGrants
  <2>10. (Uniform => UniformInv)'
    BY <1>0, <2>2 DEF Inv, UniformInv
  <2>. QED  BY <1>0, <1>1, <2>2, <2>7, <2>8, <2>9, <2>10 DEF Inv
<1>. QED  BY <1>2, <1>3

(* blkback_changed, but for the first connection.                          *)
LEMMA WatchKeeps ==
  ASSUME Inv, BlkbackChanged, ~(backend = "Connected" /\ connected = "disconnected")
  PROVE  Inv'
<1>1. /\ UNCHANGED <<connected, state, gd, feature_persistent, max_segments, rq, stopped, callback,
                     work, shadow_free, shadow, ring, taken, answers, irq, grants,
                     persistent_gnts_c, granted, mapped, indirect_pages, shortages, size, pending,
                     answered, bug,
                     bio_list, backend, host, migrations>>
      /\ pc = "idle" /\ watch' = FALSE
      /\ \/ backend = "InitWait" /\ pc' = "talk"
         \/ connected = "suspended" /\ pc' = "recover"
         \/ pc' = pc
  <2>1. connected \in {"disconnected", "connected", "suspended"}
    BY DEF Inv, Types, Phases, Flags, Data
  <2>. USE DEF devVars, features, queueVars, ringVars, grantVars, bioVars
  <2>2. CASE backend = "InitWait"
    BY <2>2 DEF BlkbackChanged
  <2>3. CASE backend = "Connected"
    <3>1. Connect
      BY <2>3 DEF BlkbackChanged
    <3>2. CASE connected = "connected"
      BY <2>3, <3>1, <3>2 DEF BlkbackChanged, Connect
    <3>3. CASE connected = "suspended"
      BY <2>3, <3>1, <3>3 DEF BlkbackChanged, Connect
    <3>. QED  BY <2>1, <2>3, <3>2, <3>3
  <2>4. CASE backend \notin {"InitWait", "Connected"}
    BY <2>4 DEF BlkbackChanged
  <2>. QED  BY <2>2, <2>3, <2>4
<1>2. UNCHANGED CoreVars /\ UNCHANGED <<connected, gd, max_segments, bug>>
  BY <1>1 DEF CoreVars
<1>3. Allowed
  <2>1. bio_list = <<>> /\ (connected = "disconnected" => Fresh)
        /\ (connected = "connected" => Connected)
    BY <1>1 DEF Inv
  <2>. QED  BY <1>1, <2>1 DEF Allowed, Fresh, Connected
<1>4. Types'
  <2>1. Driver' = Driver
    BY <1>2, CoreSame
  <2>2. /\ connected' = connected /\ state' = state /\ gd' = gd
        /\ feature_persistent' = feature_persistent /\ max_segments' = max_segments
        /\ bio_list' = bio_list /\ stopped' = stopped /\ callback' = callback /\ work' = work
        /\ irq' = irq /\ bug' = bug /\ taken' = taken /\ mapped' = mapped /\ backend' = backend
        /\ host' = host /\ migrations' = migrations /\ shortages' = shortages /\ size' = size
        /\ watch' = FALSE /\ pc' \in {"idle", "talk", "recover"}
    BY <1>1
  <2>3. Phases /\ Flags /\ Data
    BY DEF Inv, Types
  <2>4. Phases'
    BY <2>2, <2>3 DEF Phases
  <2>5. Flags'
    BY <2>2, <2>3 DEF Flags
  <2>6. Data'
    BY <2>1, <2>2, <2>3 DEF Data
  <2>. QED  BY <2>4, <2>5, <2>6 DEF Types
<1>. QED  BY <1>2, <1>3, <1>4, QuietKeeps

(* After the request function has run the device is connected.             *)
LEMMA KickedKeeps ==
  ASSUME Inv, Kicked, Phases', connected' = "connected", gd' = TRUE,
         work' \in BOOLEAN, irq' \in BOOLEAN,
         UNCHANGED <<feature_persistent, max_segments, taken, mapped, bio_list, host, watch,
                     migrations, size>>,
         pc' \in {"idle", "talk", "resubmit"},
         pc' = "talk" \/ backend' # "Connected" => state' = "Connected",
         bio_list # <<>> => pc' = "resubmit",
         connected # "disconnected"
  PROVE  Inv'
<1>1. /\ DriverOk(Driver)' /\ shortages' \in 0..MaxShortages
      /\ stopped' \in BOOLEAN /\ callback' \in BOOLEAN /\ bug' \in BOOLEAN
      /\ Uniform => bug' = FALSE /\ (stopped' => Busy(Driver)' # {} \/ callback')
  BY DEF Kicked
<1>2. Driver' \in Drivers /\ BiosOk(Driver)' /\ (Uniform => UniformOk(Driver))'
  BY <1>1 DEF DriverOk, Steady
<1>3. Types'
  <2>1. Flags /\ Data
    BY DEF Inv, Types
  <2>2. Flags'
    BY <1>1, <2>1 DEF Flags
  <2>3. Data'
    BY <1>1, <1>2, <2>1 DEF Data
  <2>. QED  BY <2>2, <2>3 DEF Types
<1>4. Connected'
  BY <1>1 DEF Connected
<1>5. (Uniform => UniformInv)'
  <2>1. SUFFICES ASSUME Uniform PROVE UniformInv'
    OBVIOUS
  <2>2. PagesOk(Driver)' /\ SegsOk(Driver)'
    BY <1>2, <2>1 DEF UniformOk
  <2>3. feature_persistent = host.persistent
    BY <2>1 DEF Inv, UniformInv
  <2>4. Busy(Driver)' # {} => InFlight' # {}
    BY DEF Busy, InFlight, Driver, Idle
  <2>. QED  BY <1>1, <2>1, <2>2, <2>3, <2>4 DEF UniformInv
<1>. QED  BY <1>2, <1>3, <1>4, <1>5 DEF Inv

(* The room RoomLeft computes is that of the driver record.                *)
LEMMA DriverRoom == Room(Driver) = RoomLeft /\ Driver.bug = FALSE
BY DEF Room, RoomLeft, Driver

(* The request function, run by the block layer.                           *)
LEMMA RunQueueKeeps == Inv /\ RunQueue => Inv'
<1>. SUFFICES ASSUME Inv, RunQueue PROVE Inv'
  OBVIOUS
<1>1. /\ connected' = connected /\ state' = state /\ gd' = gd /\ pc' = pc /\ backend' = backend
      /\ work' = work /\ irq' = irq
      /\ UNCHANGED <<feature_persistent, max_segments, taken, mapped, bio_list, host, watch,
                     migrations, size>>
  BY DEF RunQueue, devVars, features, watchVars
<1>2. CASE connected = "connected"
  <2>1. DoRequests(Driver, Room(Driver))
    BY <1>2, DriverRoom DEF RunQueue
  <2>2. Connected
    BY <1>2 DEF Inv
  <2>3. Kicked
    <3>1. SameContext
      BY <1>1 DEF SameContext, features
    <3>2. shortages \in 0..MaxShortages /\ callback \in BOOLEAN
      BY DEF Inv, Types, Flags, Data
    <3>3. DriverOk(Driver) /\ Driver.bug = FALSE
      BY <2>2, DriverRoom DEF Connected
    <3>. QED  BY <2>1, <3>1, <3>2, <3>3, DoRequestsKeeps
  <2>4. Phases' /\ work' \in BOOLEAN /\ irq' \in BOOLEAN
    BY <1>1 DEF Inv, Types, Phases, Flags
  <2>5. /\ gd' = TRUE /\ pc' \in {"idle", "talk", "resubmit"}
        /\ pc' = "talk" \/ backend' # "Connected" => state' = "Connected"
    BY <1>1, <2>2 DEF Connected
  <2>6. bio_list # <<>> => pc' = "resubmit"
    BY <1>1, <2>2 DEF Inv, Connected
  <2>. QED  BY <1>1, <1>2, <2>3, <2>4, <2>5, <2>6, KickedKeeps
<1>3. CASE connected # "connected"
  <2>1. stopped' = TRUE /\ UNCHANGED <<rq, shadow_free, shadow, ring, answers, grants,
                                       persistent_gnts_c, granted, indirect_pages, pending, answered,
                                       bug, callback, shortages>>
    BY <1>3 DEF RunQueue
  <2>2. UNCHANGED CoreVars /\ UNCHANGED <<connected, gd, max_segments, bug>>
    BY <1>1, <2>1 DEF CoreVars
  <2>3. Allowed
    BY <1>1, <1>3, <2>1 DEF Inv, Fresh, Suspended, Allowed
  <2>4. Types'
    <3>1. Driver' = Driver
      BY <2>2, CoreSame
    <3>2. Phases /\ Flags /\ Data
      BY DEF Inv, Types
    <3>3. Phases' /\ Flags'
      BY <1>1, <2>1, <3>2 DEF Phases, Flags
    <3>4. Data'
      BY <1>1, <2>1, <3>1, <3>2 DEF Data
    <3>. QED  BY <3>3, <3>4 DEF Types
  <2>. QED  BY <2>2, <2>3, <2>4, QuietKeeps
<1>. QED  BY <1>2, <1>3

(* blkif_restart_queue                                                     *)
LEMMA RestartQueueKeeps == Inv /\ RestartQueue => Inv'
<1>. SUFFICES ASSUME Inv, RestartQueue PROVE Inv'
  OBVIOUS
<1>1. /\ connected' = connected /\ state' = state /\ gd' = gd /\ pc' = pc /\ backend' = backend
      /\ work' = FALSE /\ irq' = irq
      /\ UNCHANGED <<feature_persistent, max_segments, taken, mapped, bio_list, host, watch,
                     migrations, size>>
  BY DEF RestartQueue, devVars, features, watchVars
<1>2. CASE connected = "connected"
  <2>1. Kick(Driver, Room(Driver))
    BY <1>2, DriverRoom DEF RestartQueue
  <2>2. Connected
    BY <1>2 DEF Inv
  <2>3. Kicked
    <3>1. SameContext
      BY <1>1 DEF SameContext, features
    <3>2. shortages \in 0..MaxShortages /\ callback \in BOOLEAN /\ stopped \in BOOLEAN
      BY DEF Inv, Types, Flags, Data
    <3>3. DriverOk(Driver) /\ Driver.bug = FALSE
      BY <2>2, DriverRoom DEF Connected
    <3>. QED  BY <2>1, <3>1, <3>2, <3>3, KickKeeps
  <2>4. Phases' /\ work' \in BOOLEAN /\ irq' \in BOOLEAN
    BY <1>1 DEF Inv, Types, Phases, Flags
  <2>5. /\ gd' = TRUE /\ pc' \in {"idle", "talk", "resubmit"}
        /\ pc' = "talk" \/ backend' # "Connected" => state' = "Connected"
    BY <1>1, <2>2 DEF Connected
  <2>6. bio_list # <<>> => pc' = "resubmit"
    BY <1>1, <2>2 DEF Inv, Connected
  <2>. QED  BY <1>1, <1>2, <2>3, <2>4, <2>5, <2>6, KickedKeeps
<1>3. CASE connected # "connected"
  <2>1. UNCHANGED <<rq, shadow_free, shadow, ring, answers, grants, persistent_gnts_c, granted,
                    indirect_pages, pending, answered, bug, stopped, callback, shortages>>
    BY <1>3 DEF RestartQueue
  <2>2. UNCHANGED CoreVars /\ UNCHANGED <<connected, gd, max_segments, bug>>
    BY <1>1, <2>1 DEF CoreVars
  <2>3. Allowed
    BY <1>1, <1>3, <2>1 DEF Inv, Fresh, Suspended, Allowed
  <2>4. Types'
    <3>1. Driver' = Driver
      BY <2>2, CoreSame
    <3>2. Phases /\ Flags /\ Data
      BY DEF Inv, Types
    <3>3. Phases'
      BY <1>1, <3>2 DEF Phases
    <3>4. Data'
      BY <1>1, <2>1, <3>1, <3>2 DEF Data
    <3>5. /\ stopped' = stopped /\ callback' = callback /\ bug' = bug /\ watch' = watch
          /\ feature_persistent' = feature_persistent
      BY <1>1, <2>1
    <3>6. Flags'
      BY <1>1, <3>2, <3>5 DEF Flags
    <3>. QED  BY <3>3, <3>4, <3>6 DEF Types
  <2>. QED  BY <2>2, <2>3, <2>4, QuietKeeps
<1>. QED  BY <1>2, <1>3

(* blkif_interrupt: all the responses, then the queue.                     *)
LEMMA InterruptKeeps == Inv /\ Interrupt => Inv'
<1>. SUFFICES ASSUME Inv, Interrupt PROVE Inv'
  OBVIOUS
<1>1. /\ connected' = connected /\ state' = state /\ gd' = gd /\ pc' = pc /\ backend' = backend
      /\ work' = work /\ irq' = FALSE
      /\ UNCHANGED <<feature_persistent, max_segments, taken, mapped, bio_list, host, watch,
                     migrations, size>>
  BY DEF Interrupt, devVars, features, watchVars
<1>2. CASE connected = "connected"
  <2>. DEFINE d == CompleteAll(Driver)
  <2>1. Kick(d, RoomLeft + Len(answers))
    BY <1>2 DEF Interrupt
  <2>2. Connected
    BY <1>2 DEF Inv
  <2>3. Completing(Driver, d, Len(answers))
    <3>1. DriverOk(Driver) /\ Driver.answers = answers
      BY <2>2 DEF Connected, Driver
    <3>2. Completing(Driver, d, Len(Driver.answers))
      BY <3>1, CompleteAllKeeps
    <3>. QED  BY <3>1, <3>2
  <2>. HIDE DEF d
  <2>4. /\ DriverOk(d) /\ Len(d.answers) + Len(answers) = Len(answers)
        /\ d.ring = ring /\ d.bug = FALSE
    BY <2>3 DEF Completing, Answered, Driver
  <2>5. Room(d) = RoomLeft + Len(answers)
    <3>1. /\ d \in Drivers /\ ring \in Seq(Ids) /\ answers \in Seq(Ids)
          /\ d.answers \in Seq(Ids)
      BY <2>4, DriverFields DEF Inv, Types, Data, Fields, DriverOk, Steady, Drivers
    <3>2. Len(ring) \in Nat /\ Len(answers) \in Nat /\ Len(d.answers) \in Nat
      BY <3>1
    <3>3. Cardinality(taken) \in Nat /\ RingSize \in Nat
      BY <2>4, <3>1, IdsCount, Constants DEF DriverOk, Steady
    <3>4. Len(d.answers) = 0
      BY <2>4, <3>2
    <3>. QED  BY <2>4, <3>2, <3>3, <3>4 DEF Room, RoomLeft
  <2>6. Kicked
    <3>1. SameContext
      BY <1>1 DEF SameContext, features
    <3>2. shortages \in 0..MaxShortages /\ callback \in BOOLEAN /\ stopped \in BOOLEAN
      BY DEF Inv, Types, Flags, Data
    <3>. QED  BY <2>1, <2>4, <2>5, <3>1, <3>2, KickKeeps
  <2>7. Phases' /\ work' \in BOOLEAN /\ irq' \in BOOLEAN
    BY <1>1 DEF Inv, Types, Phases, Flags
  <2>8. /\ gd' = TRUE /\ pc' \in {"idle", "talk", "resubmit"}
        /\ pc' = "talk" \/ backend' # "Connected" => state' = "Connected"
    BY <1>1, <2>2 DEF Connected
  <2>9. bio_list # <<>> => pc' = "resubmit"
    BY <1>1, <2>2 DEF Inv, Connected
  <2>. QED  BY <1>1, <1>2, <2>6, <2>7, <2>8, <2>9, KickedKeeps
<1>3. CASE connected # "connected"
  <2>1. UNCHANGED <<rq, shadow_free, shadow, ring, answers, grants, persistent_gnts_c, granted,
                    indirect_pages, pending, answered, bug, stopped, callback, shortages>>
    BY <1>3 DEF Interrupt
  <2>2. UNCHANGED CoreVars /\ UNCHANGED <<connected, gd, max_segments, bug>>
    BY <1>1, <2>1 DEF CoreVars
  <2>3. Allowed
    BY <1>1, <1>3, <2>1 DEF Inv, Fresh, Suspended, Allowed
  <2>4. Types'
    <3>1. Driver' = Driver
      BY <2>2, CoreSame
    <3>2. Phases /\ Flags /\ Data
      BY DEF Inv, Types
    <3>3. Phases'
      BY <1>1, <3>2 DEF Phases
    <3>4. Data'
      BY <1>1, <2>1, <3>1, <3>2 DEF Data
    <3>5. /\ stopped' = stopped /\ callback' = callback /\ bug' = bug /\ watch' = watch
          /\ feature_persistent' = feature_persistent
      BY <1>1, <2>1
    <3>6. Flags'
      BY <1>1, <3>2, <3>5 DEF Flags
    <3>. QED  BY <3>3, <3>4, <3>6 DEF Types
  <2>. QED  BY <2>2, <2>3, <2>4, QuietKeeps
<1>. QED  BY <1>2, <1>3

(* The end of blkif_recover: connected, and the queue is kicked.           *)
LEMMA ReconnectKeeps == Inv /\ Reconnect => Inv'
<1>. SUFFICES ASSUME Inv, Reconnect PROVE Inv'
  OBVIOUS
<1>1. /\ connected' = "connected" /\ state' = "Connected" /\ gd' = gd /\ pc = "reconnect"
      /\ pc' = "resubmit" /\ backend' = backend /\ work' = work /\ irq' = irq
      /\ UNCHANGED <<feature_persistent, max_segments, taken, mapped, bio_list, host, watch,
                     migrations, size>>
      /\ Kick(Driver, Room(Driver))
  BY DriverRoom DEF Reconnect, features
<1>2. connected = "suspended" /\ Suspended
  BY <1>1 DEF Inv, Types, Phases, Fresh, Connected
<1>3. Ready
  <2>1. Context
    BY DEF Inv, Types, Data, Context
  <2>2. Driver \in Drivers /\ BiosOk(Driver)
    BY DEF Inv, Types, Data
  <2>3. Uniform => /\ Len(grants) = RingSize * (host.segs + 1) /\ PagesOk(Driver)
                   /\ SegsOk(Driver) /\ (Indirect => indirect_pages = RingSize)
    BY <1>2 DEF Inv, UniformInv
  <2>. QED  BY <1>1, <1>2, <2>1, <2>2, <2>3 DEF Ready, Suspended
<1>4. Kicked
  <2>1. DriverOk(Driver) /\ Driver.bug = FALSE
    BY <1>3, ReadyConnects, DriverRoom
  <2>2. SameContext
    BY <1>1 DEF SameContext, features
  <2>3. shortages \in 0..MaxShortages /\ callback \in BOOLEAN /\ stopped \in BOOLEAN
    BY DEF Inv, Types, Flags, Data
  <2>. QED  BY <1>1, <2>1, <2>2, <2>3, KickKeeps
<1>5. Phases' /\ work' \in BOOLEAN /\ irq' \in BOOLEAN
  BY <1>1 DEF Inv, Types, Phases, Flags
<1>6. gd' = TRUE
  BY <1>1, <1>2 DEF Suspended
<1>. QED  BY <1>1, <1>2, <1>4, <1>5, <1>6, KickedKeeps

--------------------------------------------------------------------------------
(* Steps that move requests between the queue and the list of bios.        *)
LEMMA WeighLeq ==
  ASSUME NEW R, NEW s \in Seq(R), NEW v \in [R -> Nat], NEW w \in [R -> Nat],
         \A r \in R : v[r] <= w[r]
  PROVE  Weigh(s, v) <= Weigh(s, w)
<1>. DEFINE f == [i \in 1..Len(s) |-> v[s[i]]]  h == [i \in 1..Len(s) |-> w[s[i]]]
<1>1. f \in Seq(Nat) /\ h \in Seq(Nat) /\ Len(f) = Len(s) /\ Len(h) = Len(s)
  BY WeighTyped
<1>2. \A i \in 1..Len(f) : f[i] <= h[i]
  BY <1>1
<1>. HIDE DEF f, h
<1>3. Total(f) <= Total(h)
  BY <1>1, <1>2, TotalLeq
<1>. QED  BY <1>3 DEF Weigh, f, h

(* What is counted of the bios, in the variables.                          *)
Counted ==
    \A b \in Bios :
        /\ size[b] = answered[b] + (Weigh(rq, PageW(b)) + Weigh(Shadowed(shadow), PageW(b))
                                      + Weigh(bio_list, PageW(b)))
        /\ pending[b] = Weigh(rq, PieceW(b)) + Weigh(Shadowed(shadow), PieceW(b))
                           + Weigh(bio_list, PieceW(b))

(* BiosOk, of the variables.                                               *)
LEMMA BiosCounted ==
  bio_list \in Seq(Requests) /\ Driver \in Drivers => (BiosOk(Driver) <=> Counted)
<1>. SUFFICES ASSUME bio_list \in Seq(Requests), Driver \in Drivers
              PROVE  BiosOk(Driver) <=> Counted
  OBVIOUS
<1>1. BiosOk(Driver) <=> BiosSum(Driver)
  BY BiosWeighed
<1>2. /\ Driver.rq = rq /\ Driver.shadow = shadow /\ Driver.answered = answered
      /\ Driver.pending = pending
  BY DEF Driver
<1>. QED  BY <1>1, <1>2 DEF BiosSum, Sum, Counted

(* The same of the next state.                                             *)
LEMMA CountedNext ==
  bio_list' \in Seq(Requests) /\ Driver' \in Drivers => (BiosOk(Driver)' <=> Counted')
<1>1. bio_list \in Seq(Requests) /\ Driver \in Drivers => (BiosOk(Driver) <=> Counted)
  BY BiosCounted
<1>2. (bio_list \in Seq(Requests) /\ Driver \in Drivers)' => (BiosOk(Driver)' <=> Counted')
  BY <1>1, PTL
<1>. QED  BY <1>2

(* The weights of the variables are naturals.                              *)
LEMMA WeighsTyped ==
  ASSUME Data, NEW w \in [Reqs -> Nat]
  PROVE  Weigh(rq, w) \in Nat /\ Weigh(Shadowed(shadow), w) \in Nat /\ Weigh(bio_list, w) \in Nat
<1>1. bio_list \in Seq(Requests) /\ Driver \in Drivers
  BY DEF Data
<1>2. Driver.rq = rq /\ Driver.shadow = shadow
  BY DEF Driver
<1>. QED  BY <1>1, <1>2, SumTyped

(* A step that leaves the ring and the grants as they are.                 *)
LEMMA RingSame ==
  ASSUME UNCHANGED <<shadow_free, shadow, ring, answers, grants, persistent_gnts_c, granted, indirect_pages,
                     taken, mapped, feature_persistent, host>>
  PROVE  /\ IdsOk(Driver) => IdsOk(Driver)'
         /\ GrantsOk(Driver) => GrantsOk(Driver)'
         /\ Full(Driver) => Full(Driver)'
         /\ PagesOk(Driver) => PagesOk(Driver)'
         /\ FramesOk(Driver) => FramesOk(Driver)'
         /\ (Indirect <=> Indirect') /\ indirect_pages' = indirect_pages
         /\ KeepsNone(Driver) => KeepsNone(Driver)'
         /\ Len(Driver.grants) + UsedTotal(Driver.shadow) = RingSize * (host.segs + 1) =>
               (Len(Driver.grants) + UsedTotal(Driver.shadow) = RingSize * (host.segs + 1))'
         /\ InFlight' = InFlight
<1>1. /\ Driver'.free = Driver.free /\ Driver'.shadow = Driver.shadow
      /\ Driver'.ring = Driver.ring /\ Driver'.answers = Driver.answers
      /\ Driver'.grants = Driver.grants /\ Driver'.count = Driver.count
      /\ Driver'.granted = Driver.granted /\ Driver'.pages = Driver.pages
  BY DEF Driver
<1>2. UNCHANGED <<taken, mapped, feature_persistent, host>>
  OBVIOUS
<1>3. IdsOk(Driver) => IdsOk(Driver)'
  BY <1>1, <1>2 DEF IdsOk, Busy
<1>4. GrantsOk(Driver) => GrantsOk(Driver)'
  BY <1>1, <1>2 DEF GrantsOk, HeldOnce, CountOk
<1>5. Full(Driver) => Full(Driver)'
  BY <1>1 DEF Full
<1>6. PagesOk(Driver) => PagesOk(Driver)'
  BY <1>1, <1>2 DEF PagesOk, PageOf
<1>7. KeepsNone(Driver) => KeepsNone(Driver)'
  BY <1>1, <1>2 DEF KeepsNone
<1>8. Len(Driver.grants) + UsedTotal(Driver.shadow) = RingSize * (host.segs + 1) =>
         (Len(Driver.grants) + UsedTotal(Driver.shadow) = RingSize * (host.segs + 1))'
  BY <1>1, <1>2
<1>9. InFlight' = InFlight
  BY DEF InFlight
<1>10. (FramesOk(Driver) => FramesOk(Driver)') /\ (Indirect <=> Indirect')
  BY <1>1, <1>2 DEF FramesOk, Indirect
<1>. QED  BY <1>3, <1>4, <1>5, <1>6, <1>7, <1>8, <1>9, <1>10

(* A step that moves requests and leaves the rest as it is.                *)
LEMMA MovedKeeps ==
  ASSUME Inv, Types', Counted', connected # "disconnected",
         UNCHANGED <<shadow_free, shadow, ring, answers, grants, persistent_gnts_c, granted, indirect_pages,
                     taken, mapped, feature_persistent, host>>,
         UNCHANGED <<connected, gd, state, backend, max_segments, stopped, callback, work>>,
         MemoryLasts => bug' \in {FALSE, bug},
         Uniform => \A i \in 1..Len(rq') : rq'[i].n <= max_segments,
         pc' = pc \/ (connected = "connected" /\ pc' = "idle"),
         bio_list' # <<>> => pc' \in {"reconnect", "resubmit"}
  PROVE  Inv'
<1>1. /\ IdsOk(Driver) => IdsOk(Driver)'
      /\ GrantsOk(Driver) => GrantsOk(Driver)'
      /\ Full(Driver) => Full(Driver)'
      /\ PagesOk(Driver) => PagesOk(Driver)'
      /\ FramesOk(Driver) => FramesOk(Driver)'
      /\ (Indirect <=> Indirect') /\ indirect_pages' = indirect_pages
      /\ KeepsNone(Driver) => KeepsNone(Driver)'
      /\ Len(Driver.grants) + UsedTotal(Driver.shadow) = RingSize * (host.segs + 1) =>
            (Len(Driver.grants) + UsedTotal(Driver.shadow) = RingSize * (host.segs + 1))'
      /\ InFlight' = InFlight
  BY RingSame
<1>2. BiosOk(Driver)' /\ Context' /\ Driver' \in Drivers
  BY CountedNext DEF Types, Data, Context
<1>3. ASSUME Uniform, SegsOk(Driver) PROVE SegsOk(Driver)'
  <2>1. Driver'.shadow = Driver.shadow /\ Driver'.rq = rq' /\ host' = host
    BY DEF Driver
  <2>2. \A i \in 1..Len(rq') : rq'[i].n <= max_segments
    BY <1>3
  <2>. QED  BY <1>3, <2>1, <2>2 DEF SegsOk
<1>4. (connected = "suspended" => Suspended)'
  <2>1. SUFFICES ASSUME connected = "suspended" PROVE Suspended'
    OBVIOUS
  <2>2. Suspended /\ pc' = pc
    BY <2>1 DEF Inv
  <2>3. UNCHANGED <<AllIdle, NoneBusy, NoGrants>>
    BY DEF AllIdle, NoneBusy, NoGrants
  <2>. QED  BY <1>1, <2>2, <2>3 DEF Suspended
<1>5. (connected = "connected" => Connected)'
  <2>1. SUFFICES ASSUME connected = "connected" PROVE Connected'
    OBVIOUS
  <2>2. Connected
    BY <2>1 DEF Inv
  <2>3. IdsOk(Driver) /\ GrantsOk(Driver) /\ Full(Driver)
        /\ (Uniform => UniformOk(Driver) /\ FramesOk(Driver))
    BY <2>2 DEF Connected, DriverOk, Steady
  <2>4. (Uniform => UniformOk(Driver) /\ FramesOk(Driver))'
    BY <1>1, <1>3, <2>3 DEF UniformOk
  <2>5. DriverOk(Driver)'
    BY <1>1, <1>2, <2>3, <2>4 DEF DriverOk, Steady
  <2>. QED  BY <2>2, <2>5 DEF Connected
<1>6. (Uniform => UniformInv)'
  <2>1. SUFFICES ASSUME Uniform PROVE UniformInv'
    OBVIOUS
  <2>2. UniformInv
    BY <2>1 DEF Inv
  <2>. QED  BY <1>1, <1>3, <2>1, <2>2 DEF UniformInv
<1>7. connected' # "disconnected"
  OBVIOUS
<1>. QED  BY <1>2, <1>4, <1>5, <1>6, <1>7 DEF Inv

(* Of a bio that has not been submitted nothing is anywhere.               *)
LEMMA SubmitCounted ==
  ASSUME Data, Counted, NEW b \in Bios, size[b] = 0, NEW n \in 1..MaxSegs,
         rq' = Append(rq, [bio |-> b, n |-> n]),
         size' = [size EXCEPT ![b] = n], pending' = [pending EXCEPT ![b] = 1],
         UNCHANGED <<shadow, bio_list, answered>>
  PROVE  Counted'
<1>. DEFINE r == [bio |-> b, n |-> n]
<1>1. /\ rq \in Seq(Reqs) /\ bio_list \in Seq(Reqs) /\ Shadowed(shadow) \in Seq(Reqs)
      /\ pending \in [Bios -> Int] /\ answered \in [Bios -> Nat] /\ size \in [Bios -> 0..MaxSegs]
  <2>1. Fields /\ bio_list \in Seq(Requests) /\ size \in [Bios -> 0..MaxSegs]
    BY DriverFields DEF Data
  <2>2. rq \in Seq(Reqs) /\ bio_list \in Seq(Reqs)
    BY <2>1 DEF Fields, Reqs
  <2>3. Shadowed(shadow) \in Seq(Reqs)
    BY <2>1, ShadowedTyped DEF Fields
  <2>. QED  BY <2>1, <2>2, <2>3 DEF Fields
<1>2. r \in Reqs /\ r.bio = b /\ r.n = n /\ n \in Nat /\ MaxSegs \in Nat
  BY Constants DEF Reqs, Requests
<1>. HIDE DEF r
<1>3. ASSUME NEW w \in [Reqs -> Nat]
      PROVE  Weigh(rq', w) = Weigh(rq, w) + w[r] /\ Weigh(rq, w) \in Nat
             /\ Weigh(Shadowed(shadow), w) \in Nat /\ Weigh(bio_list, w) \in Nat
  <2>1. rq' = Append(rq, r)
    BY DEF r
  <2>2. Weigh(rq', w) = Weigh(rq, w) + w[r]
    BY <1>1, <1>2, <2>1, WeighAppend
  <2>3. Weigh(rq, w) \in Nat /\ Weigh(Shadowed(shadow), w) \in Nat /\ Weigh(bio_list, w) \in Nat
    BY <1>1, WeighsTyped
  <2>. QED  BY Zenon, <2>2, <2>3
<1>4. ASSUME NEW x \in Bios
      PROVE  /\ PageW(x)[r] = (IF b = x THEN n ELSE 0) /\ PageW(x) \in [Reqs -> Nat]
             /\ PieceW(x)[r] = (IF b = x THEN 1 ELSE 0) /\ PieceW(x) \in [Reqs -> Nat]
  BY <1>2, Weights DEF PageW, PieceW
<1>5. SUFFICES ASSUME NEW x \in Bios
      PROVE /\ size'[x] = answered[x] + (Weigh(rq', PageW(x)) + Weigh(Shadowed(shadow), PageW(x))
                                           + Weigh(bio_list, PageW(x)))
            /\ pending'[x] = Weigh(rq', PieceW(x)) + Weigh(Shadowed(shadow), PieceW(x))
                               + Weigh(bio_list, PieceW(x))
  BY DEF Counted
<1>. DEFINE p == Weigh(rq, PageW(x))  q == Weigh(Shadowed(shadow), PageW(x))
            l == Weigh(bio_list, PageW(x))
            s == Weigh(rq, PieceW(x))  t == Weigh(Shadowed(shadow), PieceW(x))
            k == Weigh(bio_list, PieceW(x))
            p2 == Weigh(rq', PageW(x))  s2 == Weigh(rq', PieceW(x))  a == answered[x]
<1>6. /\ p \in Nat /\ q \in Nat /\ l \in Nat /\ s \in Nat /\ t \in Nat /\ k \in Nat /\ a \in Nat
      /\ p2 = p + PageW(x)[r] /\ s2 = s + PieceW(x)[r]
      /\ size[x] = a + (p + q + l) /\ pending[x] = s + t + k
  BY <1>1, <1>3, <1>4 DEF Counted
<1>7. s <= p /\ t <= q /\ k <= l
  <2>1. \A y \in Reqs : PieceW(x)[y] <= PageW(x)[y]
    BY Weights
  <2>. QED  BY <1>1, <1>4, <2>1, WeighLeq
<1>. HIDE DEF p, q, l, s, t, k, p2, s2, a
<1>8. CASE x = b
  <2>1. p2 = p + n /\ s2 = s + 1 /\ size'[x] = n /\ pending'[x] = 1 /\ a + (p + q + l) = 0
    BY <1>1, <1>4, <1>6, <1>8
  <2>2. a = 0 /\ p = 0 /\ q = 0 /\ l = 0 /\ s = 0 /\ t = 0 /\ k = 0
    <3>1. /\ p \in Nat /\ q \in Nat /\ l \in Nat /\ s \in Nat /\ t \in Nat /\ k \in Nat /\ a \in Nat
      BY Zenon, <1>6
    <3>2. a + (p + q + l) = 0
      BY Zenon, <2>1
    <3>3. a = 0 /\ p = 0 /\ q = 0 /\ l = 0
      BY <3>1, <3>2
    <3>. QED  BY <1>7, <3>1, <3>3
  <2>3. size'[x] = a + (p2 + q + l) /\ pending'[x] = s2 + t + k
    BY <1>2, <2>1, <2>2
  <2>. QED  BY <2>3 DEF a, p2, q, l, s2, t, k
<1>9. CASE x # b
  <2>1. p2 = p /\ s2 = s /\ size'[x] = size[x] /\ pending'[x] = pending[x]
    BY <1>1, <1>4, <1>6, <1>9
  <2>2. size'[x] = a + (p2 + q + l) /\ pending'[x] = s2 + t + k
    BY <1>6, <2>1
  <2>. QED  BY <2>2 DEF a, p2, q, l, s2, t, k
<1>. QED  BY <1>8, <1>9

(* A bio arrives.                                                          *)
LEMMA SubmitKeeps ==
  ASSUME Inv, NEW b \in Bios, NEW n \in 1..MaxSegs, Submit(b, n)
  PROVE  Inv'
<1>1. /\ UNCHANGED <<shadow_free, shadow, ring, answers, grants, persistent_gnts_c, granted, indirect_pages,
                     taken, mapped, feature_persistent, host>>
      /\ UNCHANGED <<connected, gd, state, backend, max_segments, bug, stopped, callback, work>>
      /\ UNCHANGED <<irq, watch, bio_list, migrations, shortages, answered>> /\ pc' = pc
      /\ rq' = Append(rq, [bio |-> b, n |-> n])
      /\ size' = [size EXCEPT ![b] = n] /\ pending' = [pending EXCEPT ![b] = 1]
      /\ gd = TRUE /\ size[b] = 0 /\ n <= max_segments
  BY DEF Submit, devVars, features, ringVars, grantVars, watchVars, envVars, Inv, Types, Flags
<1>2. Phases /\ Flags /\ Data /\ Fields
  BY DriverFields DEF Inv, Types, Data
<1>3. Counted
  BY <1>2, BiosCounted DEF Inv, Data
<1>4. Counted'
  <2>1. UNCHANGED <<shadow, bio_list, answered>>
    BY <1>1
  <2>. QED  BY <1>1, <1>2, <1>3, <2>1, SubmitCounted
<1>5. [bio |-> b, n |-> n] \in Requests
  BY DEF Requests
<1>6. Types'
  <2>1. rq' \in Seq(Requests) /\ pending' \in [Bios -> Int] /\ size' \in [Bios -> 0..MaxSegs]
    <3>1. rq \in Seq(Requests) /\ pending \in [Bios -> Int] /\ size \in [Bios -> 0..MaxSegs]
      BY <1>2 DEF Fields, Data
    <3>2. n \in 0..MaxSegs
      BY Constants
    <3>. QED  BY <1>1, <1>5, <3>1, <3>2
  <2>2. Fields'
    BY <1>1, <1>2, <2>1 DEF Fields
  <2>3. Driver' \in Drivers
    BY <2>2, FieldsNext
  <2>4. Phases'
    BY <1>1, <1>2 DEF Phases
  <2>5. Flags'
    BY <1>1, <1>2 DEF Flags
  <2>6. Data'
    BY <1>1, <1>2, <2>1, <2>3 DEF Data
  <2>. QED  BY <2>4, <2>5, <2>6 DEF Types
<1>7. connected # "disconnected"
  BY <1>1 DEF Inv, Fresh
<1>8. Uniform => \A i \in 1..Len(rq') : rq'[i].n <= max_segments
  <2>1. SUFFICES ASSUME Uniform, NEW i \in 1..Len(rq') PROVE rq'[i].n <= max_segments
    OBVIOUS
  <2>2. /\ rq'[Len(rq) + 1] = [bio |-> b, n |-> n]
        /\ i # Len(rq) + 1 => i \in 1..Len(rq) /\ rq'[i] = rq[i]
    BY <1>1, <1>2, <1>5, PutLast DEF Fields
  <2>3. \A j \in 1..Len(rq) : rq[j].n <= max_segments
    BY <1>7, <2>1 DEF Inv, UniformInv, SegsOk, Driver
  <2>. QED  BY <1>1, <2>2, <2>3
<1>9. bio_list' # <<>> => pc' \in {"reconnect", "resubmit"}
  BY <1>1 DEF Inv
<1>10. pc' = pc \/ (connected = "connected" /\ pc' = "idle")
  <2>1. pc' = pc
    BY <1>1
  <2>. QED  BY <2>1
<1>11. UNCHANGED <<shadow_free, shadow, ring, answers, grants, persistent_gnts_c, granted, indirect_pages,
                   taken, mapped, feature_persistent, host>>
  BY <1>1
<1>12. UNCHANGED <<connected, gd, state, backend, max_segments, stopped, callback, work>>
       /\ bug' \in {FALSE, bug}
  BY <1>1
<1>. QED  BY <1>4, <1>6, <1>7, <1>8, <1>9, <1>10, <1>11, <1>12, MovedKeeps

--------------------------------------------------------------------------------
(* A bio of x pages in pieces of at most y: rounded up, p of them.         *)
LEMMA PiecesBound ==
  ASSUME NEW x \in Nat \ {0}, NEW y \in Nat \ {0}
  PROVE  LET p == (x + y - 1) \div y
         IN  p \in Nat \ {0} /\ (p - 1) * y \in Nat /\ (p - 1) * y < x /\ x <= (p - 1) * y + y
<1>. DEFINE z == x + y - 1  p == z \div y  q == z % y
<1>1. z \in Nat
  OBVIOUS
<1>. HIDE DEF z
<1>2. p \in Int /\ q \in 0..y - 1 /\ z = y * p + q
  BY <1>1
<1>. HIDE DEF p, q
<1>3. (p - 1) * y = p * y - y /\ y * p = p * y
  BY <1>2
<1>. DEFINE m == p * y
<1>4. m \in Int
  BY <1>2
<1>5. (p - 1) * y = m - y
  BY <1>3
<1>6. z = m + q
  BY <1>2, <1>3
<1>. HIDE DEF m
<1>7. m - y < x /\ x <= m
  BY <1>2, <1>4, <1>6 DEF z
<1>8. p > 0
  <2>1. SUFFICES ASSUME p <= 0 PROVE FALSE
    BY <1>2
  <2>. DEFINE k == 0 - p
  <2>2. k \in Nat /\ p = 0 - k
    BY <1>2, <2>1
  <2>. HIDE DEF k
  <2>3. k * y \in Nat /\ (0 - k) * y = 0 - k * y
    BY <2>2
  <2>4. m = 0 - k * y
    BY <2>2, <2>3 DEF m
  <2>. QED  BY <1>4, <1>7, <2>3, <2>4
<1>9. p - 1 \in Nat
  BY <1>2, <1>8
<1>10. (p - 1) * y \in Nat
  BY <1>9
<1>. QED  BY <1>2, <1>4, <1>5, <1>7, <1>8, <1>10 DEF p, z

(* The sum of n times the same.                                            *)
LEMMA TotalSame ==
  ASSUME NEW n \in Nat, NEW c \in Nat, NEW f \in Seq(Nat), Len(f) = n,
         \A i \in 1..n : f[i] = c
  PROVE  Total(f) = n * c
<1>1. PICK g \in [0..Len(f) -> Nat] : SumOf(g, f)
  BY TotalSums
<1>2. g[0] = 0 /\ Total(f) = g[n] /\ \A i \in 1..n : g[i] = g[i - 1] + c
  BY <1>1 DEF SumOf, IsSum
<1>. DEFINE T == {i \in 0..n : g[i] = i * c}
<1>3. 0 \in T
  BY <1>2
<1>4. \A i \in 1..n : i - 1 \in T => i \in T
  <2>1. ASSUME NEW i \in 1..n, i - 1 \in T PROVE i \in T
    <3>1. g[i] = (i - 1) * c + c /\ i \in 0..n /\ i \in Int
      BY <1>2, <2>1
    <3>2. (i - 1) * c + c = i * c
      BY <3>1
    <3>. QED  BY <3>1, <3>2
  <2>. QED  BY <2>1
<1>5. \A i \in 0..n : i \in T
  <2>. HIDE DEF T
  <2>. QED  BY <1>3, <1>4, UpTo
<1>6. n \in T
  BY <1>5
<1>. QED  BY <1>2, <1>6

(* The pieces a request is submitted again in.                             *)
PieceCount(r, y) == (r.n + y - 1) \div y
PieceSize(r, y, i) == IF i < PieceCount(r, y) THEN y ELSE r.n - (PieceCount(r, y) - 1) * y
PiecesFor(r, y) == [i \in 1..PieceCount(r, y) |-> [bio |-> r.bio, n |-> PieceSize(r, y, i)]]

(* The pieces are requests, of at most y pages.                            *)
LEMMA PiecesTyped ==
  ASSUME NEW r \in Requests, NEW y \in Segs
  PROVE  /\ PieceCount(r, y) \in Nat \ {0} /\ PiecesFor(r, y) \in Seq(Requests)
         /\ Len(PiecesFor(r, y)) = PieceCount(r, y)
         /\ \A i \in 1..PieceCount(r, y) :
               /\ PiecesFor(r, y)[i] = [bio |-> r.bio, n |-> PieceSize(r, y, i)]
               /\ PieceSize(r, y, i) \in Nat /\ PieceSize(r, y, i) <= y
<1>. DEFINE p == PieceCount(r, y)  m == (p - 1) * y
<1>1. r.n \in Nat \ {0} /\ r.n \in 1..MaxSegs /\ r.bio \in Bios
  BY Constants DEF Requests
<1>2. y \in Nat \ {0} /\ y <= MaxSegs /\ MaxSegs \in Nat
  BY Constants
<1>3. p \in Nat \ {0} /\ m \in Nat /\ m < r.n /\ r.n <= m + y
  <2>. DEFINE x == r.n
  <2>1. x \in Nat \ {0}
    BY <1>1
  <2>. HIDE DEF x
  <2>2. LET q == (x + y - 1) \div y
        IN  q \in Nat \ {0} /\ (q - 1) * y \in Nat /\ (q - 1) * y < x /\ x <= (q - 1) * y + y
    BY <1>2, <2>1, PiecesBound
  <2>. QED  BY <2>2 DEF PieceCount, x
<1>. HIDE DEF p
<1>4. ASSUME NEW i \in 1..p
      PROVE  PieceSize(r, y, i) \in 1..MaxSegs /\ PieceSize(r, y, i) <= y
  <2>1. PieceSize(r, y, i) = IF i < p THEN y ELSE r.n - m
    BY DEF PieceSize, p
  <2>. HIDE DEF m
  <2>2. CASE i < p
    BY <1>2, <2>1, <2>2
  <2>3. CASE ~(i < p)
    <3>1. PieceSize(r, y, i) = r.n - m
      BY <2>1, <2>3
    <3>. QED  BY <1>1, <1>2, <1>3, <3>1
  <2>. QED  BY <2>2, <2>3
<1>5. \A i \in 1..p : [bio |-> r.bio, n |-> PieceSize(r, y, i)] \in Requests
  BY <1>1, <1>4 DEF Requests
<1>6. PiecesFor(r, y) = [i \in 1..p |-> [bio |-> r.bio, n |-> PieceSize(r, y, i)]]
  BY DEF PiecesFor, p
<1>. DEFINE t == PiecesFor(r, y)
<1>. HIDE DEF t
<1>7. t = [i \in 1..p |-> [bio |-> r.bio, n |-> PieceSize(r, y, i)]]
  BY <1>6 DEF t
<1>8. t \in Seq(Requests) /\ Len(t) = p
  <2>. HIDE DEF m
  <2>1. t \in [1..p -> Requests]
    BY <1>5, <1>7
  <2>. QED  BY <1>3, <2>1
<1>9. \A i \in 1..p : t[i] = [bio |-> r.bio, n |-> PieceSize(r, y, i)]
  BY <1>7
<1>10. \A i \in 1..p : PieceSize(r, y, i) \in Nat /\ PieceSize(r, y, i) <= y
  BY <1>4, Constants
<1>. QED  BY <1>3, <1>8, <1>9, <1>10 DEF t, p

(* Together the pieces are the pages of the request.                       *)
LEMMA PiecesWeighed ==
  ASSUME NEW r \in Requests, NEW y \in Segs, NEW b \in Bios
  PROVE  /\ Weigh(PiecesFor(r, y), PageW(b)) = PageW(b)[r]
         /\ Weigh(PiecesFor(r, y), PieceW(b)) = IF r.bio = b THEN PieceCount(r, y) ELSE 0
<1>. DEFINE p == PieceCount(r, y)  t == PiecesFor(r, y)  m == (p - 1) * y
            f == [i \in 1..Len(t) |-> PageW(b)[t[i]]]
            g == [i \in 1..Len(t) |-> PieceW(b)[t[i]]]
            h == [i \in 1..p |-> y]
<1>1. /\ p \in Nat \ {0} /\ t \in Seq(Requests) /\ Len(t) = p
      /\ \A i \in 1..p : t[i] = [bio |-> r.bio, n |-> PieceSize(r, y, i)]
  BY PiecesTyped
<1>2. PageW(b) \in [Reqs -> Nat] /\ PieceW(b) \in [Reqs -> Nat] /\ t \in Seq(Reqs)
  <2>. HIDE DEF t
  <2>1. t \in Seq(Reqs)
    BY <1>1 DEF Reqs
  <2>. QED  BY <2>1, Weights
<1>3. y \in Nat /\ r.n \in Nat /\ r \in Reqs
  BY Constants DEF Requests, Reqs
<1>. HIDE DEF p, t
<1>4. /\ f \in Seq(Nat) /\ Len(f) = p /\ g \in Seq(Nat) /\ Len(g) = p
      /\ \A i \in 1..p : f[i] = PageW(b)[t[i]] /\ g[i] = PieceW(b)[t[i]]
  <2>1. f \in Seq(Nat) /\ Len(f) = Len(t) /\ \A i \in 1..Len(t) : f[i] = PageW(b)[t[i]]
    BY <1>2, WeighTyped
  <2>2. g \in Seq(Nat) /\ Len(g) = Len(t) /\ \A i \in 1..Len(t) : g[i] = PieceW(b)[t[i]]
    BY <1>2, WeighTyped
  <2>. HIDE DEF f, g
  <2>. QED  BY <1>1, <2>1, <2>2
<1>5. Weigh(t, PageW(b)) = Total(f) /\ Weigh(t, PieceW(b)) = Total(g)
  BY DEF Weigh
<1>6. \A i \in 1..p : /\ PageW(b)[t[i]] = IF r.bio = b THEN PieceSize(r, y, i) ELSE 0
                      /\ PieceW(b)[t[i]] = IF r.bio = b THEN 1 ELSE 0
  <2>1. \A i \in 1..p : t[i] \in Reqs
    BY <1>1 DEF Reqs
  <2>. HIDE DEF Reqs
  <2>. QED  BY <1>1, <2>1 DEF PageW, PieceW
<1>. HIDE DEF f, g
<1>7. CASE r.bio = b
  <2>1. Total(g) = p * 1
    <3>1. /\ p \in Nat /\ 1 \in Nat /\ g \in Seq(Nat) /\ Len(g) = p
          /\ \A i \in 1..p : g[i] = 1
      BY <1>1, <1>4, <1>6, <1>7
    <3>. QED  BY Zenon, <3>1, TotalSame
  <2>2. h \in Seq(Nat) /\ Len(h) = p /\ \A i \in 1..p : h[i] = y
    BY <1>1, <1>3
  <2>. HIDE DEF h
  <2>3. Total(h) = p * y
    BY <1>1, <1>3, <2>2, TotalSame
  <2>4. \A i \in 1..p : f[i] = PieceSize(r, y, i)
    BY <1>4, <1>6, <1>7
  <2>5. \A i \in 1..p : i # p => f[i] = h[i]
    BY <1>1, <2>2, <2>4 DEF PieceSize, p
  <2>6. p \in 1..p
    BY <1>1
  <2>7. Total(f) + h[p] = Total(h) + f[p]
    <3>1. Len(f) = Len(h) /\ p \in 1..Len(h) /\ \A i \in 1..Len(h) : i # p => f[i] = h[i]
      BY <1>4, <2>2, <2>5, <2>6
    <3>. QED  BY <1>4, <2>2, <3>1, TotalUpdate
  <2>8. f[p] = r.n - m /\ h[p] = y
    BY <1>1, <2>2, <2>4, <2>6 DEF PieceSize, p
  <2>9. m \in Int /\ p * y = m + y
    BY <1>1, <1>3
  <2>. HIDE DEF m
  <2>10. Total(f) \in Nat
    BY <1>4, TotalNat
  <2>11. Total(f) = r.n
    <3>1. Total(f) + y = m + y + (r.n - m)
      BY <2>3, <2>7, <2>8, <2>9
    <3>. QED  BY <1>3, <2>9, <2>10, <3>1
  <2>12. PageW(b)[r] = r.n
    BY <1>3, <1>7 DEF PageW
  <2>13. p * 1 = p
    BY <1>1
  <2>. QED  BY <1>5, <1>7, <2>1, <2>11, <2>12, <2>13 DEF p, t
<1>8. CASE r.bio # b
  <2>1. Total(f) = p * 0 /\ Total(g) = p * 0 /\ p * 0 = 0
    <3>1. p * 0 = 0
      BY <1>1
    <3>2. p \in Nat /\ 0 \in Nat /\ \A i \in 1..p : f[i] = 0 /\ g[i] = 0
      BY <1>1, <1>4, <1>6, <1>8
    <3>3. Total(f) = p * 0
      BY <1>4, <3>2, TotalSame
    <3>4. Total(g) = p * 0
      BY <1>4, <3>2, TotalSame
    <3>. QED  BY <3>1, <3>3, <3>4
  <2>2. PageW(b)[r] = 0
    BY <1>3, <1>8 DEF PageW
  <2>. QED  BY <1>5, <1>8, <2>1, <2>2 DEF p, t
<1>. QED  BY <1>7, <1>8

(* A bio that goes back to the queue in pieces counts for as many pages,   *)
(* and for a request per piece.                                            *)
LEMMA ResubmitCounted ==
  ASSUME Data, Counted, bio_list # <<>>, NEW r, r = Head(bio_list),
         NEW y \in Segs,
         rq' = rq \o PiecesFor(r, y), bio_list' = Tail(bio_list),
         pending' = [pending EXCEPT ![r.bio] = @ + PieceCount(r, y) - 1],
         UNCHANGED <<shadow, size, answered>>
  PROVE  Counted'
<1>. DEFINE t == PiecesFor(r, y)  n == PieceCount(r, y)
<1>1. /\ rq \in Seq(Requests) /\ bio_list \in Seq(Requests) /\ r \in Requests
      /\ pending \in [Bios -> Int] /\ answered \in [Bios -> Nat]
  <2>1. Fields /\ bio_list \in Seq(Requests)
    BY DriverFields DEF Data
  <2>. QED  BY <2>1, TakeFirst DEF Fields
<1>2. n \in Nat \ {0} /\ t \in Seq(Requests)
  BY <1>1, PiecesTyped
<1>3. r \in Reqs /\ r.bio \in Bios
  BY <1>1 DEF Reqs, Requests
<1>. HIDE DEF t, n
<1>4. ASSUME NEW w \in [Reqs -> Nat]
      PROVE  /\ Weigh(rq', w) = Weigh(rq, w) + Weigh(t, w)
             /\ Weigh(bio_list, w) = w[r] + Weigh(bio_list', w)
             /\ Weigh(rq, w) \in Nat /\ Weigh(Shadowed(shadow), w) \in Nat
             /\ Weigh(bio_list', w) \in Nat
  <2>1. rq \in Seq(Reqs) /\ bio_list \in Seq(Reqs) /\ t \in Seq(Reqs)
    BY <1>1, <1>2 DEF Reqs
  <2>. HIDE DEF Reqs
  <2>2. rq' = rq \o t /\ bio_list' \in Seq(Reqs)
    BY <2>1 DEF t
  <2>3. Weigh(rq \o t, w) = Weigh(rq, w) + Weigh(t, w)
    BY <2>1, WeighConcat
  <2>4. Weigh(bio_list, w) = w[Head(bio_list)] + Weigh(Tail(bio_list), w)
    BY <2>1, WeighTail
  <2>5. Weigh(bio_list', w) \in Nat
    BY <2>2, WeighTyped
  <2>6. Weigh(rq, w) \in Nat /\ Weigh(Shadowed(shadow), w) \in Nat
    BY WeighsTyped
  <2>. QED  BY <2>2, <2>3, <2>4, <2>5, <2>6
<1>5. SUFFICES ASSUME NEW x \in Bios
      PROVE /\ size'[x] = answered'[x] + (Weigh(rq', PageW(x)) + Weigh(Shadowed(shadow'), PageW(x))
                                           + Weigh(bio_list', PageW(x)))
            /\ pending'[x] = Weigh(rq', PieceW(x)) + Weigh(Shadowed(shadow'), PieceW(x))
                               + Weigh(bio_list', PieceW(x))
  BY DEF Counted
<1>6. PageW(x) \in [Reqs -> Nat] /\ PieceW(x) \in [Reqs -> Nat] /\ PageW(x)[r] \in Nat
  BY <1>3, Weights
<1>. DEFINE p == Weigh(rq, PageW(x))  q == Weigh(Shadowed(shadow), PageW(x))
            l == Weigh(bio_list, PageW(x))  p2 == Weigh(rq', PageW(x))
            l2 == Weigh(bio_list', PageW(x))
            s == Weigh(rq, PieceW(x))  u == Weigh(Shadowed(shadow), PieceW(x))
            k == Weigh(bio_list, PieceW(x))  s2 == Weigh(rq', PieceW(x))
            k2 == Weigh(bio_list', PieceW(x))
            a == answered[x]  c == PageW(x)[r]  e == IF r.bio = x THEN 1 ELSE 0
            m == IF r.bio = x THEN n ELSE 0
<1>7. Weigh(t, PageW(x)) = c /\ Weigh(t, PieceW(x)) = m /\ PieceW(x)[r] = e
  BY <1>1, <1>3, PiecesWeighed DEF t, n, PieceW
<1>8. /\ p \in Nat /\ q \in Nat /\ l2 \in Nat /\ s \in Nat /\ u \in Nat /\ k2 \in Nat
      /\ a \in Nat /\ c \in Nat /\ e \in Nat /\ m \in Nat
      /\ p2 = p + c /\ l = c + l2 /\ s2 = s + m /\ k = e + k2
  BY <1>1, <1>2, <1>4, <1>6, <1>7
<1>9. size[x] = a + (p + q + l) /\ pending[x] = s + u + k
  BY DEF Counted
<1>10. pending'[x] = pending[x] + m - e /\ pending[x] \in Int
  <2>1. pending' = [pending EXCEPT ![r.bio] = @ + n - 1]
    BY DEF n
  <2>2. CASE r.bio = x
    BY <1>1, <1>2, <2>1, <2>2
  <2>3. CASE r.bio # x
    BY <1>1, <1>2, <2>1, <2>3
  <2>. QED  BY <2>2, <2>3
<1>. HIDE DEF p, q, l, s, u, k, p2, s2, l2, k2, a, c, e, m
<1>11. size[x] = a + (p2 + q + l2) /\ pending'[x] = s2 + u + k2
  BY <1>8, <1>9, <1>10
<1>. QED  BY <1>11 DEF a, p2, q, l2, s2, u, k2

(* The loop over the list of bios, after the recovery.                     *)
LEMMA ResubmitKeeps == Inv /\ Resubmit => Inv'
<1>. SUFFICES ASSUME Inv, Resubmit PROVE Inv'
  OBVIOUS
<1>1. /\ UNCHANGED <<shadow_free, shadow, ring, answers, grants, persistent_gnts_c, granted, indirect_pages,
                     taken, mapped, feature_persistent, host>>
      /\ UNCHANGED <<connected, gd, state, backend, max_segments, stopped, callback, work>>
      /\ UNCHANGED <<irq, watch, migrations, shortages, size, answered>> /\ pc = "resubmit"
      /\ bug' \in BOOLEAN /\ (MemoryLasts => bug' \in {FALSE, bug})
  BY DEF Inv, Types, Flags, Resubmit, devVars, features, queueVars, ringVars, grantVars, envVars
<1>2. Phases /\ Flags /\ Data /\ Fields /\ Counted
  BY DriverFields, BiosCounted DEF Inv, Types, Data
<1>3. connected = "connected"
  BY <1>1 DEF Inv, Types, Phases, Fresh, Suspended
<1>4. UNCHANGED <<shadow_free, shadow, ring, answers, grants, persistent_gnts_c, granted, indirect_pages,
                  taken, mapped, feature_persistent, host>>
  BY <1>1
<1>5. UNCHANGED <<connected, gd, state, backend, max_segments, stopped, callback, work>>
      /\ (MemoryLasts => bug' \in {FALSE, bug})
  BY <1>1
<1>6. rq \in Seq(Requests) /\ bio_list \in Seq(Requests) /\ pending \in [Bios -> Int]
      /\ max_segments \in Segs
  BY <1>2 DEF Fields, Data
<1>7. ASSUME rq' \in Seq(Requests), bio_list' \in Seq(Requests), pending' \in [Bios -> Int],
             pc' \in {"idle", "resubmit"}
      PROVE  Types'
  <2>1. Fields'
    BY <1>1, <1>2, <1>7 DEF Fields
  <2>2. Driver' \in Drivers
    BY <2>1, FieldsNext
  <2>3. Phases'
    BY <1>1, <1>2, <1>7 DEF Phases
  <2>4. Flags'
    BY <1>1, <1>2 DEF Flags
  <2>5. Data'
    BY <1>1, <1>2, <1>7, <2>2 DEF Data
  <2>. QED  BY <2>3, <2>4, <2>5 DEF Types
<1>8. ASSUME Uniform PROVE \A i \in 1..Len(rq) : rq[i].n <= max_segments
  BY <1>3, <1>8 DEF Inv, UniformInv, SegsOk, Driver
<1>9. CASE bio_list = <<>>
  <2>1. pc' = "idle" /\ UNCHANGED <<bio_list, rq, pending>>
    BY <1>9 DEF Resubmit
  <2>2. Types'
    BY <1>6, <1>7, <2>1
  <2>3. Counted'
    BY <1>1, <1>2, <2>1 DEF Counted
  <2>4. bio_list' # <<>> => pc' \in {"reconnect", "resubmit"}
    BY <1>9, <2>1
  <2>5. Uniform => \A i \in 1..Len(rq') : rq'[i].n <= max_segments
    BY <1>8, <2>1
  <2>6. pc' = pc \/ (connected = "connected" /\ pc' = "idle")
    BY <1>3, <2>1
  <2>7. connected # "disconnected"
    BY <1>3
  <2>. QED  BY <1>4, <1>5, <2>2, <2>3, <2>4, <2>5, <2>6, <2>7, MovedKeeps
<1>10. CASE bio_list # <<>>
  <2>. DEFINE r == Head(bio_list)  y == max_segments  t == PiecesFor(r, y)  n == PieceCount(r, y)
  <2>1. /\ rq' = rq \o PiecesFor(r, y) /\ bio_list' = Tail(bio_list) /\ pc' = pc
        /\ pending' = [pending EXCEPT ![r.bio] = @ + PieceCount(r, y) - 1]
    BY <1>10 DEF Resubmit, PiecesFor, PieceCount, PieceSize
  <2>2. r \in Requests /\ Tail(bio_list) \in Seq(Requests)
    BY <1>6, <1>10, TakeFirst
  <2>3. /\ n \in Nat \ {0} /\ t \in Seq(Requests) /\ Len(t) = n
        /\ \A i \in 1..n : /\ t[i] = [bio |-> r.bio, n |-> PieceSize(r, y, i)]
                           /\ PieceSize(r, y, i) \in Nat /\ PieceSize(r, y, i) <= y
    BY <1>6, <2>2, PiecesTyped
  <2>. HIDE DEF r
  <2>4. Counted'
    <3>1. UNCHANGED <<shadow, size, answered>>
      BY <1>1
    <3>. QED  BY <1>2, <1>6, <1>10, <2>1, <3>1, ResubmitCounted DEF r
  <2>. HIDE DEF t, n
  <2>5. rq' = rq \o t /\ bio_list' = Tail(bio_list)
        /\ pending' = [pending EXCEPT ![r.bio] = @ + n - 1]
    BY <2>1 DEF t, n
  <2>6. Types'
    <3>1. rq' \in Seq(Requests)
      BY <1>6, <2>3, <2>5
    <3>2. pending' \in [Bios -> Int]
      BY <1>6, <2>2, <2>3, <2>5 DEF Requests
    <3>. QED  BY <1>1, <1>7, <2>1, <2>2, <2>5, <3>1, <3>2
  <2>7. Uniform => \A i \in 1..Len(rq') : rq'[i].n <= max_segments
    <3>1. SUFFICES ASSUME Uniform, NEW i \in 1..Len(rq') PROVE rq'[i].n <= max_segments
      OBVIOUS
    <3>4. CASE i \in 1..Len(rq)
      <4>1. rq'[i] = rq[i]
        BY <1>6, <2>3, <2>5, <3>4
      <4>. QED  BY <1>8, <3>1, <3>4, <4>1
    <3>5. CASE i \notin 1..Len(rq)
      <4>. DEFINE j == i - Len(rq)
      <4>1. j \in 1..n /\ rq'[i] = t[j]
        BY <1>6, <2>3, <2>5, <3>5
      <4>. HIDE DEF j
      <4>2. rq'[i].n = PieceSize(r, y, j) /\ PieceSize(r, y, j) \in Nat /\ PieceSize(r, y, j) <= y
        BY <2>3, <4>1
      <4>. QED  BY <4>2
    <3>. QED  BY <3>4, <3>5
  <2>8. bio_list' # <<>> => pc' \in {"reconnect", "resubmit"}
    BY <1>1, <2>1
  <2>9. pc' = pc \/ (connected = "connected" /\ pc' = "idle")
    <3>1. pc' = pc
      BY <2>1
    <3>. QED  BY <3>1
  <2>10. connected # "disconnected"
    BY <1>3
  <2>. QED  BY <1>4, <1>5, <2>4, <2>6, <2>7, <2>8, <2>9, <2>10, MovedKeeps
<1>. QED  BY <1>9, <1>10

--------------------------------------------------------------------------------
(* The first connection: a list with a grant for each slot and segment.    *)
LEMMA GrantsFit ==
  ASSUME NEW h \in Hosts
  PROVE  RingSize * (h.segs + 1) \in Nat /\ RingSize * (h.segs + 1) <= RingSize * (MaxSegs + 1)
<1>1. h.segs \in Nat /\ h.segs <= MaxSegs /\ MaxSegs \in Nat /\ RingSize \in Nat
  BY Constants
<1>. DEFINE m == h.segs + 1  k == MaxSegs - h.segs
<1>2. m \in Nat /\ k \in Nat /\ MaxSegs + 1 = m + k
  BY <1>1
<1>. HIDE DEF m, k
<1>3. RingSize * (m + k) = RingSize * m + RingSize * k /\ RingSize * m \in Nat
      /\ RingSize * k \in Nat
  BY <1>1, <1>2
<1>4. RingSize * (MaxSegs + 1) = RingSize * m + RingSize * k
  BY <1>2, <1>3
<1>5. RingSize * m <= RingSize * (MaxSegs + 1)
  BY <1>3, <1>4
<1>. QED  BY <1>3, <1>5 DEF m

(* blkfront_connect of a new disk.                                         *)
LEMMA FirstConnectKeeps ==
  ASSUME Inv, BlkbackChanged, backend = "Connected", connected = "disconnected"
  PROVE  Inv'
<1>1. /\ feature_persistent' = host.persistent /\ max_segments' = host.segs
      /\ grants' = [i \in 1..RingSize * (host.segs + 1) |->
                      [gref |-> NoRef, page |-> IF host.persistent THEN "bounce" ELSE "none"]]
      /\ gd' = TRUE
      /\ connected' = "connected" /\ state' = "Connected" /\ stopped' = FALSE
      /\ UNCHANGED <<rq, callback, work, shadow_free, shadow, ring, taken, answers, irq>>
      /\ UNCHANGED <<persistent_gnts_c, granted, mapped, pc, shortages, size, pending, answered>>
      /\ UNCHANGED <<bio_list, backend, host, migrations>>
      /\ watch' = FALSE /\ pc = "idle"
      /\ LET indirect == ~host.persistent /\ host.segs > Direct
         IN  /\ indirect_pages' = IF indirect THEN RingSize ELSE indirect_pages
             /\ bug' = (gd \/ (indirect /\ indirect_pages # 0))
  BY DEF BlkbackChanged, Connect, ringVars, bioVars
<1>2. Phases /\ Flags /\ Data /\ Fields /\ Fresh /\ Counted
  BY DriverFields, BiosCounted DEF Inv, Types, Data
<1>3. /\ AllIdle /\ NoneBusy /\ NoGrants /\ rq = <<>> /\ gd = FALSE /\ bio_list = <<>>
      /\ shadow_free = ShadowInit /\ indirect_pages = 0
  <2>1. bio_list = <<>>
    BY <1>1 DEF Inv
  <2>. QED  BY <1>2, <2>1 DEF Fresh
<1>4. host \in Hosts /\ host.persistent \in BOOLEAN /\ host.segs \in Segs
  BY <1>2, Constants DEF Data
<1>5. RingSize * (host.segs + 1) \in Nat /\ RingSize * (host.segs + 1) <= RingSize * (MaxSegs + 1)
  BY <1>4, GrantsFit
<1>16. /\ bug' = FALSE /\ indirect_pages' \in Nat
       /\ Indirect' => indirect_pages' = RingSize
  <2>1. bug' = FALSE
    BY <1>1, <1>3
  <2>2. Indirect' => ~host.persistent /\ host.segs > Direct
    BY <1>1 DEF Indirect
  <2>3. Indirect' => indirect_pages' = RingSize
    BY <1>1, <2>2
  <2>4. indirect_pages' \in {RingSize, 0}
    BY <1>1, <1>3
  <2>. QED  BY <2>1, <2>3, <2>4, Constants
<1>. DEFINE n == RingSize * (host.segs + 1)
            g == [gref |-> NoRef, page |-> IF host.persistent THEN "bounce" ELSE "none"]
<1>6. g \in Grants /\ g.gref = NoRef /\ (host.persistent => g.page = "bounce")
  BY DEF Grants, Pages
<1>. HIDE DEF n, g
<1>7. grants' = [i \in 1..n |-> g] /\ n \in Nat
  BY <1>1, <1>5 DEF n, g
<1>8. grants' \in Seq(Grants) /\ Len(grants') = n /\ \A i \in 1..n : grants'[i] = g
  BY <1>6, <1>7
<1>9. Types'
  <2>1. Fields'
    BY <1>1, <1>2, <1>8, <1>16 DEF Fields
  <2>2. Driver' \in Drivers
    BY <2>1, FieldsNext
  <2>3. Phases'
    BY <1>1, <1>2 DEF Phases
  <2>4. Flags'
    BY <1>1, <1>2, <1>3, <1>4, <1>16 DEF Flags
  <2>5. Data'
    BY <1>1, <1>2, <1>4, <2>2 DEF Data
  <2>. QED  BY <2>3, <2>4, <2>5 DEF Types
<1>10. BiosOk(Driver)'
  <2>1. Counted'
    BY <1>1, <1>2 DEF Counted
  <2>. QED  BY <1>9, <2>1, CountedNext DEF Types, Data
<1>11. (Uniform => PagesOk(Driver) /\ SegsOk(Driver))'
  <2>1. Driver.shadow' = [id \in Ids |-> Idle] /\ Driver.rq' = <<>> /\ Driver.grants' = grants'
    BY <1>1, <1>3 DEF Driver, AllIdle
  <2>2. \A id \in Ids : Driver.shadow'[id].used = <<>> /\ Driver.shadow'[id].req.n = 0
    BY <2>1 DEF Idle, NoRequest
  <2>3. PagesOk(Driver)'
    <3>1. feature_persistent' => \A i \in 1..Len(grants') : grants'[i].page = "bounce"
      BY <1>1, <1>6, <1>8
    <3>2. Driver'.grants = grants' /\ \A id \in Ids : Driver'.shadow[id].used = <<>>
      BY <2>1, <2>2
    <3>3. \A id \in Ids : 1..Len(Driver'.shadow[id].used) = {}
      BY <3>2
    <3>. QED  BY <3>1, <3>2, <3>3 DEF PagesOk
  <2>4. SegsOk(Driver)'
    <3>1. host.segs \in Nat
      BY <1>4, Constants
    <3>2. host'.segs \in Nat /\ 0 <= host'.segs /\ max_segments' <= host'.segs
      BY <1>1, <3>1
    <3>. QED  BY <2>1, <2>2, <3>2 DEF SegsOk
  <2>. QED  BY <2>3, <2>4
<1>12. Ready'
  <2>1. AllIdle' /\ NoneBusy' /\ NoGrants' /\ shadow_free' = ShadowInit
    BY <1>1, <1>3 DEF AllIdle, NoneBusy, NoGrants
  <2>2. Len(grants') <= RingSize * (MaxSegs + 1) /\ Len(grants') = RingSize * (host'.segs + 1)
    BY <1>1, <1>5, <1>8 DEF n
  <2>3. \A i \in 1..Len(grants') : grants'[i].gref = NoRef
    BY <1>6, <1>8
  <2>4. Context' /\ Driver' \in Drivers
    BY <1>9 DEF Context, Types, Data
  <2>. QED  BY <1>10, <1>11, <1>16, <2>1, <2>2, <2>3, <2>4 DEF Ready
<1>13. DriverOk(Driver)'
  BY <1>12, ReadyNext
<1>14. Connected'
  BY <1>1, <1>13 DEF Connected
<1>15. (Uniform => UniformInv)'
  <2>1. SUFFICES ASSUME Uniform PROVE UniformInv'
    OBVIOUS
  <2>. QED  BY <1>1, <1>11, <1>16, <2>1 DEF UniformInv
<1>. QED  BY <1>1, <1>3, <1>9, <1>10, <1>14, <1>15 DEF Inv

--------------------------------------------------------------------------------
(* The back end takes a request off the ring, or answers one: what the     *)
(* driver knows of its requests and its grants stays.                      *)
LEMMA ServedKeeps ==
  ASSUME Inv, connected = "connected",
         ring' \in Seq(Ids), answers' \in Seq(Ids), taken' \subseteq Ids, irq' \in BOOLEAN,
         IdsOk(Driver)', mapped' \subseteq granted, Uniform => KeepsNone(Driver)',
         UNCHANGED <<connected, state, gd, feature_persistent, max_segments, rq, stopped>>,
         UNCHANGED <<callback, work, shadow_free, shadow, grants, persistent_gnts_c, granted, indirect_pages>>,
         UNCHANGED <<pc, bio_list, backend, host, watch, migrations, shortages>>,
         UNCHANGED <<size, pending, answered, bug>>
  PROVE  Inv'
<1>1. Phases /\ Flags /\ Data /\ Fields /\ Counted /\ Connected
  BY DriverFields, BiosCounted DEF Inv, Types, Data
<1>2. Types'
  <2>1. granted' \subseteq Refs /\ mapped' \subseteq Refs
    BY <1>1 DEF Fields
  <2>2. Fields'
    BY <1>1, <2>1 DEF Fields
  <2>3. Driver' \in Drivers
    BY <2>2, FieldsNext
  <2>4. Phases'
    BY <1>1 DEF Phases
  <2>5. Flags'
    BY <1>1 DEF Flags
  <2>6. Data'
    BY <1>1, <2>1, <2>3 DEF Data
  <2>. QED  BY <2>4, <2>5, <2>6 DEF Types
<1>3. BiosOk(Driver)'
  <2>1. Counted'
    BY <1>1 DEF Counted
  <2>. QED  BY <1>2, <2>1, CountedNext DEF Types, Data
<1>4. /\ Driver'.shadow = Driver.shadow /\ Driver'.grants = Driver.grants
      /\ Driver'.count = Driver.count /\ Driver'.granted = Driver.granted
      /\ Driver'.rq = Driver.rq /\ Driver.granted = granted
      /\ Driver'.pages = Driver.pages
  BY DEF Driver
<1>5. HeldOnce(Driver) /\ CountOk(Driver) /\ Full(Driver)
      /\ (Uniform => UniformOk(Driver) /\ FramesOk(Driver))
  BY <1>1 DEF Connected, DriverOk, Steady, GrantsOk
<1>6. Full(Driver)' /\ GrantsOk(Driver)'
  <2>1. HeldOnce(Driver)'
    BY <1>4, <1>5 DEF HeldOnce
  <2>2. CountOk(Driver)'
    BY <1>4, <1>5 DEF CountOk
  <2>3. Full(Driver)'
    BY <1>4, <1>5 DEF Full
  <2>. QED  BY <1>4, <2>1, <2>2, <2>3 DEF GrantsOk
<1>7. (Uniform => UniformOk(Driver))'
  <2>1. SUFFICES ASSUME Uniform PROVE UniformOk(Driver)'
    OBVIOUS
  <2>2. PagesOk(Driver) /\ SegsOk(Driver)
        /\ Len(Driver.grants) + UsedTotal(Driver.shadow) = RingSize * (host.segs + 1)
    BY <1>5, <2>1 DEF UniformOk
  <2>3. PagesOk(Driver)'
    BY <1>4, <2>2 DEF PagesOk, PageOf
  <2>4. SegsOk(Driver)'
    BY <1>4, <2>2 DEF SegsOk
  <2>5. KeepsNone(Driver)'
    BY <2>1
  <2>. QED  BY <1>4, <2>2, <2>3, <2>4, <2>5 DEF UniformOk
<1>8. Connected'
  <2>1. Context' /\ Driver' \in Drivers
    BY <1>2 DEF Context, Types, Data
  <2>2. (Uniform => FramesOk(Driver))'
    BY <1>4, <1>5 DEF FramesOk, Indirect
  <2>3. DriverOk(Driver)'
    BY <1>3, <1>6, <1>7, <2>1, <2>2 DEF DriverOk, Steady
  <2>. QED  BY <1>1, <2>3 DEF Connected
<1>9. (Uniform => UniformInv)'
  <2>1. SUFFICES ASSUME Uniform PROVE UniformInv'
    OBVIOUS
  <2>2. UniformInv
    BY <2>1 DEF Inv
  <2>3. InFlight' = InFlight
    BY DEF InFlight
  <2>4. PagesOk(Driver)' /\ SegsOk(Driver)'
    BY <1>7, <2>1 DEF UniformOk
  <2>. QED  BY <2>2, <2>3, <2>4 DEF UniformInv
<1>10. (bio_list # <<>> => pc \in {"reconnect", "resubmit"})'
  BY DEF Inv
<1>. QED  BY <1>2, <1>3, <1>8, <1>9, <1>10 DEF Inv

(* The back end takes a request.                                           *)
LEMMA TakesKeeps == Inv /\ BackendTakes => Inv'
<1>. SUFFICES ASSUME Inv, BackendTakes PROVE Inv'
  OBVIOUS
<1>. DEFINE id == Head(ring)
<1>1. /\ ring # <<>> /\ ring' = Tail(ring) /\ taken' = taken \cup {id}
      /\ mapped' = mapped \cup RefsIn(shadow[id].used) /\ irq' = irq /\ answers' = answers
      /\ UNCHANGED <<connected, state, gd, feature_persistent, max_segments, rq, stopped>>
      /\ UNCHANGED <<callback, work, shadow_free, shadow, grants, persistent_gnts_c, granted, indirect_pages>>
      /\ UNCHANGED <<pc, bio_list, backend, host, watch, migrations, shortages>>
      /\ UNCHANGED <<size, pending, answered, bug>>
  BY DEF BackendTakes, devVars, features, queueVars, watchVars, envVars, bioVars
<1>2. Flags /\ Data /\ Fields
  BY DriverFields DEF Inv, Types, Data
<1>3. connected = "connected" /\ DriverOk(Driver)
  BY <1>1 DEF Inv, Types, Phases, Fresh, Suspended, NoneBusy, Connected
<1>4. ring \in Seq(Ids) /\ answers \in Seq(Ids) /\ taken \subseteq Ids /\ irq \in BOOLEAN
  BY <1>2 DEF Flags, Data, Fields
<1>5. id \in Ids /\ Tail(ring) \in Seq(Ids)
  BY <1>1, <1>4, TakeFirst
<1>6. IdsOk(Driver) /\ GrantsOk(Driver)
  BY <1>3 DEF DriverOk, Steady
<1>7. /\ Driver.ring = ring /\ Driver'.ring = ring' /\ Driver'.free = Driver.free
      /\ Driver'.answers = Driver.answers /\ Driver'.shadow = Driver.shadow
      /\ Driver.shadow = shadow /\ Driver.granted = granted /\ Driver'.count = Driver.count
  BY <1>1 DEF Driver
<1>8. /\ Injective(Tail(ring)) /\ Members(Tail(ring)) = Members(ring) \ {id}
      /\ id \in Members(ring)
  BY <1>1, <1>4, <1>6, <1>7, MembersTail DEF IdsOk
<1>9. IdsOk(Driver)'
  <2>1. Busy(Driver)' = Busy(Driver)
    BY <1>7 DEF Busy
  <2>2. /\ Injective(Driver.free) /\ Members(Driver.free) = Ids \ Busy(Driver)
        /\ Injective(Driver.answers)
        /\ Members(ring) \cap taken = {} /\ Members(Driver.answers) \cap taken = {}
        /\ Members(ring) \cap Members(Driver.answers) = {}
        /\ Members(ring) \cup taken \cup Members(Driver.answers) = Busy(Driver)
    BY <1>6, <1>7 DEF IdsOk
  <2>. QED  BY <1>1, <1>7, <1>8, <2>1, <2>2 DEF IdsOk
<1>10. mapped' \subseteq granted
  <2>1. /\ Driver.granted = RefsIn(Driver.grants)
                              \cup (UNION {RefsIn(Driver.shadow[o].used) : o \in Ids})
        /\ mapped \subseteq Driver.granted
    BY <1>6 DEF GrantsOk, HeldOnce
  <2>2. RefsIn(Driver.shadow[id].used) \subseteq Driver.granted
    BY <1>5, <2>1
  <2>. QED  BY <1>1, <1>7, <2>1, <2>2
<1>11. Uniform => KeepsNone(Driver)'
  <2>1. SUFFICES ASSUME Uniform PROVE KeepsNone(Driver)'
    OBVIOUS
  <2>2. KeepsNone(Driver)
    BY <1>3, <2>1 DEF DriverOk, Steady, UniformOk
  <2>3. SUFFICES ASSUME ~feature_persistent
        PROVE /\ Driver'.count = 0
              /\ mapped' \subseteq UNION {RefsIn(Driver'.shadow[o].used) : o \in taken'}
    BY <1>1 DEF KeepsNone
  <2>4. Driver.count = 0 /\ mapped \subseteq UNION {RefsIn(Driver.shadow[o].used) : o \in taken}
    BY <2>2, <2>3 DEF KeepsNone
  <2>. QED  BY <1>1, <1>7, <2>4
<1>. HIDE DEF id
<1>12. ring' \in Seq(Ids) /\ answers' \in Seq(Ids) /\ taken' \subseteq Ids /\ irq' \in BOOLEAN
  BY <1>1, <1>4, <1>5
<1>. QED  BY <1>1, <1>3, <1>9, <1>10, <1>11, <1>12, ServedKeeps

(* The back end answers a request.                                         *)
LEMMA AnswersKeeps ==
  ASSUME Inv, NEW id \in Ids, NEW keep \in BOOLEAN, BackendAnswers(id, keep)
  PROVE  Inv'
<1>1. /\ id \in taken /\ taken' = taken \ {id} /\ answers' = Append(answers, id) /\ irq' = TRUE
      /\ mapped' = (IF keep THEN mapped ELSE mapped \ RefsIn(shadow[id].used)) /\ ring' = ring
      /\ (keep => host.persistent)
      /\ UNCHANGED <<connected, state, gd, feature_persistent, max_segments, rq, stopped>>
      /\ UNCHANGED <<callback, work, shadow_free, shadow, grants, persistent_gnts_c, granted, indirect_pages>>
      /\ UNCHANGED <<pc, bio_list, backend, host, watch, migrations, shortages>>
      /\ UNCHANGED <<size, pending, answered, bug>>
  BY DEF BackendAnswers, devVars, features, queueVars, watchVars, envVars, bioVars
<1>2. Flags /\ Data /\ Fields
  BY DriverFields DEF Inv, Types, Data
<1>3. connected = "connected" /\ DriverOk(Driver)
  BY <1>1 DEF Inv, Types, Phases, Fresh, Suspended, NoneBusy, Connected
<1>4. ring \in Seq(Ids) /\ answers \in Seq(Ids) /\ taken \subseteq Ids
  BY <1>2 DEF Data, Fields
<1>5. IdsOk(Driver) /\ GrantsOk(Driver)
  BY <1>3 DEF DriverOk, Steady
<1>6. /\ Driver.answers = answers /\ Driver'.answers = answers' /\ Driver'.free = Driver.free
      /\ Driver'.ring = Driver.ring /\ Driver'.shadow = Driver.shadow
      /\ Driver.shadow = shadow /\ Driver.granted = granted /\ Driver'.count = Driver.count
  BY <1>1 DEF Driver
<1>7. id \notin Members(answers)
  BY <1>1, <1>5, <1>6 DEF IdsOk
<1>8. Injective(Append(answers, id)) /\ Members(Append(answers, id)) = Members(answers) \cup {id}
  BY <1>4, <1>5, <1>6, <1>7, MembersAppend DEF IdsOk
<1>9. IdsOk(Driver)'
  <2>1. Busy(Driver)' = Busy(Driver)
    BY <1>6 DEF Busy
  <2>2. /\ Injective(Driver.free) /\ Members(Driver.free) = Ids \ Busy(Driver)
        /\ Injective(Driver.ring)
        /\ Members(Driver.ring) \cap taken = {} /\ Members(answers) \cap taken = {}
        /\ Members(Driver.ring) \cap Members(answers) = {}
        /\ Members(Driver.ring) \cup taken \cup Members(answers) = Busy(Driver)
    BY <1>5, <1>6 DEF IdsOk
  <2>. QED  BY <1>1, <1>6, <1>8, <2>1, <2>2 DEF IdsOk
<1>10. mapped' \subseteq granted
  <2>1. mapped \subseteq Driver.granted
    BY <1>5 DEF GrantsOk
  <2>. QED  BY <1>1, <1>6, <2>1
<1>11. Uniform => KeepsNone(Driver)'
  <2>1. SUFFICES ASSUME Uniform, ~feature_persistent
        PROVE /\ Driver'.count = 0
              /\ mapped' \subseteq UNION {RefsIn(Driver'.shadow[o].used) : o \in taken'}
    BY <1>1 DEF KeepsNone
  <2>2. ~host.persistent
    BY <1>3, <2>1 DEF Inv, UniformInv
  <2>3. mapped' = mapped \ RefsIn(shadow[id].used)
    BY <1>1, <2>2
  <2>4. Driver.count = 0 /\ mapped \subseteq UNION {RefsIn(Driver.shadow[o].used) : o \in taken}
    BY <1>3, <2>1 DEF DriverOk, Steady, UniformOk, KeepsNone
  <2>. QED  BY <1>1, <1>6, <2>3, <2>4
<1>12. ring' \in Seq(Ids) /\ answers' \in Seq(Ids) /\ taken' \subseteq Ids /\ irq' \in BOOLEAN
  BY <1>1, <1>4
<1>. QED  BY <1>1, <1>3, <1>9, <1>10, <1>11, <1>12, ServedKeeps

(* The back end lets go of what it does not work on.                       *)
LEMMA LetsGoKeeps == Inv /\ BackendLetsGo => Inv'
<1>. SUFFICES ASSUME Inv, BackendLetsGo PROVE Inv'
  OBVIOUS
<1>1. /\ mapped' \subseteq mapped /\ mapped # {}
      /\ UNCHANGED <<ring, taken, answers, irq>>
      /\ UNCHANGED <<connected, state, gd, feature_persistent, max_segments, rq, stopped>>
      /\ UNCHANGED <<callback, work, shadow_free, shadow, grants, persistent_gnts_c, granted, indirect_pages>>
      /\ UNCHANGED <<pc, bio_list, backend, host, watch, migrations, shortages>>
      /\ UNCHANGED <<size, pending, answered, bug>>
  BY DEF BackendLetsGo, devVars, features, queueVars, ringVars, watchVars, envVars, bioVars
<1>2. Flags /\ Data /\ Fields
  BY DriverFields DEF Inv, Types, Data
<1>3. connected = "connected" /\ DriverOk(Driver)
  BY <1>1 DEF Inv, Types, Phases, Fresh, Suspended, NoGrants, Connected
<1>4. IdsOk(Driver) /\ GrantsOk(Driver)
  BY <1>3 DEF DriverOk, Steady
<1>5. Driver' = Driver /\ Driver.granted = granted
  BY <1>1 DEF Driver
<1>6. IdsOk(Driver)'
  BY <1>1, <1>4, <1>5 DEF IdsOk, Busy
<1>7. mapped' \subseteq granted
  BY <1>1, <1>4, <1>5 DEF GrantsOk
<1>8. Uniform => KeepsNone(Driver)'
  <2>1. SUFFICES ASSUME Uniform, ~feature_persistent
        PROVE /\ Driver.count = 0
              /\ mapped' \subseteq UNION {RefsIn(Driver.shadow[o].used) : o \in taken}
    BY <1>1, <1>5 DEF KeepsNone
  <2>2. Driver.count = 0 /\ mapped \subseteq UNION {RefsIn(Driver.shadow[o].used) : o \in taken}
    BY <1>3, <2>1 DEF DriverOk, Steady, UniformOk, KeepsNone
  <2>. QED  BY <1>1, <2>2
<1>9. ring' \in Seq(Ids) /\ answers' \in Seq(Ids) /\ taken' \subseteq Ids /\ irq' \in BOOLEAN
  BY <1>1, <1>2 DEF Flags, Data, Fields
<1>. QED  BY <1>1, <1>3, <1>6, <1>7, <1>8, <1>9, ServedKeeps

--------------------------------------------------------------------------------
(* What is in flight has a request: one without would have no grants.      *)
LEMMA InFlightTyped ==
  ASSUME shadow \in [Ids -> Shadows], Full(Driver), NEW id \in InFlight
  PROVE  shadow[id].req \in Requests /\ shadow[id].used \in Seq(Grants)
<1>1. id \in Ids /\ shadow[id] # Idle /\ shadow[id] \in Shadows
  BY DEF InFlight
<1>2. SUFFICES ASSUME shadow[id].req = NoRequest PROVE FALSE
  BY <1>1 DEF Shadows
<1>3. Len(shadow[id].used) = 0 /\ shadow[id].used \in Seq(Grants)
  <2>1. Len(shadow[id].used) = Need(shadow[id].req.n) /\ shadow[id].req.n = 0
    BY <1>1, <1>2 DEF Full, Driver, NoRequest
  <2>. QED  BY <1>1, <2>1, Needs DEF Shadows
<1>4. shadow[id].used = <<>>
  BY <1>3
<1>5. shadow[id] = [req |-> shadow[id].req, used |-> shadow[id].used]
  BY <1>1 DEF Shadows
<1>. QED  BY <1>1, <1>2, <1>4, <1>5 DEF Idle

(* blkif_recover: the list of what is in flight holds every request of the *)
(* shadows, and nothing else.                                              *)
LEMMA InFlightListed ==
  ASSUME shadow \in [Ids -> Shadows], Full(Driver), NEW w \in [Reqs -> Nat], w[NoRequest] = 0
  PROVE  ListInFlight \in Seq(Requests) /\ Weigh(ListInFlight, w) = Weigh(Shadowed(shadow), w)
<1>. DEFINE S == Seq(Requests)
            Next1(s, i) == IF i - 1 \in InFlight THEN Append(s, shadow[i - 1].req) ELSE s
            Rec(g) == g = [i \in 0..RingSize |->
                             IF i = 0 THEN <<>> ELSE Next1(g[i - 1], i)]
            l == CHOOSE g : Rec(g)
            F == [p \in S \X (1..RingSize) |-> Next1(p[1], p[2])]
            h == [i \in 1..Len(Shadowed(shadow)) |-> w[Shadowed(shadow)[i]]]
<1>1. RingSize \in Nat
  BY Constants
<1>2. \A id \in InFlight : shadow[id].req \in Requests
  BY InFlightTyped
<1>3. \A id \in Ids \ InFlight : shadow[id].req = NoRequest
  BY DEF InFlight, Idle
<1>4. \A s \in S, i \in 1..RingSize : Next1(s, i) \in S
  BY <1>2
<1>5. F \in [S \X (1..RingSize) -> S] /\ <<>> \in S
  BY <1>4
<1>. HIDE DEF S
<1>6. \E g \in [0..RingSize -> S] : Recursion(g, RingSize, <<>>, F)
  <2>. HIDE DEF F
  <2>. QED  BY <1>1, <1>5, RecursionWorks
<1>7. PICK g \in [0..RingSize -> S] : Recursion(g, RingSize, <<>>, F)
  BY <1>6
<1>8. g[0] = <<>> /\ \A i \in 1..RingSize : g[i] = Next1(g[i - 1], i)
  <2>1. g[0] = <<>> /\ \A i \in 1..RingSize : g[i] = F[<<g[i - 1], i>>]
    <3>. HIDE DEF F
    <3>. QED  BY <1>7 DEF Recursion
  <2>2. \A i \in 1..RingSize : g[i - 1] \in S
    BY <1>1
  <2>. QED  BY <2>1, <2>2
<1>9. Rec(g)
  <2>. HIDE DEF Next1
  <2>. QED  BY <1>1, <1>8
<1>10. Rec(l)
  <2>. HIDE DEF Rec
  <2>. QED  BY <1>9
<1>11. ListInFlight = l[RingSize]
  BY DEF ListInFlight
<1>. HIDE DEF l
<1>12. l[0] = <<>> /\ \A i \in 1..RingSize : l[i] = Next1(l[i - 1], i)
  <2>. HIDE DEF Next1
  <2>. QED  BY <1>1, <1>10
<1>. HIDE DEF Rec, F
<1>13. /\ Shadowed(shadow) \in Seq(Reqs) /\ Len(Shadowed(shadow)) = RingSize
       /\ \A i \in 1..RingSize : Shadowed(shadow)[i] = shadow[i - 1].req
  BY ShadowedTyped
<1>14. h \in Seq(Nat) /\ Len(h) = RingSize /\ \A i \in 1..RingSize : h[i] = w[shadow[i - 1].req]
  <2>1. h \in Seq(Nat) /\ Len(h) = Len(Shadowed(shadow))
        /\ \A i \in 1..Len(Shadowed(shadow)) : h[i] = w[Shadowed(shadow)[i]]
    BY <1>13, WeighTyped
  <2>. HIDE DEF h
  <2>. QED  BY <1>13, <2>1
<1>15. Weigh(Shadowed(shadow), w) = Total(h)
  BY DEF Weigh
<1>. HIDE DEF h
<1>16. PICK t \in [0..Len(h) -> Nat] : SumOf(t, h)
  BY <1>14, TotalSums
<1>17. t[0] = 0 /\ Total(h) = t[RingSize] /\ \A i \in 1..RingSize : t[i] = t[i - 1] + h[i]
  BY <1>14, <1>16 DEF SumOf, IsSum
<1>. DEFINE T == {i \in 0..RingSize : l[i] \in S /\ l[i] \in Seq(Reqs) /\ Weigh(l[i], w) = t[i]}
<1>18. 0 \in T
  <2>1. NoRequest \in Reqs /\ <<>> \in Seq(Reqs)
    BY DEF Reqs
  <2>2. Weigh(<<>>, w) = 0
    BY <2>1, WeighSmall
  <2>3. l[0] = <<>> /\ t[0] = 0 /\ <<>> \in S /\ 0 \in 0..RingSize
    BY <1>1, <1>5, <1>12, <1>17
  <2>. QED  BY <2>1, <2>2, <2>3
<1>19. ASSUME NEW i \in 1..RingSize, i - 1 \in T PROVE i \in T
  <2>1. i \in 0..RingSize /\ i - 1 \in Ids /\ t[i] = t[i - 1] + h[i]
        /\ h[i] = w[shadow[i - 1].req] /\ l[i] = Next1(l[i - 1], i)
    <3>1. i \in 0..RingSize /\ i - 1 \in Ids
      BY <1>1, Indices
    <3>2. t[i] = t[i - 1] + h[i] /\ l[i] = Next1(l[i - 1], i)
      BY <1>12, <1>17
    <3>3. h[i] = w[shadow[i - 1].req]
      BY <1>14
    <3>. QED  BY Zenon, <3>1, <3>2, <3>3
  <2>2. l[i - 1] \in S /\ l[i - 1] \in Seq(Reqs) /\ Weigh(l[i - 1], w) = t[i - 1]
    BY <1>19
  <2>3. t[i - 1] \in Nat
    BY <1>1, <1>14, <1>16
  <2>4. CASE i - 1 \in InFlight
    <3>. DEFINE r == shadow[i - 1].req
    <3>1. r \in Requests /\ r \in Reqs
      BY <1>2, <2>4 DEF Reqs
    <3>2. l[i] = Append(l[i - 1], r)
      BY <2>1, <2>4
    <3>3. h[i] = w[r]
      BY <2>1
    <3>. HIDE DEF r
    <3>4. Weigh(l[i], w) = Weigh(l[i - 1], w) + w[r]
      BY <2>2, <3>1, <3>2, WeighAppend
    <3>5. l[i] \in S /\ l[i] \in Seq(Reqs)
      <4>. HIDE DEF Reqs
      <4>. QED  BY <2>2, <3>1, <3>2 DEF S
    <3>. QED  BY <2>1, <2>2, <3>3, <3>4, <3>5
  <2>5. CASE i - 1 \notin InFlight
    <3>1. h[i] = 0
      BY <1>3, <2>1, <2>5
    <3>. QED  BY <2>1, <2>2, <2>3, <2>5, <3>1
  <2>. QED  BY <2>4, <2>5
<1>20. \A i \in 0..RingSize : i \in T
  <2>. HIDE DEF T
  <2>. QED  BY <1>1, <1>18, <1>19, UpTo
<1>21. RingSize \in T
  BY <1>1, <1>20
<1>. QED  BY <1>11, <1>15, <1>17, <1>21 DEF S

(* blkif_recover: everything in flight and queued is on the list.          *)
LEMMA RecoverKeeps == Inv /\ Recover => Inv'
<1>. SUFFICES ASSUME Inv, Recover PROVE Inv'
  OBVIOUS
<1>1. /\ pc = "recover" /\ pc' = "reconnect" /\ bio_list' = ListInFlight \o rq /\ rq' = <<>>
      /\ shadow' = [id \in Ids |-> Idle] /\ shadow_free' = ShadowInit
      /\ grants' = [i \in 1..Len(grants) |-> [gref |-> NoRef,
                      page |-> IF feature_persistent THEN grants[i].page ELSE "none"]]
      /\ max_segments' \in Offered
      /\ UNCHANGED <<connected, state, gd, feature_persistent, stopped, callback, work, ring>>
      /\ UNCHANGED <<taken, answers, irq, persistent_gnts_c, granted, mapped, indirect_pages>>
      /\ UNCHANGED <<backend, host>>
      /\ UNCHANGED <<watch, migrations, shortages, size, pending, answered, bug>>
  BY DEF Recover, devVars, envVars, bioVars
<1>2. Phases /\ Flags /\ Data /\ Fields /\ Counted
  BY DriverFields, BiosCounted DEF Inv, Types, Data
<1>3. connected = "suspended" /\ Suspended
  BY <1>1 DEF Inv, Types, Phases, Fresh, Connected
<1>4. bio_list = <<>>
  BY <1>1 DEF Inv
<1>5. Full(Driver) /\ shadow \in [Ids -> Shadows] /\ rq \in Seq(Requests) /\ grants \in Seq(Grants)
  BY <1>2, <1>3 DEF Suspended, Fields
<1>6. ASSUME NEW w \in [Reqs -> Nat], w[NoRequest] = 0
      PROVE  /\ Weigh(rq', w) = 0 /\ Weigh(Shadowed(shadow'), w) = 0 /\ Weigh(bio_list, w) = 0
             /\ Weigh(bio_list', w) = Weigh(Shadowed(shadow), w) + Weigh(rq, w)
             /\ Weigh(Shadowed(shadow), w) \in Nat /\ Weigh(rq, w) \in Nat
  <2>1. ListInFlight \in Seq(Requests) /\ Weigh(ListInFlight, w) = Weigh(Shadowed(shadow), w)
    BY <1>5, <1>6, InFlightListed
  <2>2. ListInFlight \in Seq(Reqs) /\ rq \in Seq(Reqs) /\ NoRequest \in Reqs
    BY <1>5, <2>1 DEF Reqs
  <2>3. Weigh(ListInFlight \o rq, w) = Weigh(ListInFlight, w) + Weigh(rq, w)
    BY <2>2, WeighConcat
  <2>4. Weigh(<<>>, w) = 0
    BY <2>2, WeighSmall
  <2>5. Weigh(Shadowed(shadow'), w) = 0
    BY <1>1, <1>6, AllIdleSums
  <2>6. Weigh(Shadowed(shadow), w) \in Nat /\ Weigh(rq, w) \in Nat
    BY <1>2, WeighsTyped
  <2>. QED  BY <1>1, <1>4, <2>1, <2>3, <2>4, <2>5, <2>6
<1>7. bio_list' \in Seq(Requests)
  <2>. DEFINE w == [r \in Reqs |-> 0]
  <2>1. w \in [Reqs -> Nat] /\ w[NoRequest] = 0
    BY DEF Reqs
  <2>. HIDE DEF w
  <2>2. ListInFlight \in Seq(Requests)
    BY <1>5, <2>1, InFlightListed
  <2>. QED  BY <1>1, <1>5, <2>2
<1>8. Counted'
  <2>1. SUFFICES ASSUME NEW b \in Bios
        PROVE /\ size'[b] = answered'[b] + (Weigh(rq', PageW(b))
                                             + Weigh(Shadowed(shadow'), PageW(b))
                                             + Weigh(bio_list', PageW(b)))
              /\ pending'[b] = Weigh(rq', PieceW(b)) + Weigh(Shadowed(shadow'), PieceW(b))
                                 + Weigh(bio_list', PieceW(b))
    BY DEF Counted
  <2>2. /\ PageW(b) \in [Reqs -> Nat] /\ PieceW(b) \in [Reqs -> Nat]
        /\ PageW(b)[NoRequest] = 0 /\ PieceW(b)[NoRequest] = 0
    BY Weights
  <2>3. /\ size[b] = answered[b] + (Weigh(rq, PageW(b)) + Weigh(Shadowed(shadow), PageW(b))
                                      + Weigh(bio_list, PageW(b)))
        /\ pending[b] = Weigh(rq, PieceW(b)) + Weigh(Shadowed(shadow), PieceW(b))
                          + Weigh(bio_list, PieceW(b))
    BY <1>2 DEF Counted
  <2>4. size' = size /\ answered' = answered /\ pending' = pending
    BY <1>1
  <2>5. /\ Weigh(rq', PageW(b)) = 0 /\ Weigh(Shadowed(shadow'), PageW(b)) = 0
        /\ Weigh(bio_list, PageW(b)) = 0
        /\ Weigh(bio_list', PageW(b)) = Weigh(Shadowed(shadow), PageW(b)) + Weigh(rq, PageW(b))
        /\ Weigh(Shadowed(shadow), PageW(b)) \in Nat /\ Weigh(rq, PageW(b)) \in Nat
    BY <1>6, <2>2
  <2>6. /\ Weigh(rq', PieceW(b)) = 0 /\ Weigh(Shadowed(shadow'), PieceW(b)) = 0
        /\ Weigh(bio_list, PieceW(b)) = 0
        /\ Weigh(bio_list', PieceW(b)) = Weigh(Shadowed(shadow), PieceW(b)) + Weigh(rq, PieceW(b))
        /\ Weigh(Shadowed(shadow), PieceW(b)) \in Nat /\ Weigh(rq, PieceW(b)) \in Nat
    BY <1>6, <2>2
  <2>7. answered[b] \in Nat
    BY <1>2 DEF Fields
  <2>. QED  BY <2>3, <2>4, <2>5, <2>6, <2>7
<1>. DEFINE n == Len(grants)
<1>9. n \in Nat /\ \A i \in 1..n : grants[i] \in Grants
  BY <1>5
<1>10. /\ grants' \in Seq(Grants) /\ Len(grants') = n
       /\ \A i \in 1..n : /\ grants'[i].gref = NoRef
                          /\ feature_persistent => grants'[i].page = grants[i].page
  <2>1. \A i \in 1..n : [gref |-> NoRef, page |-> IF feature_persistent THEN grants[i].page
                                                    ELSE "none"] \in Grants
    BY <1>9 DEF Grants, Pages
  <2>. HIDE DEF n
  <2>2. grants' = [i \in 1..n |-> [gref |-> NoRef, page |-> IF feature_persistent
                                       THEN grants[i].page ELSE "none"]]
    BY <1>1 DEF n
  <2>. QED  BY <1>9, <2>1, <2>2
<1>11. host \in Hosts /\ max_segments' \in Segs /\ max_segments' <= host.segs
  <2>1. host \in Hosts
    BY <1>2 DEF Data
  <2>2. /\ host.segs \in Segs /\ Direct \in Segs /\ host.segs \in Nat \ {0}
        /\ Direct <= host.segs
    BY <2>1, Constants
  <2>3. max_segments' \in {Direct, host.segs}
    BY <1>1 DEF Offered
  <2>. QED  BY <2>1, <2>2, <2>3
<1>12. shadow' \in [Ids -> Shadows] /\ \A id \in Ids : shadow'[id] = Idle
  BY <1>1 DEF Shadows, Idle
<1>13. ShadowInit \in Seq(Ids)
  BY Constants, Indices DEF ShadowInit
<1>14. Types'
  <2>1. Fields'
    BY <1>1, <1>2, <1>10, <1>12, <1>13 DEF Fields
  <2>2. Driver' \in Drivers
    BY <2>1, FieldsNext
  <2>3. Phases'
    BY <1>1, <1>2 DEF Phases
  <2>4. Flags'
    BY <1>1, <1>2 DEF Flags
  <2>5. Data'
    BY <1>1, <1>2, <1>7, <1>11, <2>2 DEF Data
  <2>. QED  BY <2>3, <2>4, <2>5 DEF Types
<1>15. BiosOk(Driver)'
  BY <1>7, <1>8, <1>14, CountedNext DEF Types, Data
<1>16. Driver'.shadow = shadow' /\ Driver'.rq = <<>> /\ Driver'.grants = grants'
  BY <1>1 DEF Driver
<1>17. Full(Driver)'
  <2>1. \A id \in Ids : Len(Driver'.shadow[id].used) = 0 /\ Driver'.shadow[id].req.n = 0
    BY <1>12, <1>16 DEF Idle, NoRequest
  <2>. QED  BY <2>1, Needs DEF Full
<1>18. Suspended'
  <2>1. AllIdle' /\ NoneBusy' /\ NoGrants'
    BY <1>1, <1>3 DEF Suspended, AllIdle, NoneBusy, NoGrants
  <2>2. Len(grants') <= RingSize * (MaxSegs + 1)
    BY <1>3, <1>10 DEF Suspended
  <2>3. \A i \in 1..Len(grants') : grants'[i].gref = NoRef
    BY <1>10
  <2>. QED  BY <1>1, <1>3, <1>17, <2>1, <2>2, <2>3 DEF Suspended
<1>19. (Uniform => UniformInv)'
  <2>1. SUFFICES ASSUME Uniform PROVE UniformInv'
    OBVIOUS
  <2>2. UniformInv
    BY <2>1 DEF Inv
  <2>3. PagesOk(Driver)'
    <3>1. feature_persistent => \A i \in 1..n : grants[i].page = "bounce"
      BY <1>3, <2>2 DEF UniformInv, PagesOk, Driver
    <3>2. feature_persistent' => \A i \in 1..Len(grants') : grants'[i].page = "bounce"
      BY <1>1, <1>10, <3>1
    <3>3. \A id \in Ids : Driver'.shadow[id].used = <<>>
      BY <1>12, <1>16 DEF Idle
    <3>4. \A id \in Ids : 1..Len(Driver'.shadow[id].used) = {}
      BY <3>3
    <3>. QED  BY <1>16, <3>2, <3>4 DEF PagesOk
  <2>4. SegsOk(Driver)'
    <3>1. host' = host /\ host.segs \in Nat
      BY <1>1, <1>11, Constants
    <3>2. \A id \in Ids : Driver'.shadow[id].req.n = 0
      BY <1>12, <1>16 DEF Idle, NoRequest
    <3>3. \A id \in Ids : Driver'.shadow[id].req.n <= host'.segs
      BY <3>1, <3>2
    <3>4. \A i \in 1..Len(Driver'.rq) : Driver'.rq[i].n <= max_segments'
      BY <1>16
    <3>5. max_segments' <= host'.segs
      BY <1>11, <3>1
    <3>. QED  BY <3>3, <3>4, <3>5 DEF SegsOk
  <2>5. Indirect' => indirect_pages' = RingSize
    BY <1>1, <1>3, <2>2 DEF UniformInv, Indirect
  <2>. QED  BY <1>1, <1>3, <1>10, <2>2, <2>3, <2>4, <2>5 DEF UniformInv
<1>. QED  BY <1>1, <1>3, <1>14, <1>15, <1>18, <1>19 DEF Inv

--------------------------------------------------------------------------------
(* blkif_free of a connected device: the list takes the grants of all the  *)
(* requests in flight.                                                     *)
AllGrants ==
    LET g[i \in 0..RingSize] == IF i = 0 THEN grants ELSE g[i - 1] \o shadow[i - 1].used
    IN  g[RingSize]

AnyGrant == Members(grants) \cup UNION {Members(shadow[id].used) : id \in Ids}

(* Each grant is one of those, and there are as many.                      *)
LEMMA AllGrantsTaken ==
  ASSUME grants \in Seq(Grants), shadow \in [Ids -> Shadows]
  PROVE  /\ AllGrants \in Seq(Grants) /\ Len(AllGrants) = Len(grants) + UsedTotal(shadow)
         /\ Members(AllGrants) \subseteq AnyGrant
<1>. DEFINE S == Seq(Grants)
            Next1(s, i) == s \o shadow[i - 1].used
            Rec(g) == g = [i \in 0..RingSize |-> IF i = 0 THEN grants ELSE Next1(g[i - 1], i)]
            l == CHOOSE g : Rec(g)
            F == [p \in S \X (1..RingSize) |-> Next1(p[1], p[2])]
            h == [i \in 1..RingSize |-> Len(shadow[i - 1].used)]
<1>1. RingSize \in Nat
  BY Constants
<1>2. \A i \in 1..RingSize : i - 1 \in Ids /\ shadow[i - 1].used \in S
  BY Indices DEF Shadows
<1>3. \A s \in S, i \in 1..RingSize : Next1(s, i) \in S
  BY <1>2
<1>4. F \in [S \X (1..RingSize) -> S] /\ grants \in S
  BY <1>3
<1>. HIDE DEF S
<1>5. \E g \in [0..RingSize -> S] : Recursion(g, RingSize, grants, F)
  <2>. HIDE DEF F
  <2>. QED  BY <1>1, <1>4, RecursionWorks
<1>6. PICK g \in [0..RingSize -> S] : Recursion(g, RingSize, grants, F)
  BY <1>5
<1>7. g[0] = grants /\ \A i \in 1..RingSize : g[i] = Next1(g[i - 1], i)
  <2>1. g[0] = grants /\ \A i \in 1..RingSize : g[i] = F[<<g[i - 1], i>>]
    <3>. HIDE DEF F
    <3>. QED  BY <1>6 DEF Recursion
  <2>2. \A i \in 1..RingSize : g[i - 1] \in S
    BY <1>1
  <2>. QED  BY <2>1, <2>2
<1>8. Rec(g)
  <2>. HIDE DEF Next1
  <2>. QED  BY <1>1, <1>7
<1>9. Rec(l)
  <2>. HIDE DEF Rec
  <2>. QED  BY <1>8
<1>10. AllGrants = l[RingSize]
  BY DEF AllGrants
<1>. HIDE DEF l
<1>11. l[0] = grants /\ \A i \in 1..RingSize : l[i] = Next1(l[i - 1], i)
  <2>. HIDE DEF Next1
  <2>. QED  BY <1>1, <1>9
<1>. HIDE DEF Rec, F
<1>12. /\ h \in Seq(Nat) /\ Len(h) = RingSize /\ UsedTotal(shadow) = Total(h)
       /\ \A i \in 1..RingSize : h[i] = Len(shadow[i - 1].used)
  BY UsedTyped
<1>. HIDE DEF h
<1>13. PICK t \in [0..Len(h) -> Nat] : SumOf(t, h)
  BY <1>12, TotalSums
<1>14. t[0] = 0 /\ Total(h) = t[RingSize] /\ \A i \in 1..RingSize : t[i] = t[i - 1] + h[i]
  BY <1>12, <1>13 DEF SumOf, IsSum
<1>. DEFINE n == Len(grants)
            T == {i \in 0..RingSize : /\ l[i] \in S /\ Len(l[i]) = n + t[i]
                                      /\ Members(l[i]) \subseteq AnyGrant}
<1>15. n \in Nat
  OBVIOUS
<1>. HIDE DEF n
<1>16. 0 \in T
  <2>1. n + t[0] = n
    BY <1>14, <1>15
  <2>. QED  BY <1>1, <1>4, <1>11, <2>1 DEF AnyGrant, n
<1>17. ASSUME NEW i \in 1..RingSize, i - 1 \in T PROVE i \in T
  <2>. DEFINE u == shadow[i - 1].used  s == l[i - 1]
  <2>1. i \in 0..RingSize /\ i - 1 \in Ids /\ i - 1 \in 0..RingSize /\ t[i] = t[i - 1] + Len(u)
        /\ l[i] = s \o u /\ u \in S
    <3>1. i \in 0..RingSize /\ i - 1 \in Ids /\ i - 1 \in 0..RingSize /\ u \in S
      BY <1>1, <1>2
    <3>2. t[i] = t[i - 1] + Len(u)
      BY <1>12, <1>14
    <3>3. l[i] = s \o u
      BY <1>11
    <3>. QED  BY <3>1, <3>2, <3>3
  <2>2. s \in S /\ Len(s) = n + t[i - 1] /\ Members(s) \subseteq AnyGrant
    BY <1>17
  <2>3. Members(u) \subseteq AnyGrant
    BY <2>1 DEF AnyGrant
  <2>4. t[i - 1] \in Nat
    BY <1>12, <2>1
  <2>. HIDE DEF u, s
  <2>5. /\ s \o u \in S /\ Len(s \o u) = Len(s) + Len(u) /\ Len(u) \in Nat
        /\ Members(s \o u) \subseteq Members(s) \cup Members(u)
    <3>1. s \in Seq(Grants) /\ u \in Seq(Grants)
      BY <2>1, <2>2 DEF S
    <3>2. s \o u \in Seq(Grants) /\ Len(s \o u) = Len(s) + Len(u) /\ Len(u) \in Nat
          /\ Len(s) \in Nat
      BY <3>1
    <3>3. \A j \in 1..Len(s) + Len(u) :
             IF j <= Len(s) THEN j \in 1..Len(s) /\ (s \o u)[j] = s[j]
             ELSE j - Len(s) \in 1..Len(u) /\ (s \o u)[j] = u[j - Len(s)]
      BY <3>1, <3>2
    <3>4. Members(s \o u) \subseteq Members(s) \cup Members(u)
      BY <3>2, <3>3 DEF Members
    <3>. QED  BY <3>2, <3>4 DEF S
  <2>6. Len(l[i]) = n + t[i]
    BY <1>15, <2>1, <2>2, <2>4, <2>5
  <2>. QED  BY <2>1, <2>2, <2>3, <2>5, <2>6
<1>18. \A i \in 0..RingSize : i \in T
  <2>. HIDE DEF T
  <2>. QED  BY <1>1, <1>16, <1>17, UpTo
<1>19. RingSize \in T
  BY <1>1, <1>18
<1>. QED  BY <1>10, <1>12, <1>14, <1>19 DEF S, n

(* The count is that of the grants in the list with a reference.           *)
LEMMA ValidCounted ==
  ASSUME CountOk(Driver), grants \in Seq(Grants)
  PROVE  Valid(grants) = persistent_gnts_c
<1>1. /\ persistent_gnts_c \in 0..Len(grants)
      /\ \A i \in 1..Len(grants) : grants[i].gref # NoRef <=> i <= persistent_gnts_c
  BY DEF CountOk, Driver
<1>2. Len(grants) \in Nat
  OBVIOUS
<1>3. {i \in 1..Len(grants) : grants[i].gref # NoRef} = 1..persistent_gnts_c
  BY <1>1, <1>2
<1>4. Cardinality(1..persistent_gnts_c) = persistent_gnts_c
  <2>1. Cardinality(1..persistent_gnts_c)
          = IF 1 > persistent_gnts_c THEN 0 ELSE persistent_gnts_c - 1 + 1
    BY <1>1, <1>2, FS_Interval
  <2>. QED  BY <1>1, <1>2, <2>1
<1>. QED  BY <1>3, <1>4 DEF Valid

(* A migration: blkfront_resume, with blkif_free.                          *)
LEMMA ResumeKeeps ==
  ASSUME Patient, Inv, NEW h \in Hosts, NEW b \in {"Initialising", "InitWait"}, Resume(h, b)
  PROVE  Inv'
<1>1. /\ pc = "idle" /\ connected = "connected" /\ migrations < MaxMigrations
      /\ connected' = "suspended" /\ grants' = AllGrants
      /\ persistent_gnts_c' = persistent_gnts_c - Valid(grants)
      /\ bug' = (persistent_gnts_c' # 0)
      /\ stopped' = (gd \/ stopped) /\ callback' = FALSE /\ work' = FALSE
      /\ granted' = {} /\ ring' = <<>> /\ answers' = <<>> /\ irq' = FALSE
      /\ mapped' = {} /\ taken' = {}
      /\ indirect_pages' = IF feature_persistent THEN indirect_pages
                           ELSE indirect_pages + Cardinality(Large(shadow))
  BY DEF Resume, BlkifFree, FreeForSuspend, AllGrants, Large
<1>2. /\ host' = h /\ backend' = b /\ state' = "Initialising" /\ watch' = TRUE
      /\ pc' \in {"talk", "idle"} /\ (Uniform => h = host) /\ migrations' = migrations + 1
      /\ UNCHANGED <<gd, feature_persistent, max_segments, rq, shadow_free, shadow>>
      /\ UNCHANGED <<bio_list, shortages, size, pending, answered>>
  BY <1>1 DEF Resume, BlkifFree, FreeForSuspend, features, bioVars
<1>3. Phases /\ Flags /\ Data /\ Fields /\ Counted /\ Connected
  BY <1>1, DriverFields, BiosCounted DEF Inv, Types, Data
<1>4. /\ grants \in Seq(Grants) /\ shadow \in [Ids -> Shadows]
      /\ CountOk(Driver) /\ Full(Driver) /\ (Uniform => UniformOk(Driver)) /\ gd = TRUE
      /\ (Uniform => FramesOk(Driver)) /\ indirect_pages \in Nat
  BY <1>3 DEF Fields, Connected, DriverOk, Steady, GrantsOk
<1>5. persistent_gnts_c' = 0 /\ bug' = FALSE
  <2>1. Valid(grants) = persistent_gnts_c /\ persistent_gnts_c \in Nat
    BY <1>3, <1>4, ValidCounted DEF Fields
  <2>2. persistent_gnts_c' = 0
    BY <1>1, <2>1
  <2>. QED  BY <1>1, <2>2
<1>6. /\ grants' \in Seq(Grants) /\ Len(grants') = Len(grants) + UsedTotal(shadow)
      /\ Members(grants') \subseteq AnyGrant
  BY <1>1, <1>4, AllGrantsTaken
<1>13. /\ indirect_pages' \in Nat
       /\ Uniform /\ Indirect => indirect_pages' = RingSize
  <2>1. Cardinality(Large(shadow)) \in Nat
    <3>1. Large(shadow) \subseteq Ids
      BY DEF Large
    <3>2. IsFiniteSet(Ids)
      BY Indices
    <3>. QED  BY <3>1, <3>2, FS_Subset, FS_CardinalityType
  <2>2. indirect_pages' \in Nat
    BY <1>1, <1>4, <2>1
  <2>3. ASSUME Uniform, Indirect PROVE indirect_pages' = RingSize
    <3>1. indirect_pages + Cardinality(Large(shadow)) = RingSize
      BY <1>4, <2>3 DEF FramesOk, Driver
    <3>. QED  BY <1>1, <2>3, <3>1 DEF Indirect
  <2>. QED  BY <2>2, <2>3
<1>7. bio_list = <<>>
  BY <1>1 DEF Inv
<1>8. Types'
  <2>1. <<>> \in Seq(Ids) /\ granted' \subseteq Refs /\ mapped' \subseteq Refs
        /\ taken' \subseteq Ids
    BY <1>1
  <2>2. Fields'
    <3>1. ring' \in Seq(Ids) /\ answers' \in Seq(Ids) /\ persistent_gnts_c' \in Nat
      BY <1>1, <1>5, <2>1
    <3>. QED  BY <1>2, <1>3, <1>6, <1>13, <2>1, <3>1 DEF Fields
  <2>3. Driver' \in Drivers
    BY <2>2, FieldsNext
  <2>4. Phases'
    <3>1. connected' = "suspended"
      BY <1>1
    <3>. QED  BY <1>2, <3>1 DEF Phases
  <2>5. Flags'
    <3>1. callback' = FALSE /\ work' = FALSE /\ irq' = FALSE /\ stopped' = TRUE
      BY <1>1, <1>4
    <3>. QED  BY <1>2, <1>3, <1>5, <3>1 DEF Flags
  <2>6. migrations' \in 0..MaxMigrations
    <3>1. migrations \in 0..MaxMigrations /\ migrations < MaxMigrations /\ MaxMigrations \in Nat
      BY <1>1, <1>3, BlkAssumption DEF Data
    <3>. QED  BY <1>2, <3>1
  <2>7. Data'
    BY <1>2, <1>3, <2>1, <2>3, <2>6 DEF Data
  <2>. QED  BY <2>4, <2>5, <2>7 DEF Types
<1>9. BiosOk(Driver)'
  <2>1. Counted'
    BY <1>2, <1>3 DEF Counted
  <2>. QED  BY <1>8, <2>1, CountedNext DEF Types, Data
<1>10. /\ Driver'.shadow = Driver.shadow /\ Driver'.rq = Driver.rq /\ Driver'.grants = grants'
       /\ Driver.shadow = shadow /\ Driver.grants = grants
  BY <1>2 DEF Driver
<1>11. Suspended'
  <2>1. NoneBusy' /\ NoGrants'
    BY <1>1, <1>5 DEF NoneBusy, NoGrants
  <2>2. Full(Driver)'
    BY <1>4, <1>10 DEF Full
  <2>3. Len(grants') <= RingSize * (MaxSegs + 1)
    BY <1>4, <1>6, <1>10 DEF CountOk
  <2>. QED  BY <1>2, <1>4, <2>1, <2>2, <2>3 DEF Suspended
<1>12. (Uniform => UniformInv)'
  <2>1. SUFFICES ASSUME Uniform PROVE UniformInv'
    OBVIOUS
  <2>2. UniformInv /\ UniformOk(Driver) /\ host' = host
    BY <1>2, <1>4, <2>1 DEF Inv
  <2>3. feature_persistent' = host'.persistent
    BY <1>1, <1>2, <2>2 DEF UniformInv
  <2>4. Len(grants') = RingSize * (host'.segs + 1)
    BY <1>6, <1>10, <2>2 DEF UniformOk
  <2>5. SegsOk(Driver)'
    BY <1>2, <1>10, <2>2 DEF UniformOk, SegsOk
  <2>6. PagesOk(Driver)'
    <3>1. PagesOk(Driver)
      BY <2>2 DEF UniformOk
    <3>2. feature_persistent => \A x \in AnyGrant : x.page = "bounce"
      <4>1. feature_persistent => \A i \in 1..Len(grants) : grants[i].page = "bounce"
        BY <1>10, <3>1 DEF PagesOk
      <4>2. feature_persistent =>
              \A id \in Ids : \A i \in 1..Len(shadow[id].used) : shadow[id].used[i].page = "bounce"
        BY <1>10, <3>1 DEF PagesOk, PageOf
      <4>. QED  BY <4>1, <4>2 DEF AnyGrant, Members
    <3>3. feature_persistent => \A i \in 1..Len(grants') : grants'[i].page = "bounce"
      BY <1>6, <3>2 DEF Members
    <3>. QED  BY <1>2, <1>10, <3>1, <3>3 DEF PagesOk, PageOf
  <2>7. Indirect' => indirect_pages' = RingSize
    BY <1>2, <1>13, <2>1, <2>2 DEF Indirect
  <2>. QED  BY <1>1, <1>5, <2>3, <2>4, <2>5, <2>6, <2>7 DEF UniformInv
<1>. QED  BY <1>1, <1>2, <1>7, <1>8, <1>9, <1>11, <1>12 DEF Inv

--------------------------------------------------------------------------------
(* A step of something else.                                               *)
LEMMA StutterKeeps == Inv /\ UNCHANGED vars => Inv'
<1>. SUFFICES ASSUME Inv, UNCHANGED vars PROVE Inv'
  OBVIOUS
<1>1. /\ UNCHANGED <<connected, state, gd, feature_persistent, max_segments, rq, stopped>>
      /\ UNCHANGED <<callback, work, shadow_free, shadow, ring, taken, answers, irq>>
      /\ UNCHANGED <<grants, persistent_gnts_c, granted, mapped, indirect_pages, pc, bio_list>>
      /\ UNCHANGED <<backend, host>>
      /\ UNCHANGED <<watch, migrations, shortages, size, pending, answered, bug>>
  BY DEF vars, devVars, features, queueVars, ringVars, grantVars, watchVars, envVars, bioVars
<1>2. UNCHANGED CoreVars /\ UNCHANGED <<connected, gd, max_segments, bug>>
  BY <1>1 DEF CoreVars
<1>3. Allowed
  BY <1>1 DEF Inv, Types, Phases, Fresh, Suspended, Connected, Allowed
<1>4. Types'
  <2>1. Driver' = Driver
    BY <1>2, CoreSame
  <2>2. Phases /\ Flags /\ Data
    BY DEF Inv, Types
  <2>3. Phases'
    BY <1>1, <2>2 DEF Phases
  <2>4. Flags'
    BY <1>1, <2>2 DEF Flags
  <2>5. Data'
    BY <1>1, <2>1, <2>2 DEF Data
  <2>. QED  BY <2>3, <2>4, <2>5 DEF Types
<1>. QED  BY <1>2, <1>3, <1>4, QuietKeeps

(* The invariant is inductive if the guest migrates once it is connected.  *)
LEMMA InvStep ==
  ASSUME Patient
  PROVE  Inv /\ [Next]_vars => Inv'
<1>. SUFFICES ASSUME Inv, [Next]_vars PROVE Inv'
  OBVIOUS
<1>1. ASSUME NEW b \in Bios, NEW n \in 1..MaxSegs, Submit(b, n) PROVE Inv'
  BY <1>1, SubmitKeeps
<1>2. CASE RunQueue
  BY <1>2, RunQueueKeeps
<1>3. CASE CallbackFires
  BY <1>3, CallbackFiresKeeps
<1>4. CASE RestartQueue
  BY <1>4, RestartQueueKeeps
<1>5. CASE Interrupt
  BY <1>5, InterruptKeeps
<1>6. CASE TalkToBlkback
  BY <1>6, TalkKeeps
<1>7. CASE Recover
  BY <1>7, RecoverKeeps
<1>8. CASE Reconnect
  BY <1>8, ReconnectKeeps
<1>9. CASE Resubmit
  BY <1>9, ResubmitKeeps
<1>10. CASE BlkbackChanged
  BY <1>10, WatchKeeps, FirstConnectKeeps
<1>11. CASE ResumeInPlace
  BY <1>11, ResumeInPlaceKeeps
<1>12. ASSUME NEW h \in Hosts, NEW b \in {"Initialising", "InitWait"}, Resume(h, b) PROVE Inv'
  BY <1>12, ResumeKeeps
<1>13. CASE BackendWaits
  BY <1>13, BackendWaitsKeeps
<1>14. CASE BackendConnects
  BY <1>14, BackendConnectsKeeps
<1>15. CASE BackendTakes
  BY <1>15, TakesKeeps
<1>16. ASSUME NEW id \in Ids, NEW keep \in BOOLEAN, BackendAnswers(id, keep) PROVE Inv'
  BY <1>16, AnswersKeeps
<1>17. CASE BackendLetsGo
  BY <1>17, LetsGoKeeps
<1>18. CASE UNCHANGED vars
  BY <1>18, StutterKeeps
<1>. QED  BY <1>1, <1>2, <1>3, <1>4, <1>5, <1>6, <1>7, <1>8, <1>9, <1>10, <1>11, <1>12, <1>13,
            <1>14, <1>15, <1>16, <1>17, <1>18
          DEF Next, BlockLayer, Restart, Xenwatch, Migration, Backend, Serves

--------------------------------------------------------------------------------
(* What the invariant says of the state.                                   *)

(* Of what is busy the ids are those in flight. *)
LEMMA BusyInFlight ==
  ASSUME shadow \in [Ids -> Shadows], Full(Driver)
  PROVE  Busy(Driver) = InFlight
<1>1. \A id \in InFlight : id \in Busy(Driver)
  <2>1. SUFFICES ASSUME NEW id \in InFlight PROVE id \in Busy(Driver)
    OBVIOUS
  <2>2. shadow[id].req \in Requests /\ id \in Ids
    BY InFlightTyped DEF InFlight
  <2>3. shadow[id].req # NoRequest
    <3>1. shadow[id].req.n # 0
      BY <2>2, Constants DEF Requests
    <3>. QED  BY <3>1 DEF NoRequest
  <2>. QED  BY <2>2, <2>3 DEF Busy, Driver
<1>2. Busy(Driver) \subseteq InFlight
  BY DEF Busy, InFlight, Idle, Driver
<1>. QED  BY <1>1, <1>2

(* Each request in flight has its grants, in every phase.                  *)
LEMMA InvFull == Inv => Full(Driver)
<1>. SUFFICES ASSUME Inv PROVE Full(Driver)
  OBVIOUS
<1>1. CASE connected = "disconnected"
  <2>1. \A id \in Ids : shadow[id] = Idle
    BY <1>1 DEF Inv, Fresh, AllIdle
  <2>2. \A id \in Ids : Len(shadow[id].used) = 0 /\ shadow[id].req.n = 0
    BY <2>1 DEF Idle, NoRequest
  <2>. QED  BY <2>2, Needs DEF Full, Driver
<1>2. CASE connected \in {"connected", "suspended"}
  BY <1>2 DEF Inv, Suspended, Connected, DriverOk
<1>. QED  BY <1>1, <1>2 DEF Inv, Types, Phases

(* What is counted of a bio is bounded by its size.                        *)
LEMMA BiosBounded ==
  ASSUME Inv, NEW b \in Bios
  PROVE  pending[b] \in 0..MaxSegs /\ answered[b] \in 0..MaxSegs
<1>1. Data /\ Fields /\ Counted
  BY DriverFields, BiosCounted DEF Inv, Types, Data
<1>2. rq \in Seq(Reqs) /\ bio_list \in Seq(Reqs) /\ Shadowed(shadow) \in Seq(Reqs)
  <2>1. rq \in Seq(Requests) /\ bio_list \in Seq(Requests) /\ shadow \in [Ids -> Shadows]
    BY <1>1 DEF Data, Fields
  <2>2. Shadowed(shadow) \in Seq(Reqs)
    BY <2>1, ShadowedTyped
  <2>. QED  BY <2>1, <2>2 DEF Reqs
<1>. DEFINE v == PieceW(b)  w == PageW(b)
<1>3. v \in [Reqs -> Nat] /\ w \in [Reqs -> Nat] /\ \A r \in Reqs : v[r] <= w[r]
  BY Weights
<1>4. /\ size[b] = answered[b] + (Weigh(rq, w) + Weigh(Shadowed(shadow), w) + Weigh(bio_list, w))
      /\ pending[b] = Weigh(rq, v) + Weigh(Shadowed(shadow), v) + Weigh(bio_list, v)
  BY <1>1 DEF Counted
<1>. HIDE DEF v, w
<1>5. /\ Weigh(rq, w) \in Nat /\ Weigh(Shadowed(shadow), w) \in Nat /\ Weigh(bio_list, w) \in Nat
      /\ Weigh(rq, v) \in Nat /\ Weigh(Shadowed(shadow), v) \in Nat /\ Weigh(bio_list, v) \in Nat
  BY <1>1, <1>3, WeighsTyped
<1>6. /\ Weigh(rq, v) <= Weigh(rq, w) /\ Weigh(bio_list, v) <= Weigh(bio_list, w)
      /\ Weigh(Shadowed(shadow), v) <= Weigh(Shadowed(shadow), w)
  BY <1>2, <1>3, WeighLeq
<1>7. size[b] \in 0..MaxSegs /\ answered[b] \in Nat /\ MaxSegs \in Nat
  BY <1>1, Constants DEF Data, Fields
<1>. QED  BY <1>4, <1>5, <1>6, <1>7

(* The types of all variables.                                             *)
LEMMA InvTypes == Inv => TypeOK
<1>. SUFFICES ASSUME Inv PROVE TypeOK
  OBVIOUS
<1>1. Phases /\ Flags /\ Data /\ Fields
  BY DriverFields DEF Inv, Types, Data
<1>2. \A id \in InFlight : shadow[id].req \in Requests /\ shadow[id].used \in Seq(Grants)
  BY <1>1, InvFull, InFlightTyped DEF Fields
<1>3. persistent_gnts_c \in 0..Cardinality(Refs)
  <2>. DEFINE m == RingSize * (MaxSegs + 1)
  <2>1. m \in Nat
    BY Constants
  <2>2. Cardinality(Refs) = m
    <3>1. Refs = 1..m
      BY DEF Refs
    <3>. HIDE DEF m
    <3>2. Cardinality(1..m) = IF 1 > m THEN 0 ELSE m - 1 + 1
      BY <2>1, FS_Interval
    <3>. QED  BY <2>1, <3>1, <3>2
  <2>3. CASE connected = "connected"
    <3>1. CountOk(Driver) /\ shadow \in [Ids -> Shadows] /\ grants \in Seq(Grants)
      BY <1>1, <2>3 DEF Inv, Connected, DriverOk, Steady, GrantsOk, Fields
    <3>2. persistent_gnts_c \in 0..Len(grants) /\ Len(grants) + UsedTotal(shadow) <= m
      BY <3>1 DEF CountOk, Driver
    <3>3. UsedTotal(shadow) \in Nat /\ Len(grants) \in Nat
      <4>1. Len(grants) \in Nat
        BY <3>1
      <4>2. UsedTotal(shadow) \in Nat
        <5>. DEFINE sh == shadow
        <5>1. sh \in [Ids -> Shadows]
          BY <3>1
        <5>. HIDE DEF sh
        <5>2. UsedTotal(sh) \in Nat
          BY <5>1, UsedTyped
        <5>. QED  BY <5>2 DEF sh
      <4>. QED  BY <4>1, <4>2
    <3>. HIDE DEF m
    <3>. QED  BY <2>1, <2>2, <3>2, <3>3
  <2>4. CASE connected # "connected"
    <3>1. persistent_gnts_c = 0
      BY <2>4 DEF Inv, Types, Phases, Fresh, Suspended, NoGrants
    <3>. HIDE DEF m
    <3>. QED  BY <2>1, <2>2, <3>1
  <2>. QED  BY <2>3, <2>4
<1>4. pending \in [Bios -> 0..MaxSegs] /\ answered \in [Bios -> 0..MaxSegs]
  <2>1. pending \in [Bios -> Int] /\ answered \in [Bios -> Nat]
    BY <1>1 DEF Fields
  <2>2. \A b \in Bios : pending[b] \in 0..MaxSegs /\ answered[b] \in 0..MaxSegs
    BY BiosBounded
  <2>. QED  BY <2>1, <2>2
<1>5. /\ connected \in {"disconnected", "connected", "suspended"}
      /\ state \in {"Initialising", "Initialised", "Connected"}
      /\ pc \in {"idle", "talk", "recover", "reconnect", "resubmit"}
      /\ backend \in {"Initialising", "InitWait", "Connected"}
  BY <1>1 DEF Phases
<1>6. feature_persistent \in BOOLEAN
      /\ {gd, stopped, callback, work, irq, watch, bug} \subseteq BOOLEAN
  BY <1>1 DEF Flags
<1>7. /\ max_segments \in Segs /\ bio_list \in Seq(Requests) /\ taken \subseteq Ids
      /\ mapped \subseteq Refs /\ host \in Hosts /\ migrations \in 0..MaxMigrations
      /\ shortages \in 0..MaxShortages /\ size \in [Bios -> 0..MaxSegs]
  BY <1>1 DEF Data
<1>8. /\ rq \in Seq(Requests) /\ shadow_free \in Seq(Ids) /\ ring \in Seq(Ids)
      /\ answers \in Seq(Ids) /\ grants \in Seq(Grants) /\ granted \subseteq Refs
      /\ indirect_pages \in Nat
  BY <1>1 DEF Fields
<1>. QED  BY <1>2, <1>3, <1>4, <1>5, <1>6, <1>7, <1>8 DEF TypeOK

(* Bios and ids.                                                           *)
LEMMA InvRequests == Inv => RequestsConserved
<1>. SUFFICES ASSUME Inv PROVE RequestsConserved
  OBVIOUS
<1>1. NothingLost
  BY DEF Inv, BiosOk, Driver, NothingLost
<1>2. ASSUME connected = "connected"
      PROVE  /\ Len(shadow_free) + Cardinality(InFlight) = RingSize
             /\ Members(shadow_free) \cap InFlight = {}
             /\ Len(ring) + Cardinality(taken) + Len(answers) = Cardinality(InFlight)
             /\ Members(ring) \cup taken \cup Members(answers) = InFlight
  <2>1. Fields /\ IdsOk(Driver) /\ Driver \in Drivers
    BY <1>2, DriverFields DEF Inv, Types, Data, Connected, DriverOk, Steady
  <2>2. Busy(Driver) = InFlight
    BY <2>1, InvFull, BusyInFlight DEF Fields
  <2>3. /\ Driver.free = shadow_free /\ Driver.ring = ring /\ Driver.answers = answers
    BY DEF Driver
  <2>4. /\ Len(Driver.free) + Cardinality(Busy(Driver)) = RingSize
        /\ Len(Driver.ring) + Cardinality(taken) + Len(Driver.answers)
             = Cardinality(Busy(Driver))
    BY <2>1, IdsCount
  <2>5. /\ Members(shadow_free) = Ids \ Busy(Driver)
        /\ Members(ring) \cup taken \cup Members(answers) = Busy(Driver)
    BY <2>1, <2>3 DEF IdsOk
  <2>. QED  BY <2>2, <2>3, <2>4, <2>5
<1>3. IdsBalanced
  BY <1>2 DEF IdsBalanced, Members
<1>. QED  BY <1>1, <1>3 DEF RequestsConserved

(* Grants.                                                                 *)
LEMMA InvGrants == Inv => GrantsAccounted
<1>. SUFFICES ASSUME Inv PROVE GrantsAccounted
  OBVIOUS
<1>1. CASE connected = "connected"
  <2>1. HeldOnce(Driver) /\ CountOk(Driver) /\ mapped \subseteq Driver.granted
    BY <1>1 DEF Inv, Connected, DriverOk, Steady, GrantsOk
  <2>2. Driver.granted = granted /\ Driver.grants = grants /\ Driver.shadow = shadow
        /\ Driver.count = persistent_gnts_c
    BY DEF Driver
  <2>. QED  BY <2>1, <2>2 DEF GrantsAccounted, HeldOnce, CountOk
<1>2. CASE connected # "connected"
  <2>1. mapped = {}
    BY <1>2 DEF Inv, Types, Phases, Fresh, Suspended, NoGrants
  <2>. QED  BY <1>2, <2>1 DEF GrantsAccounted
<1>. QED  BY <1>1, <1>2

(* Pages, BUG_ONs and the stopped queue, between hosts of the same offer.  *)
LEMMA InvUniform ==
  ASSUME Uniform
  PROVE  Inv => OwnPages /\ (MemoryLasts => NoBug) /\ QueueNotStuck
<1>. SUFFICES ASSUME Inv PROVE OwnPages /\ (MemoryLasts => NoBug) /\ QueueNotStuck
  OBVIOUS
<1>1. UniformInv
  BY DEF Inv
<1>2. OwnPages
  <2>1. CASE connected = "disconnected"
    <3>1. InFlight = {}
      BY <2>1 DEF Inv, Fresh, AllIdle, InFlight
    <3>. QED  BY <3>1 DEF OwnPages
  <2>2. CASE connected # "disconnected"
    <3>1. PagesOk(Driver) /\ Driver.shadow = shadow
      BY <1>1, <2>2 DEF UniformInv, Driver
    <3>2. ASSUME NEW id \in InFlight, NEW i \in 1..Len(shadow[id].used)
          PROVE  shadow[id].used[i].page =
                   IF feature_persistent THEN "bounce"
                   ELSE IF i > shadow[id].req.n THEN "frame" ELSE shadow[id].req.bio
      <4>. DEFINE n == shadow[id].req.n  k == Len(shadow[id].used)
      <4>1. shadow[id].used[i].page = PageOf(shadow[id].req, i, k)
        BY <3>1, <3>2 DEF PagesOk, InFlight
      <4>2. shadow \in [Ids -> Shadows] /\ Full(Driver)
        BY InvFull, DriverFields DEF Inv, Types, Data, Fields
      <4>3. n \in Nat
        BY <4>2, InFlightTyped, Constants DEF Requests
      <4>4. k = Need(n)
        BY <3>1, <4>2 DEF Full, InFlight
      <4>5. i \in 1..Need(n)
        BY <4>4
      <4>. HIDE DEF n, k
      <4>6. i > n <=> n > Direct /\ i = k
        <5>1. Direct \in Nat
          BY BlkAssumption
        <5>. QED  BY <4>3, <4>4, <4>5, <5>1 DEF Need, Frames
      <4>. QED  BY <4>1, <4>6 DEF PageOf, n
    <3>. QED  BY <3>2 DEF OwnPages
  <2>. QED  BY <2>1, <2>2
<1>3. MemoryLasts => NoBug
  BY <1>1, InvTypes DEF NoBug, UniformInv
<1>4. QueueNotStuck
  BY <1>1 DEF UniformInv, QueueNotStuck
<1>. QED  BY <1>2, <1>3, <1>4

(* Every variable has its type, through all migrations.                    *)
THEOREM BlkFrontTypes ==
  ASSUME Patient
  PROVE  Spec => []TypeOK
<1>1. Init => Inv
  BY InvInit
<1>2. Inv /\ [Next]_vars => Inv'
  BY InvStep
<1>3. Inv => TypeOK
  BY InvTypes
<1>. QED  BY <1>1, <1>2, <1>3, PTL DEF Spec

(* No page of a bio is lost or answered twice, whatever is migrated, split *)
(* or delayed (blkif_recover), and the ids are free or in flight.          *)
THEOREM RequestsAreConserved ==
  ASSUME Patient
  PROVE  Spec => []RequestsConserved
<1>1. Init => Inv
  BY InvInit
<1>2. Inv /\ [Next]_vars => Inv'
  BY InvStep
<1>3. Inv => RequestsConserved
  BY InvRequests
<1>. QED  BY <1>1, <1>2, <1>3, PTL DEF Spec

(* Each grant reference is held once, those the back end may keep are      *)
(* counted and come first in the list (get_grant, blkif_completion).       *)
THEOREM GrantsAreAccounted ==
  ASSUME Patient
  PROVE  Spec => []GrantsAccounted
<1>1. Init => Inv
  BY InvInit
<1>2. Inv /\ [Next]_vars => Inv'
  BY InvStep
<1>3. Inv => GrantsAccounted
  BY InvGrants
<1>. QED  BY <1>1, <1>2, <1>3, PTL DEF Spec

(* Between hosts that offer the same, a request hands the back end its own *)
(* pages, or the copies (blkif_queue_request after blkif_recover).         *)
THEOREM PagesAreOwn ==
  ASSUME Patient, Uniform
  PROVE  Spec => []OwnPages
<1>1. Init => Inv
  BY InvInit
<1>2. Inv /\ [Next]_vars => Inv'
  BY InvStep
<1>3. Inv => OwnPages
  BY InvUniform
<1>. QED  BY <1>1, <1>2, <1>3, PTL DEF Spec

(* Between such hosts no request is short of an id, a grant, a reference   *)
(* or a page for its frame, and none is over the limit of the moment: no   *)
(* BUG_ON of the paths modelled is reached, if blkif_recover has memory.   *)
THEOREM NoBugReached ==
  ASSUME Patient, Uniform, MemoryLasts
  PROVE  Spec => []NoBug
<1>1. Init => Inv
  BY InvInit
<1>2. Inv /\ [Next]_vars => Inv'
  BY InvStep
<1>3. Inv => NoBug
  BY InvUniform
<1>. QED  BY <1>1, <1>2, <1>3, PTL DEF Spec

(* Nor is the queue left stopped with nothing under way to start it        *)
(* (do_blkif_request, kick_pending_request_queues).                        *)
THEOREM QueueIsRestarted ==
  ASSUME Patient, Uniform
  PROVE  Spec => []QueueNotStuck
<1>1. Init => Inv
  BY InvInit
<1>2. Inv /\ [Next]_vars => Inv'
  BY InvStep
<1>3. Inv => QueueNotStuck
  BY InvUniform
<1>. QED  BY <1>1, <1>2, <1>3, PTL DEF Spec

================================================================================
