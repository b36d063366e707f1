----------------------------- MODULE GrantListProofs ---------------------------
(***************************************************************************)
(* The linked lists of GrantList end, and implement the sets of GrantPool, *)
(* for any clients, any number and size of frames and any requests.        *)
(*                                                                         *)
(* ListFrom is a recursion over links.  The proofs go by sequences: a list *)
(* is the sequence of its references, and what an operation does to        *)
(* gnttab_list puts references before a sequence, takes them off its front *)
(* or joins two.                                                           *)
(***************************************************************************)
EXTENDS GrantList, SequencesExt, FiniteSetTheorems, SequenceTheorems, TLAPS

--------------------------------------------------------------------------------
(* A list and the sequence of its references. *)

(* The i-th reference of a sequence, or the end of the list. *)
At(s, i) == IF i \in 1..Len(s) THEN s[i] ELSE ListEnd

Once(s) == \A i, j \in 1..Len(s) : s[i] = s[j] => i = j

(* s is the list that starts at head.                                       *)
Chain(list, head, s) ==
    /\ s \in Seq(RefNumbers) /\ Once(s)
    /\ head = At(s, 1)
    /\ \A i \in 1..Len(s) : list[s[i]] = At(s, i + 1)

LEMMA ListEndApart == ListEnd \notin RefNumbers
  BY DEF ListEnd, RefNumbers

(* Induction over numbers without an operator for a parameter.             *)

(* A set of naturals has a least element: as k grows, 0..k does.           *)
LEMMA LeastElement ==
  ASSUME NEW T, T \subseteq Nat, T # {}
  PROVE  \E x \in T : \A y \in T : x <= y
<1>. DEFINE R == StrictSubsetOrdering(Nat)
            S == FiniteSubsetsOf(Nat)
            U == {0..k : k \in T}
<1>1. IsWellFoundedOn(R, S)
  BY FS_StrictSubsetOrderingWellFounded
<1>2. U \subseteq S /\ U # {}
  <2>1. \A k \in T : IsFiniteSet(0..k) /\ 0..k \in SUBSET Nat
    BY FS_Interval
  <2>. QED  BY <2>1 DEF FiniteSubsetsOf
<1>3. \E u \in U : \A v \in U : ~ (<<v, u>> \in R)
  <2>. HIDE DEF R, S, U
  <2>. QED  BY <1>1, <1>2, WFMin
<1>4. PICK x \in T : \A y \in T : ~ (<<0..y, 0..x>> \in R)
  BY <1>3
<1>5. ASSUME NEW y \in T, y < x PROVE FALSE
  <2>1. 0..y \subseteq 0..x /\ x \in 0..x /\ x \notin 0..y
    BY <1>5
  <2>2. 0..y \in SUBSET Nat /\ 0..x \in SUBSET Nat /\ 0..y # 0..x
    BY <2>1
  <2>3. <<0..y, 0..x>> \in R
    BY <2>1, <2>2 DEF StrictSubsetOrdering
  <2>. QED  BY <2>3, <1>4
<1>. QED  BY <1>5

(* Induction up to m, on the set of numbers it has been shown for.         *)
LEMMA UpTo ==
  ASSUME NEW m \in Nat, NEW T, 0 \in T, \A n \in 1..m : n - 1 \in T => n \in T
  PROVE  \A n \in 0..m : n \in T
<1>. DEFINE Rest == (0..m) \ T
<1>1. SUFFICES ASSUME Rest # {} PROVE FALSE
  OBVIOUS
<1>2. Rest \subseteq Nat
  OBVIOUS
<1>3. \E x \in Rest : \A y \in Rest : x <= y
  <2>. HIDE DEF Rest
  <2>. QED  BY <1>1, <1>2, LeastElement
<1>4. PICK x \in Rest : \A y \in Rest : x <= y
  BY <1>3
<1>5. x \in 1..m /\ x - 1 \in 0..m /\ ~(x <= x - 1)
  OBVIOUS
<1>6. x - 1 \in T
  BY <1>4, <1>5
<1>. QED  BY <1>5, <1>6

(* Following k links from the head leads to the reference after the k-th.  *)
LEMMA NodeAt ==
  ASSUME NEW list, NEW head, NEW s, Chain(list, head, s), NEW k \in Nat
  PROVE  Node(list, head, k) = At(s, k + 1)
<1>. DEFINE Step(g, i) == IF g[i - 1] = ListEnd THEN ListEnd ELSE list[g[i - 1]]
            Rec(g) == g = [i \in 0..k |-> IF i = 0 THEN head ELSE Step(g, i)]
            f == CHOOSE g : Rec(g)
            h == [i \in 0..k |-> At(s, i + 1)]
<1>1. s \in Seq(RefNumbers) /\ Len(s) \in Nat /\ \A i \in 1..Len(s) : s[i] # ListEnd
  BY ListEndApart, ElementOfSeq DEF Chain
<1>2. \A n \in Nat : At(s, n + 2) = IF At(s, n + 1) = ListEnd THEN ListEnd ELSE list[At(s, n + 1)]
  BY <1>1 DEF Chain, At
<1>3. Rec(h)
  <2>1. ASSUME NEW i \in 0..k
        PROVE  h[i] = IF i = 0 THEN head ELSE Step(h, i)
    <3>1. CASE i = 0
      BY <3>1 DEF Chain
    <3>2. CASE i # 0
      <4>1. i - 1 \in Nat /\ i - 1 \in 0..k /\ (i - 1) + 2 = i + 1 /\ (i - 1) + 1 = i
        BY <3>2
      <4>2. h[i] = At(s, i + 1) /\ h[i - 1] = At(s, i)
        BY <4>1
      <4>. QED  BY <3>2, <4>1, <4>2, <1>2
    <3>. QED  BY <3>1, <3>2
  <2>. HIDE DEF Step
  <2>. QED  BY <2>1
<1>4. Rec(f)
  <2>. HIDE DEF Rec, h
  <2>. QED  BY <1>3
<1>5. Node(list, head, k) = f[k]
  BY DEF Node
<1>. HIDE DEF f
<1>6. f[0] = head /\ \A i \in 1..k : f[i] = Step(f, i)
  <2>1. 0 \in 0..k /\ \A i \in 1..k : i \in 0..k /\ i # 0
    OBVIOUS
  <2>. HIDE DEF Step
  <2>. QED  BY <1>4, <2>1
<1>7. \A n \in 0..k : n \in {i \in 0..k : f[i] = At(s, i + 1)}
  <2>. DEFINE T == {i \in 0..k : f[i] = At(s, i + 1)}
  <2>1. 0 \in T
    BY <1>6 DEF Chain
  <2>2. ASSUME NEW n \in 1..k, n - 1 \in T PROVE n \in T
    <3>1. n - 1 \in Nat /\ (n - 1) + 2 = n + 1 /\ (n - 1) + 1 = n /\ n \in 0..k
      OBVIOUS
    <3>2. f[n - 1] = At(s, n) /\ f[n] = Step(f, n)
      BY <1>6, <2>2, <3>1
    <3>. QED  BY <3>1, <3>2, <1>2
  <2>3. \A n \in 0..k : n \in T
    <3>. HIDE DEF T
    <3>. QED  BY <2>1, <2>2, UpTo
  <2>. QED  BY <2>3
<1>. QED  BY <1>5, <1>7


(* The references of a list, as ListFrom computes them: those of the       *)
(* sequence, as many as it is long.                                        *)
ListIn(list, head) == {Node(list, head, k) : k \in 0..Cardinality(RefNumbers)} \ {ListEnd}

LEMMA RefNumbersFinite == IsFiniteSet(RefNumbers) /\ Cardinality(RefNumbers) \in Nat
<1>1. MaxFrames * FrameEntries \in Nat
  BY ListAssumption
<1>2. 0 \in Int /\ MaxFrames * FrameEntries - 1 \in Int
  BY <1>1
<1>3. IsFiniteSet(0..MaxFrames * FrameEntries - 1)
  BY <1>2, FS_Interval
<1>. QED  BY <1>3, FS_CardinalityType DEF RefNumbers

LEMMA OnceCounts ==
  ASSUME NEW s \in Seq(RefNumbers), Once(s)
  PROVE  /\ IsFiniteSet(ToSet(s)) /\ Cardinality(ToSet(s)) = Len(s)
         /\ Len(s) \in 0..Cardinality(RefNumbers)
<1>1. Len(s) \in Nat /\ s \in [1..Len(s) -> RefNumbers] /\ DOMAIN s = 1..Len(s)
  BY LenProperties
<1>2. s \in Bijection(1..Len(s), ToSet(s))
  BY <1>1 DEF Bijection, Injection, Surjection, IsInjective, Once, ToSet
<1>3. IsFiniteSet(1..Len(s)) /\ Cardinality(1..Len(s)) = Len(s)
  <2>1. 1 \in Int /\ Len(s) \in Int
    BY <1>1
  <2>2. IsFiniteSet(1..Len(s))
        /\ Cardinality(1..Len(s)) = IF 1 > Len(s) THEN 0 ELSE Len(s) - 1 + 1
    BY Zenon, <2>1, FS_Interval
  <2>. QED  BY <1>1, <2>2
<1>4. IsFiniteSet(ToSet(s)) /\ Cardinality(ToSet(s)) = Len(s)
  BY <1>2, <1>3, FS_Bijection DEF ExistsBijection
<1>5. ToSet(s) \subseteq RefNumbers
  BY <1>1 DEF ToSet
<1>. QED  BY <1>1, <1>4, <1>5, RefNumbersFinite, FS_Subset

LEMMA ListInChain ==
  ASSUME NEW list, NEW head, NEW s, Chain(list, head, s)
  PROVE  /\ ListIn(list, head) = ToSet(s)
         /\ Cardinality(ListIn(list, head)) = Len(s)
         /\ Node(list, head, Len(s)) = ListEnd
<1>1. /\ s \in Seq(RefNumbers) /\ Len(s) \in 0..Cardinality(RefNumbers)
      /\ Cardinality(ToSet(s)) = Len(s) /\ DOMAIN s = 1..Len(s)
  BY OnceCounts, LenProperties DEF Chain
<1>2. Cardinality(RefNumbers) \in Nat /\ Len(s) \in Nat
  BY <1>1, RefNumbersFinite
<1>3. \A k \in 0..Cardinality(RefNumbers) : Node(list, head, k) = At(s, k + 1)
  BY <1>2, NodeAt
<1>4. \A k \in 1..Len(s) : s[k] # ListEnd
  BY <1>1, ElementOfSeq, ListEndApart
<1>5. ASSUME NEW x PROVE x \in ListIn(list, head) <=> x \in ToSet(s)
  <2>1. x \in ListIn(list, head) <=>
          x # ListEnd /\ \E k \in 0..Cardinality(RefNumbers) : x = At(s, k + 1)
    BY <1>3 DEF ListIn
  <2>2. x \in ToSet(s) <=> \E i \in 1..Len(s) : x = s[i]
    BY Zenon, <1>1 DEF ToSet
  <2>3. ASSUME NEW k \in 0..Cardinality(RefNumbers), x # ListEnd, x = At(s, k + 1)
        PROVE  k + 1 \in 1..Len(s) /\ x = s[k + 1]
    BY <2>3 DEF At
  <2>4. ASSUME NEW i \in 1..Len(s), x = s[i]
        PROVE  x # ListEnd /\ i - 1 \in 0..Cardinality(RefNumbers) /\ x = At(s, (i - 1) + 1)
    BY <2>4, <1>1, <1>2, <1>4 DEF At
  <2>. QED  BY <2>1, <2>2, <2>3, <2>4
<1>6. ListIn(list, head) = ToSet(s)
  BY <1>5
<1>7. Node(list, head, Len(s)) = At(s, Len(s) + 1) /\ Len(s) + 1 \notin 1..Len(s)
  BY <1>2, NodeAt
<1>. QED  BY <1>1, <1>6, <1>7 DEF At

--------------------------------------------------------------------------------
(* What the operations do to a chain. *)

(* A link that is not on the list may change. *)
LEMMA ChainElsewhere ==
  ASSUME NEW list, NEW list2, NEW head, NEW s, Chain(list, head, s),
         \A r \in ToSet(s) : list2[r] = list[r]
  PROVE  Chain(list2, head, s)
<1>1. \A i \in 1..Len(s) : s[i] \in ToSet(s)
  BY LenProperties DEF Chain, ToSet
<1>. QED  BY <1>1 DEF Chain

(* A reference is put before the list: put_free_entry and                  *)
(* gnttab_release_grant_reference.                                         *)
IsPush(list, head, s, r, t) ==
    /\ Chain([list EXCEPT ![r] = head], r, t)
    /\ ToSet(t) = ToSet(s) \cup {r} /\ Len(t) = Len(s) + 1

LEMMA ChainPush ==
  ASSUME NEW list \in [RefNumbers -> RefNumbers \cup {ListEnd}], NEW head, NEW s,
         Chain(list, head, s), NEW r \in RefNumbers, r \notin ToSet(s)
  PROVE  IsPush(list, head, s, r, <<r>> \o s)
<1>. DEFINE t == <<r>> \o s
            list2 == [list EXCEPT ![r] = head]
<1>1. s \in Seq(RefNumbers) /\ Len(s) \in Nat /\ <<r>> \in Seq(RefNumbers) /\ Len(<<r>>) = 1
      /\ DOMAIN s = 1..Len(s) /\ head = At(s, 1)
  BY LenProperties DEF Chain
<1>2. /\ t \in Seq(RefNumbers) /\ Len(t) = Len(s) + 1 /\ DOMAIN t = 1..Len(s) + 1
      /\ \A i \in 1..Len(s) + 1 : t[i] = IF i = 1 THEN r ELSE s[i - 1]
  BY <1>1, ConcatProperties, LenProperties
<1>3. \A i \in 1..Len(s) : s[i] \in RefNumbers /\ s[i] # r
  BY <1>1, ElementOfSeq DEF ToSet
<1>4. \A x \in RefNumbers : list2[x] = IF x = r THEN head ELSE list[x]
  OBVIOUS
<1>. HIDE DEF t, list2
<1>5. Once(t)
  <2>1. ASSUME NEW i \in 1..Len(t), NEW j \in 1..Len(t), t[i] = t[j] PROVE i = j
    <3>1. i = 1 \/ i - 1 \in 1..Len(s)
      BY <1>1, <1>2
    <3>2. j = 1 \/ j - 1 \in 1..Len(s)
      BY <1>1, <1>2
    <3>3. ASSUME i # 1, j # 1 PROVE i - 1 = j - 1
      <4>1. t[i] = s[i - 1] /\ t[j] = s[j - 1]
        BY <3>3, <1>2
      <4>2. i - 1 \in 1..Len(s) /\ j - 1 \in 1..Len(s) /\ s[i - 1] = s[j - 1]
        BY <2>1, <3>1, <3>2, <3>3, <4>1
      <4>3. Once(s)
        BY DEF Chain
      <4>. QED  BY <4>2, <4>3 DEF Once
    <3>. QED  BY <2>1, <3>1, <3>2, <3>3, <1>2, <1>3
  <2>. QED  BY <2>1 DEF Once
<1>6. ASSUME NEW i \in 1..Len(t) PROVE list2[t[i]] = At(t, i + 1)
  <2>1. CASE i = 1
    BY <2>1, <1>1, <1>2, <1>4 DEF At
  <2>2. CASE i # 1
    <3>1. i - 1 \in 1..Len(s) /\ (i - 1) + 1 = i /\ (i + 1) - 1 = i
      BY <2>2, <1>1, <1>2
    <3>2. t[i] = s[i - 1] /\ list2[t[i]] = list[s[i - 1]]
      BY <3>1, <2>2, <1>2, <1>3, <1>4
    <3>3. list[s[i - 1]] = At(s, i)
      BY <3>1 DEF Chain
    <3>. QED  BY <2>2, <3>1, <3>2, <3>3, <1>1, <1>2 DEF At
  <2>. QED  BY <2>1, <2>2
<1>7. r = At(t, 1)
  BY <1>1, <1>2 DEF At
<1>8. ToSet(t) = ToSet(s) \cup {r}
  <2>1. \A i \in 1..Len(t) : i = 1 \/ i - 1 \in 1..Len(s)
    BY <1>1, <1>2
  <2>2. \A i \in 1..Len(s) : i + 1 \in 1..Len(t) /\ i + 1 # 1 /\ (i + 1) - 1 = i
    BY <1>1, <1>2
  <2>3. \A i \in 1..Len(s) : s[i] = t[i + 1]
    BY <2>2, <1>2
  <2>4. r = t[1] /\ 1 \in 1..Len(t)
    BY <1>1, <1>2
  <2>5. \A i \in 1..Len(t) : t[i] \in ToSet(s) \cup {r}
    BY <2>1, <1>1, <1>2 DEF ToSet
  <2>6. ToSet(s) \cup {r} \subseteq {t[i] : i \in 1..Len(t)}
    BY <2>2, <2>3, <2>4, <1>1 DEF ToSet
  <2>7. ToSet(t) = {t[i] : i \in 1..Len(t)}
    BY <1>2 DEF ToSet
  <2>. QED  BY <2>5, <2>6, <2>7
<1>. QED  BY <1>2, <1>5, <1>6, <1>7, <1>8 DEF Chain, IsPush, t, list2


(* The first reference is taken off: gnttab_claim_grant_reference.          *)
LEMMA ChainPop ==
  ASSUME NEW list, NEW head, NEW s, Chain(list, head, s), head # ListEnd
  PROVE  /\ Chain(list, list[head], Tail(s))
         /\ head \in ToSet(s) /\ ToSet(Tail(s)) = ToSet(s) \ {head}
         /\ Len(s) \in Nat \ {0} /\ Len(Tail(s)) = Len(s) - 1
<1>. DEFINE t == Tail(s)
<1>1. /\ s \in Seq(RefNumbers) /\ Len(s) \in Nat \ {0} /\ s # <<>> /\ 1 \in 1..Len(s)
      /\ head = s[1] /\ DOMAIN s = 1..Len(s)
  BY EmptySeq, LenProperties DEF Chain, At
<1>2. /\ t \in Seq(RefNumbers) /\ Len(t) = Len(s) - 1 /\ DOMAIN t = 1..Len(t)
      /\ \A i \in 1..Len(t) : t[i] = s[i + 1] /\ i + 1 \in 1..Len(s)
  BY <1>1, HeadTailProperties, LenProperties
<1>. HIDE DEF t
<1>3. Once(t)
  BY <1>1, <1>2 DEF Chain, Once
<1>4. \A i \in 0..Len(t) : list[s[i + 1]] = At(t, i + 1)
  <2>1. ASSUME NEW i \in 0..Len(t) PROVE list[s[i + 1]] = At(t, i + 1)
    <3>1. i + 1 \in 1..Len(s) /\ (i + 1) + 1 = i + 2
      BY <1>1, <1>2
    <3>2. list[s[i + 1]] = At(s, i + 2)
      BY <3>1 DEF Chain
    <3>3. i + 1 \in 1..Len(t) <=> i + 2 \in 1..Len(s)
      BY <1>1, <1>2
    <3>. QED  BY <3>1, <3>2, <3>3, <1>2 DEF At
  <2>. QED  BY <2>1
<1>5. Chain(list, list[head], t)
  <2>1. 0 \in 0..Len(t) /\ \A i \in 1..Len(t) : i \in 0..Len(t)
    BY <1>1, <1>2
  <2>2. list[s[0 + 1]] = At(t, 0 + 1) /\ \A i \in 1..Len(t) : list[t[i]] = At(t, i + 1)
    BY <2>1, <1>2, <1>4
  <2>. QED  BY <2>2, <1>1, <1>2, <1>3 DEF Chain
<1>6. ToSet(t) = ToSet(s) \ {head}
  <2>1. \A i \in 1..Len(t) : s[i + 1] # s[1]
    BY <1>1, <1>2 DEF Chain, Once
  <2>2. \A i \in 1..Len(t) : t[i] \in ToSet(s) \ {head}
    BY <2>1, <1>1, <1>2 DEF ToSet
  <2>3. ASSUME NEW i \in 1..Len(s), s[i] # head PROVE s[i] \in ToSet(t)
    <3>1. i - 1 \in 1..Len(t) /\ (i - 1) + 1 = i
      BY <2>3, <1>1, <1>2
    <3>. QED  BY <3>1, <1>2 DEF ToSet
  <2>4. ToSet(t) = {t[i] : i \in 1..Len(t)} /\ ToSet(s) = {s[i] : i \in 1..Len(s)}
    BY <1>1, <1>2 DEF ToSet
  <2>. QED  BY <2>2, <2>3, <2>4
<1>. QED  BY <1>1, <1>2, <1>5, <1>6 DEF t, ToSet

(* The references of two sequences put together.                            *)
LEMMA ConcatSets ==
  ASSUME NEW S, NEW s \in Seq(S), NEW t \in Seq(S)
  PROVE  ToSet(s \o t) = ToSet(s) \cup ToSet(t)
<1>. DEFINE u == s \o t
<1>1. Len(s) \in Nat /\ Len(t) \in Nat /\ DOMAIN s = 1..Len(s) /\ DOMAIN t = 1..Len(t)
  BY LenProperties
<1>2. /\ DOMAIN u = 1..Len(s) + Len(t)
      /\ \A i \in 1..Len(s) + Len(t) : u[i] = IF i <= Len(s) THEN s[i] ELSE t[i - Len(s)]
  BY <1>1, ConcatProperties, LenProperties
<1>. HIDE DEF u
<1>3. \A i \in 1..Len(s) : i \in 1..Len(s) + Len(t) /\ u[i] = s[i]
  BY <1>1, <1>2
<1>4. \A i \in 1..Len(t) : i + Len(s) \in 1..Len(s) + Len(t) /\ u[i + Len(s)] = t[i]
  BY <1>1, <1>2
<1>5. \A i \in 1..Len(s) + Len(t) :
         \/ i \in 1..Len(s) /\ u[i] = s[i]
         \/ i - Len(s) \in 1..Len(t) /\ u[i] = t[i - Len(s)]
  BY <1>1, <1>2
<1>6. ToSet(u) \subseteq ToSet(s) \cup ToSet(t)
  <2>1. \A i \in 1..Len(s) + Len(t) : u[i] \in ToSet(s) \cup ToSet(t)
    BY <1>1, <1>5 DEF ToSet
  <2>. QED  BY <2>1, <1>2 DEF ToSet
<1>7. ToSet(s) \subseteq ToSet(u)
  BY <1>1, <1>2, <1>3 DEF ToSet
<1>8. ToSet(t) \subseteq ToSet(u)
  BY <1>1, <1>2, <1>4 DEF ToSet
<1>. QED  BY <1>6, <1>7, <1>8 DEF u

(* Two lists are joined at the last reference of the first:                *)
(* gnttab_free_grant_references, and grow_gnttab_list.                     *)
IsJoin(list, h, s, h2, s2, t) ==
    /\ s[Len(s)] \in ToSet(s)
    /\ Chain([list EXCEPT ![s[Len(s)]] = h2], h, t)
    /\ ToSet(t) = ToSet(s) \cup ToSet(s2)
    /\ Len(t) = Len(s) + Len(s2) /\ Len(s) \in Nat \ {0} /\ Len(s2) \in Nat

LEMMA ChainJoin ==
  ASSUME NEW list \in [RefNumbers -> RefNumbers \cup {ListEnd}], NEW h, NEW s, NEW h2, NEW s2,
         Chain(list, h, s), Chain(list, h2, s2), ToSet(s) \cap ToSet(s2) = {}, s # <<>>
  PROVE  IsJoin(list, h, s, h2, s2, s \o s2)
<1>. DEFINE t == s \o s2
            n == Len(s)
            list2 == [list EXCEPT ![s[n]] = h2]
<1>1. /\ s \in Seq(RefNumbers) /\ s2 \in Seq(RefNumbers) /\ n \in Nat \ {0} /\ Len(s2) \in Nat
      /\ DOMAIN s = 1..n /\ DOMAIN s2 = 1..Len(s2) /\ h = s[1] /\ h2 = At(s2, 1)
  BY EmptySeq, LenProperties DEF Chain, At
<1>2. /\ t \in Seq(RefNumbers) /\ Len(t) = n + Len(s2) /\ DOMAIN t = 1..n + Len(s2)
      /\ \A i \in 1..n + Len(s2) : t[i] = IF i <= n THEN s[i] ELSE s2[i - n]
  BY <1>1, ConcatProperties, LenProperties
<1>3. /\ \A i \in 1..n : s[i] \in RefNumbers /\ s[i] \in ToSet(s)
      /\ \A i \in 1..Len(s2) : s2[i] \in RefNumbers /\ s2[i] \in ToSet(s2)
  BY <1>1, ElementOfSeq DEF ToSet
<1>4. n \in 1..n /\ \A x \in RefNumbers : list2[x] = IF x = s[n] THEN h2 ELSE list[x]
  BY <1>1
<1>. HIDE DEF t, list2
<1>5. \A i \in 1..Len(t) : \/ i \in 1..n /\ t[i] = s[i]
                           \/ i - n \in 1..Len(s2) /\ t[i] = s2[i - n] /\ ~(i <= n)
  BY <1>1, <1>2
<1>6. Once(t)
  <2>1. ASSUME NEW i \in 1..Len(t), NEW j \in 1..Len(t), t[i] = t[j] PROVE i = j
    <3>1. i \in 1..n /\ j \in 1..n => i = j
      BY <2>1, <1>1, <1>2, <1>5 DEF Chain, Once
    <3>2. ASSUME i - n \in 1..Len(s2), j - n \in 1..Len(s2) PROVE i - n = j - n
      <4>1. ~(i \in 1..n) /\ ~(j \in 1..n)
        BY <3>2, <1>1
      <4>2. s2[i - n] = s2[j - n]
        BY <2>1, <4>1, <1>5
      <4>3. Once(s2)
        BY DEF Chain
      <4>. QED  BY <3>2, <4>2, <4>3 DEF Once
    <3>3. ~(i \in 1..n /\ j - n \in 1..Len(s2)) /\ ~(j \in 1..n /\ i - n \in 1..Len(s2))
      BY <2>1, <1>1, <1>2, <1>3, <1>5
    <3>. QED  BY <3>1, <3>2, <3>3, <1>1, <1>2, <1>5
  <2>. QED  BY <2>1 DEF Once
<1>7. ASSUME NEW i \in 1..Len(t) PROVE list2[t[i]] = At(t, i + 1)
  <2>1. CASE i \in 1..n /\ i # n
    <3>4. s[i] # s[n]
      BY <2>1, <1>4 DEF Chain, Once
    <3>5. i + 1 \in 1..n
      <4>1. n \in Nat
        BY <1>1
      <4>. QED  BY <2>1, <4>1
    <3>1. s[i] # s[n] /\ i + 1 \in 1..n /\ i + 1 \in 1..Len(t)
      BY <3>4, <3>5, <1>1, <1>2
    <3>2. list2[t[i]] = list[s[i]] /\ t[i + 1] = s[i + 1]
      BY <2>1, <3>1, <1>2, <1>3, <1>4
    <3>3. list[s[i]] = At(s, i + 1)
      BY <2>1 DEF Chain
    <3>. QED  BY <3>1, <3>2, <3>3 DEF At
  <2>2. CASE i = n
    <3>1. list2[t[i]] = At(s2, 1) /\ (n + 1) - n = 1
      BY <2>2, <1>1, <1>2, <1>3, <1>4
    <3>2. n + 1 \in 1..Len(t) <=> 1 \in 1..Len(s2)
      BY <1>1, <1>2
    <3>. QED  BY <2>2, <3>1, <3>2, <1>1, <1>2 DEF At
  <2>3. CASE ~(i \in 1..n)
    <3>1. i - n \in 1..Len(s2) /\ t[i] = s2[i - n] /\ (i - n) + 1 = (i + 1) - n
      BY <2>3, <1>1, <1>2, <1>5
    <3>2. s2[i - n] # s[n] /\ s2[i - n] \in RefNumbers
      BY <3>1, <1>3, <1>4
    <3>3. list2[t[i]] = At(s2, (i - n) + 1)
      BY <3>1, <3>2, <1>4 DEF Chain
    <3>4. (i + 1) - n \in 1..Len(s2) <=> i + 1 \in 1..Len(t)
      BY <2>3, <1>1, <1>2
    <3>5. i + 1 \in 1..Len(t) => t[i + 1] = s2[(i + 1) - n]
      BY <2>3, <1>1, <1>2
    <3>. QED  BY <3>1, <3>3, <3>4, <3>5 DEF At
  <2>. QED  BY <2>1, <2>2, <2>3
<1>8. h = At(t, 1)
  BY <1>1, <1>2 DEF At
<1>9. ToSet(t) = ToSet(s) \cup ToSet(s2)
  BY <1>1, ConcatSets DEF t
<1>. QED  BY <1>1, <1>2, <1>3, <1>4, <1>6, <1>7, <1>8, <1>9 DEF Chain, IsJoin, t, list2


(* A list is cut after its n-th reference: get_free_entries.               *)
IsCut(list, h, s, n, a, b) ==
    LET list2 == [list EXCEPT ![s[n]] = ListEnd]
    IN  /\ Node(list, h, n - 1) = s[n] /\ s[n] \in RefNumbers
        /\ Chain(list2, h, a) /\ Chain(list2, list[s[n]], b)
        /\ ToSet(a) \cup ToSet(b) = ToSet(s) /\ ToSet(a) \cap ToSet(b) = {}
        /\ Len(a) = n /\ Len(b) = Len(s) - n

LEMMA ChainCut ==
  ASSUME NEW list \in [RefNumbers -> RefNumbers \cup {ListEnd}], NEW h, NEW s,
         Chain(list, h, s), NEW n \in 1..Len(s)
  PROVE  IsCut(list, h, s, n, SubSeq(s, 1, n), SubSeq(s, n + 1, Len(s)))
<1>. DEFINE list2 == [list EXCEPT ![s[n]] = ListEnd]
            a == SubSeq(s, 1, n)
            b == SubSeq(s, n + 1, Len(s))
            m == Len(s) - n
<1>1. /\ s \in Seq(RefNumbers) /\ Len(s) \in Nat /\ n \in Nat /\ n <= Len(s)
      /\ DOMAIN s = 1..Len(s) /\ h = s[1]
  BY LenProperties DEF Chain, At
<1>0. m \in Nat /\ Len(s) = n + m
  <2>1. Len(s) \in Nat /\ n \in Nat /\ n <= Len(s)
    BY <1>1
  <2>. QED  BY <2>1
<1>2. \A i \in 1..Len(s) : s[i] \in RefNumbers
  BY <1>1, ElementOfSeq
<1>3. /\ a \in Seq(RefNumbers) /\ Len(a) = n /\ DOMAIN a = 1..n
      /\ \A i \in 1..n : a[i] = s[i]
  <2>1. \A i \in 1..n : s[i] \in RefNumbers
    BY <1>1, <1>2
  <2>2. 1 \in Int /\ n \in Int /\ 1 <= n /\ n - 1 + 1 = n
    BY <1>1
  <2>3. a \in Seq(RefNumbers) /\ Len(a) = n /\ \A i \in 1..n : a[i] = s[1 + i - 1]
    BY <2>1, <2>2, SubSeqProperties
  <2>. QED  BY <2>3, LenProperties
<1>4. /\ b \in Seq(RefNumbers) /\ Len(b) = m /\ DOMAIN b = 1..m
      /\ \A i \in 1..m : b[i] = s[n + i]
  <2>1. \A i \in n + 1..Len(s) : s[i] \in RefNumbers
    BY <1>1, <1>2
  <2>2. n + 1 \in Int /\ Len(s) \in Int /\ Len(s) - (n + 1) + 1 = m
    BY <1>1
  <2>3. /\ b \in Seq(RefNumbers) /\ Len(b) = (IF n + 1 <= Len(s) THEN m ELSE 0)
        /\ \A i \in 1..m : b[i] = s[n + 1 + i - 1]
    BY <2>1, <2>2, SubSeqProperties
  <2>4. s \in Seq(RefNumbers) /\ n \in 1..Len(s)
    BY <1>1
  <2>5. n + 1 <= Len(s) \/ m = 0
    BY <2>4
  <2>6. Len(b) = m
    BY <2>3, <2>5
  <2>7. \A i \in 1..m : n + 1 + i - 1 = n + i
    BY <2>4
  <2>8. DOMAIN b = 1..Len(b)
    BY <2>3, LenProperties
  <2>. QED  BY <2>3, <2>6, <2>7, <2>8
<1>5. /\ \A i \in 1..n : i \in 1..Len(s)
      /\ \A i \in 1..m : n + i \in 1..Len(s) /\ n + i # n
      /\ \A i \in 1..Len(s) : i \in 1..n \/ (i - n \in 1..m /\ n + (i - n) = i)
      /\ n \in 1..n /\ n \in 1..Len(s)
  BY <1>1
<1>6. \A x \in RefNumbers : list2[x] = IF x = s[n] THEN ListEnd ELSE list[x]
  OBVIOUS
<1>7. Node(list, h, n - 1) = s[n]
  BY <1>1, <1>5, NodeAt DEF At
<1>. HIDE DEF a, b, list2
<1>8. Once(a) /\ Once(b)
  <2>1. \A i, j \in 1..m : b[i] = b[j] => n + i = n + j
    BY <1>4, <1>5 DEF Chain, Once
  <2>. QED  BY <1>1, <1>3, <1>4, <1>5, <2>1 DEF Chain, Once
<1>9. \A i \in 1..Len(s) : i # n => s[i] # s[n]
  BY <1>5 DEF Chain, Once
<1>10. Chain(list2, h, a)
  <2>1. ASSUME NEW i \in 1..n PROVE list2[a[i]] = At(a, i + 1)
    <3>1. CASE i = n
      BY <3>1, <1>1, <1>2, <1>3, <1>5, <1>6 DEF At
    <3>2. CASE i # n
      <4>1. i + 1 \in 1..n /\ i + 1 \in 1..Len(s) /\ i \in 1..Len(s)
        BY <3>2, <1>1
      <4>2. list2[a[i]] = list[s[i]] /\ list[s[i]] = At(s, i + 1)
        BY <4>1, <3>2, <1>2, <1>3, <1>6, <1>9 DEF Chain
      <4>. QED  BY <4>1, <4>2, <1>3 DEF At
    <3>. QED  BY <3>1, <3>2
  <2>2. h = At(a, 1)
    BY <1>1, <1>3 DEF At
  <2>. QED  BY <2>1, <2>2, <1>3, <1>8 DEF Chain
<1>11. Chain(list2, list[s[n]], b)
  <2>1. ASSUME NEW i \in 0..m PROVE list[s[n + i]] = At(b, i + 1)
    <3>1. n + i \in 1..Len(s) /\ (n + i) + 1 = n + (i + 1)
      BY <1>1
    <3>2. i + 1 \in 1..m <=> n + (i + 1) \in 1..Len(s)
      BY <1>1
    <3>3. list[s[n + i]] = At(s, n + (i + 1))
      BY <3>1 DEF Chain
    <3>. QED  BY <3>2, <3>3, <1>4 DEF At
  <2>2. \A i \in 1..m : list2[b[i]] = list[s[n + i]]
    BY <1>2, <1>4, <1>5, <1>6, <1>9
  <2>3. 0 \in 0..m /\ n + 0 = n /\ 0 + 1 = 1 /\ \A i \in 1..m : i \in 0..m
    BY <1>0, <1>1
  <2>5. list[s[n + 0]] = At(b, 0 + 1) /\ \A i \in 1..m : list[s[n + i]] = At(b, i + 1)
    BY <2>1, <2>3
  <2>4. list[s[n]] = At(b, 1) /\ \A i \in 1..m : list2[b[i]] = At(b, i + 1)
    BY <2>2, <2>3, <2>5
  <2>. QED  BY <2>4, <1>4, <1>8 DEF Chain
<1>12. ToSet(a) \cup ToSet(b) = ToSet(s) /\ ToSet(a) \cap ToSet(b) = {}
  <2>1. /\ ToSet(a) = {s[i] : i \in 1..n} /\ ToSet(b) = {s[n + i] : i \in 1..m}
        /\ ToSet(s) = {s[i] : i \in 1..Len(s)}
    <3>1. ToSet(a) = {s[i] : i \in 1..n}
      BY <1>3 DEF ToSet
    <3>2. ToSet(b) = {s[n + i] : i \in 1..m}
      BY <1>4 DEF ToSet
    <3>. QED  BY <3>1, <3>2, <1>1 DEF ToSet
  <2>2. \A i \in 1..n, j \in 1..m : s[i] # s[n + j]
    <3>1. \A i \in 1..n, j \in 1..m : i # n + j
      BY <1>1
    <3>. QED  BY <3>1, <1>5 DEF Chain, Once
  <2>3. ToSet(a) \cap ToSet(b) = {}
    BY <2>1, <2>2
  <2>4. ToSet(a) \subseteq ToSet(s) /\ ToSet(b) \subseteq ToSet(s)
    BY <2>1, <1>5
  <2>5. \A i \in 1..Len(s) : s[i] \in ToSet(a) \cup ToSet(b)
    <3>1. \A i \in 1..n : s[i] \in ToSet(a)
      BY <2>1
    <3>2. \A i \in 1..m : s[n + i] \in ToSet(b)
      BY <2>1
    <3>. QED  BY <3>1, <3>2, <1>5
  <2>6. ToSet(s) \subseteq ToSet(a) \cup ToSet(b)
    BY <2>1, <2>5
  <2>. QED  BY <2>3, <2>4, <2>6
<1>. QED  BY <1>2, <1>3, <1>4, <1>5, <1>7, <1>10, <1>11, <1>12 DEF IsCut, a, b, list2


--------------------------------------------------------------------------------
(* Frames. *)

(* The n-th frame's end, as a number. *)
LEMMA FrameBounds ==
  ASSUME NEW n \in 1..MaxFrames
  PROVE  /\ FrameEntries * n \in Nat /\ NrReserved <= FrameEntries * n
         /\ FrameEntries * n <= MaxFrames * FrameEntries
         /\ MaxFrames * FrameEntries \in Nat
         /\ n < MaxFrames =>
              /\ FrameEntries * (n + 1) = FrameEntries * n + FrameEntries
              /\ FrameEntries * (n + 1) <= MaxFrames * FrameEntries
              /\ Frame[n + 1] = FrameEntries * n .. FrameEntries * n + FrameEntries - 1
<1>1. n \in Nat /\ 1 <= n /\ n <= MaxFrames /\ MaxFrames \in Nat /\ FrameEntries \in Nat \ {0}
      /\ NrReserved \in Nat /\ NrReserved < FrameEntries
  BY ListAssumption
<1>2. \A a, b, f \in Nat : a <= b => f * a \in Nat /\ f * a <= f * b
  OBVIOUS
<1>3. \A a, f \in Nat : f * (a + 1) = f * a + f /\ f * a = a * f /\ (a + 1 - 1) * f = f * a
  OBVIOUS
<1>4. FrameEntries * n \in Nat /\ FrameEntries * n <= MaxFrames * FrameEntries
      /\ MaxFrames * FrameEntries \in Nat
  BY <1>1, <1>2, <1>3
<1>5. NrReserved <= FrameEntries * n
  <2>1. FrameEntries * 1 <= FrameEntries * n /\ FrameEntries * 1 = FrameEntries
    BY <1>1, <1>2
  <2>. QED  BY <1>1, <1>4, <2>1
<1>6. ASSUME n < MaxFrames
      PROVE  /\ FrameEntries * (n + 1) = FrameEntries * n + FrameEntries
             /\ FrameEntries * (n + 1) <= MaxFrames * FrameEntries
             /\ Frame[n + 1] = FrameEntries * n .. FrameEntries * n + FrameEntries - 1
  <2>1. n + 1 \in 1..MaxFrames /\ n + 1 # 1 /\ n + 1 \in Nat /\ n + 1 <= MaxFrames
    BY <1>1, <1>6
  <2>2. Frame[n + 1] = (n + 1 - 1) * FrameEntries .. (n + 1) * FrameEntries - 1
    BY <2>1 DEF Frame
  <2>3. /\ (n + 1 - 1) * FrameEntries = FrameEntries * n
        /\ (n + 1) * FrameEntries = FrameEntries * (n + 1)
        /\ FrameEntries * (n + 1) = FrameEntries * n + FrameEntries
    BY <1>1, <1>3, <2>1
  <2>4. FrameEntries * (n + 1) <= MaxFrames * FrameEntries
    BY <1>1, <1>2, <1>3, <2>1
  <2>5. Frame[n + 1] = FrameEntries * n .. FrameEntries * (n + 1) - 1
    BY <2>2, <2>3
  <2>6. Frame[n + 1] = FrameEntries * n .. FrameEntries * n + FrameEntries - 1
    <3>1. FrameEntries * (n + 1) - 1 = FrameEntries * n + FrameEntries - 1
      <4>1. FrameEntries * n \in Nat /\ FrameEntries \in Nat
        BY <1>1, <1>4
      <4>. HIDE DEF Frame
      <4>. QED  BY <2>3, <4>1
    <3>. QED  BY <2>5, <3>1
  <2>. QED  BY <2>3, <2>4, <2>6
<1>. QED  BY <1>4, <1>5, <1>6

(* grow_gnttab_list puts a whole frame before the free list.               *)
LEMMA Grow ==
  ASSUME NEW n \in 1..MaxFrames, n < MaxFrames,
         NEW list \in [RefNumbers -> RefNumbers \cup {ListEnd}], NEW head, NEW F,
         Chain(list, head, F), ToSet(F) \subseteq 0..FrameEntries * n - 1
  PROVE  LET g == GrowGnttabList(n, list, head)
         IN  /\ g.list \in [RefNumbers -> RefNumbers \cup {ListEnd}]
             /\ g.head = FrameEntries * n
             /\ \A r \in 0..FrameEntries * n - 1 : g.list[r] = list[r]
             /\ \E G : /\ Chain(g.list, g.head, G)
                       /\ ToSet(G) = ToSet(F) \cup Frame[n + 1]
                       /\ Len(G) = Len(F) + FrameEntries /\ Len(F) \in Nat
<1>. DEFINE first == FrameEntries * n
            last == first + FrameEntries - 1
            list0 == [r \in RefNumbers |-> IF r \in first..last - 1 THEN r + 1
                                           ELSE IF r = last THEN ListEnd ELSE list[r]]
            N == [i \in 1..FrameEntries |-> first + i - 1]
            g == GrowGnttabList(n, list, head)
<1>1. /\ first \in Nat /\ FrameEntries \in Nat \ {0} /\ last \in Nat
      /\ first + FrameEntries <= MaxFrames * FrameEntries /\ MaxFrames * FrameEntries \in Nat
      /\ FrameEntries * (n + 1) - 1 = last /\ Frame[n + 1] = first..last
  <2>1. FrameEntries \in Nat \ {0}
    BY ListAssumption
  <2>2. first \in Nat /\ first + FrameEntries <= MaxFrames * FrameEntries
        /\ MaxFrames * FrameEntries \in Nat
        /\ FrameEntries * (n + 1) = first + FrameEntries /\ Frame[n + 1] = first..last
    BY FrameBounds
  <2>. HIDE DEF first
  <2>. QED  BY <2>1, <2>2
<1>. HIDE DEF first
<1>2. first..last \subseteq RefNumbers /\ 0..first - 1 \subseteq RefNumbers
  <2>. DEFINE K == MaxFrames * FrameEntries
  <2>1. /\ K \in Nat /\ first \in Nat /\ FrameEntries \in Nat \ {0} /\ last = first + FrameEntries - 1
        /\ first + FrameEntries <= K
    BY <1>1
  <2>2. RefNumbers = 0..K - 1
    BY DEF RefNumbers
  <2>. HIDE DEF K, last
  <2>. QED  BY <2>1, <2>2
<1>3. list0 \in [RefNumbers -> RefNumbers \cup {ListEnd}]
  <2>1. \A r \in first..last - 1 : r + 1 \in first..last
    BY <1>1
  <2>. QED  BY <1>2, <2>1
<1>4. /\ N \in Seq(RefNumbers) /\ Len(N) = FrameEntries /\ DOMAIN N = 1..FrameEntries
      /\ \A i \in 1..FrameEntries : N[i] = first + i - 1 /\ N[i] \in first..last
  <2>1. \A i \in 1..FrameEntries : first + i - 1 \in first..last
    BY <1>1
  <2>. QED  BY <1>1, <1>2, <2>1
<1>5. ToSet(N) = first..last
  <2>1. \A r \in first..last : r - first + 1 \in 1..FrameEntries /\ first + (r - first + 1) - 1 = r
    BY <1>1
  <2>2. \A r \in first..last : N[r - first + 1] = r
    BY <1>4, <2>1
  <2>. QED  BY <1>4, <2>1, <2>2 DEF ToSet
<1>6. Chain(list0, first, N)
  <2>. HIDE DEF N
  <2>1. Once(N)
    <3>1. \A i, j \in 1..FrameEntries : first + i - 1 = first + j - 1 => i = j
      BY <1>1
    <3>. QED  BY <1>1, <1>4, <3>1 DEF Once
  <2>2. ASSUME NEW i \in 1..Len(N) PROVE list0[N[i]] = At(N, i + 1)
    <3>1. N[i] \in RefNumbers /\ N[i] = first + i - 1 /\ i \in 1..FrameEntries
      BY <1>2, <1>4
    <3>2. CASE i = FrameEntries
      <4>1. N[i] = last
        BY <3>1, <3>2, <1>1
      <4>2. last \notin first..last - 1 /\ FrameEntries + 1 \notin 1..FrameEntries
        BY <1>1
      <4>. QED  BY <3>1, <3>2, <4>1, <4>2, <1>4 DEF At
    <3>3. CASE i # FrameEntries
      <4>1. N[i] \in first..last - 1 /\ i + 1 \in 1..FrameEntries /\ N[i] + 1 = first + (i + 1) - 1
        BY <3>1, <3>3, <1>1
      <4>. QED  BY <3>1, <4>1, <1>4 DEF At
    <3>. QED  BY <3>2, <3>3
  <2>3. first = At(N, 1)
    BY <1>1, <1>4 DEF At
  <2>. QED  BY <1>4, <2>1, <2>2, <2>3 DEF Chain
<1>7. \A r \in 0..first - 1 : list0[r] = list[r]
  BY <1>1, <1>2
<1>8. Chain(list0, head, F)
  BY <1>7, ChainElsewhere DEF first
<1>9. g.list = [list0 EXCEPT ![last] = head] /\ g.head = first
  <2>1. /\ g.list = [r \in RefNumbers |-> IF r \in first..last - 1 THEN r + 1
                                         ELSE IF r = last THEN head ELSE list[r]]
        /\ g.head = first
    BY <1>1 DEF GrowGnttabList, first
  <2>2. ASSUME NEW r \in RefNumbers
        PROVE  [list0 EXCEPT ![last] = head][r]
                 = IF r \in first..last - 1 THEN r + 1 ELSE IF r = last THEN head ELSE list[r]
    <3>1. last \notin first..last - 1
      BY <1>1
    <3>. QED  BY <3>1
  <2>. QED  BY <2>1, <2>2
<1>10. N[Len(N)] = last /\ N # <<>> /\ ToSet(N) \cap ToSet(F) = {}
  <2>1. 1 \in 1..FrameEntries /\ FrameEntries \in 1..FrameEntries
    BY <1>1
  <2>2. N[FrameEntries] = last
    BY <1>4, <2>1
  <2>3. (first..last) \cap (0..first - 1) = {}
    BY <1>1
  <2>. QED  BY <1>1, <1>4, <1>5, <2>2, <2>3 DEF first
<1>. HIDE DEF N, list0, g
<1>11. /\ Chain([list0 EXCEPT ![last] = head], first, N \o F)
       /\ ToSet(N \o F) = ToSet(N) \cup ToSet(F)
       /\ Len(N \o F) = Len(N) + Len(F) /\ Len(F) \in Nat
  <2>0. ToSet(N) \cap ToSet(F) = {} /\ N # <<>>
    BY <1>10
  <2>. HIDE DEF last
  <2>1. Chain([list0 EXCEPT ![N[Len(N)]] = head], first, N \o F)
    BY <1>3, <1>6, <1>8, <2>0, ChainJoin DEF IsJoin
  <2>3. N \in Seq(RefNumbers) /\ F \in Seq(RefNumbers)
    BY <1>4 DEF Chain
  <2>2. ToSet(N \o F) = ToSet(N) \cup ToSet(F)
    BY <2>3, ConcatSets
  <2>4. Len(N \o F) = Len(N) + Len(F) /\ Len(F) \in Nat
    BY <2>3, ConcatProperties, LenProperties
  <2>. QED  BY <1>10, <2>1, <2>2, <2>4
<1>12. Chain(g.list, g.head, N \o F) /\ ToSet(N \o F) = ToSet(F) \cup Frame[n + 1]
       /\ Len(N \o F) = Len(F) + FrameEntries /\ Len(F) \in Nat
  BY <1>1, <1>4, <1>5, <1>9, <1>11
<1>13. head \in RefNumbers \cup {ListEnd} /\ last \in RefNumbers
  <2>1. Len(F) \in Nat /\ (\A i \in 1..Len(F) : F[i] \in RefNumbers) /\ head = At(F, 1)
    BY LenProperties, ElementOfSeq DEF Chain
  <2>2. head \in RefNumbers \cup {ListEnd}
    BY <2>1 DEF At
  <2>3. last \in first..last
    BY <1>1
  <2>. QED  BY <1>2, <2>2, <2>3
<1>14. g.list \in [RefNumbers -> RefNumbers \cup {ListEnd}]
  BY <1>3, <1>9, <1>13
<1>15. \A r \in 0..first - 1 : g.list[r] = list[r]
  BY <1>1, <1>2, <1>3, <1>7, <1>9
<1>. QED  BY <1>9, <1>12, <1>14, <1>15 DEF g, first


--------------------------------------------------------------------------------
(* The inductive invariant. *)

(* F is the free list, P[c] the private list of c. *)
Chained(F, P) ==
    /\ Chain(gnttab_list, gnttab_free_head, F) /\ gnttab_free_count = Len(F)
    /\ P \in [Clients -> Seq(RefNumbers)]
    /\ \A c \in Clients : Chain(gnttab_list, private_head[c], P[c])

(* The references of the first n frames. *)
FirstFrames(n) == UNION {Frame[i] : i \in 1..n}

(* No reference is on two lists, with two clients, reserved or in a frame  *)
(* that is not mapped. *)
Apart(F, P) ==
    /\ \A c, d \in Clients :
          /\ ToSet(P[c]) \cap (ToSet(F) \cup held[d]) = {}
          /\ c # d => ToSet(P[c]) \cap ToSet(P[d]) = {} /\ held[c] \cap held[d] = {}
    /\ \A c \in Clients : held[c] \cap ToSet(F) = {}
    /\ \A r \in RefNumbers :
          (r \in ToSet(F) \/ \E c \in Clients : r \in ToSet(P[c]) \cup held[c])
             => r \in FirstFrames(nr_grant_frames) /\ r < FrameEntries * nr_grant_frames

Lists(F, P) == Chained(F, P) /\ Apart(F, P)

ListInv == TypeOK /\ \E F, P : Lists(F, P)

(* The sets GrantPool has for the lists. *)
FreeSet(F) == ListFrom(gnttab_free_head) = ToSet(F)
PrivateSets(P) == \A c \in Clients : ListFrom(private_head[c]) = ToSet(P[c])

LEMMA Mapped ==
  ASSUME NEW F, NEW P, Chained(F, P)
  PROVE  FreeSet(F) /\ PrivateSets(P)
BY ListInChain DEF Chained, FreeSet, PrivateSets, ListFrom, ListIn

LEMMA MappedNext ==
  ASSUME NEW F, NEW P, Chained(F, P)'
  PROVE  FreeSet(F)' /\ PrivateSets(P)'
BY ListInChain DEF Chained, FreeSet, PrivateSets, ListFrom, ListIn

LEMMA ChainTyped ==
  ASSUME NEW list, NEW head, NEW s, Chain(list, head, s)
  PROVE  /\ s \in Seq(RefNumbers) /\ Len(s) \in Nat /\ ToSet(s) \subseteq RefNumbers
         /\ head \in RefNumbers \cup {ListEnd}
         /\ head = ListEnd <=> s = <<>>
         /\ head = ListEnd <=> ToSet(s) = {}
<1>1. s \in Seq(RefNumbers) /\ Len(s) \in Nat /\ DOMAIN s = 1..Len(s) /\ head = At(s, 1)
  BY LenProperties DEF Chain
<1>2. \A i \in 1..Len(s) : s[i] \in RefNumbers
  BY <1>1, ElementOfSeq
<1>3. ToSet(s) \subseteq RefNumbers
  BY <1>1, <1>2 DEF ToSet
<1>4. CASE s = <<>>
  BY <1>1, <1>3, <1>4 DEF At, ToSet
<1>5. CASE s # <<>>
  <2>1. 1 \in 1..Len(s)
    BY <1>1, <1>5, EmptySeq
  <2>2. head = s[1] /\ head \in ToSet(s) /\ head \in RefNumbers
    BY <2>1, <1>1, <1>2 DEF At, ToSet
  <2>. QED  BY <2>2, <1>1, <1>3, <1>5, ListEndApart
<1>. QED  BY <1>4, <1>5

(* gnttab_init: one list, of the first frame. *)
LEMMA ListInit == Init => TypeOK /\ \E F, P : Lists(F, P) /\ ToSet(F) = Frame[1]
<1>. SUFFICES ASSUME Init PROVE TypeOK /\ \E F, P : Lists(F, P) /\ ToSet(F) = Frame[1]
  OBVIOUS
<1>. DEFINE F == [i \in 1..FrameEntries - NrReserved |-> NrReserved + i - 1]
            P == [c \in Clients |-> <<>>]
<1>0. /\ NrReserved \in Nat /\ FrameEntries \in Nat \ {0} /\ NrReserved < FrameEntries
      /\ FrameEntries - NrReserved \in Nat \ {0} /\ MaxFrames \in Nat \ {0}
  BY ListAssumption
<1>1. FrameEntries <= MaxFrames * FrameEntries /\ MaxFrames * FrameEntries \in Nat
      /\ FrameEntries * 1 = FrameEntries
  <2>1. 1 \in 1..MaxFrames
    BY <1>0
  <2>. QED  BY <2>1, <1>0, FrameBounds
<1>2. NrReserved..FrameEntries - 1 \subseteq RefNumbers
  BY <1>0, <1>1 DEF RefNumbers
<1>3. /\ F \in Seq(RefNumbers) /\ Len(F) = FrameEntries - NrReserved
      /\ \A i \in 1..FrameEntries - NrReserved :
            F[i] = NrReserved + i - 1 /\ F[i] \in NrReserved..FrameEntries - 1
  <2>1. \A i \in 1..FrameEntries - NrReserved : NrReserved + i - 1 \in NrReserved..FrameEntries - 1
    BY <1>0
  <2>. QED  BY <1>0, <1>2, <2>1
<1>4. TypeOK
  <2>1. \A r \in NrReserved..FrameEntries - 2 : r + 1 \in NrReserved..FrameEntries - 1
    BY <1>0
  <2>2. NrReserved \in NrReserved..FrameEntries - 1 /\ 1 \in 1..MaxFrames
    BY <1>0
  <2>3. gnttab_list \in [RefNumbers -> RefNumbers \cup {ListEnd}]
    BY <1>2, <2>1 DEF Init
  <2>. QED  BY <1>0, <1>2, <2>2, <2>3 DEF Init, TypeOK
<1>. HIDE DEF F
<1>5. Chain(gnttab_list, gnttab_free_head, F)
  <2>1. Once(F)
    <3>1. \A i, j \in 1..FrameEntries - NrReserved :
             NrReserved + i - 1 = NrReserved + j - 1 => i = j
      BY <1>0
    <3>. QED  BY <1>3, <3>1 DEF Once
  <2>2. ASSUME NEW i \in 1..Len(F) PROVE gnttab_list[F[i]] = At(F, i + 1)
    <3>1. i \in 1..FrameEntries - NrReserved /\ F[i] = NrReserved + i - 1 /\ F[i] \in RefNumbers
      BY <1>2, <1>3
    <3>2. gnttab_list[F[i]] = IF F[i] \in NrReserved..FrameEntries - 2 THEN F[i] + 1 ELSE ListEnd
      BY <3>1 DEF Init
    <3>3. CASE i + 1 \in 1..FrameEntries - NrReserved
      <4>1. F[i] \in NrReserved..FrameEntries - 2 /\ F[i] + 1 = NrReserved + (i + 1) - 1
        BY <3>1, <3>3, <1>0
      <4>. QED  BY <3>2, <3>3, <4>1, <1>3 DEF At
    <3>4. CASE i + 1 \notin 1..FrameEntries - NrReserved
      <4>1. F[i] \notin NrReserved..FrameEntries - 2
        BY <3>1, <3>4, <1>0
      <4>. QED  BY <3>2, <3>4, <4>1, <1>3 DEF At
    <3>. QED  BY <3>3, <3>4
  <2>3. gnttab_free_head = At(F, 1)
    <3>1. 1 \in 1..FrameEntries - NrReserved /\ NrReserved + 1 - 1 = NrReserved
      BY <1>0
    <3>. QED  BY <3>1, <1>3 DEF At, Init
  <2>. QED  BY <1>3, <2>1, <2>2, <2>3 DEF Chain
<1>6. Chained(F, P)
  <2>1. <<>> \in Seq(RefNumbers) /\ Len(<<>>) = 0
    BY EmptySeq
  <2>2. Chain(gnttab_list, ListEnd, <<>>)
    BY <2>1 DEF Chain, Once, At
  <2>. QED  BY <1>3, <1>5, <2>1, <2>2 DEF Chained, Init
<1>7. Apart(F, P)
  <2>1. \A c \in Clients : P[c] = <<>> /\ held[c] = {} /\ ToSet(P[c]) = {}
    BY DEF Init, ToSet
  <2>2. \A r \in ToSet(F) : r \in NrReserved..FrameEntries - 1
    BY <1>3, LenProperties DEF ToSet
  <2>3. \A r \in NrReserved..FrameEntries - 1 : r < FrameEntries * nr_grant_frames
    BY <1>0, <1>1 DEF Init
  <2>4. \A r \in NrReserved..FrameEntries - 1 : r \in FirstFrames(nr_grant_frames)
    <3>1. Frame[1] = NrReserved..FrameEntries - 1 /\ nr_grant_frames = 1 /\ 1 \in 1..1
      BY <1>0 DEF Frame, Init
    <3>. QED  BY <3>1 DEF FirstFrames
  <2>. HIDE DEF P
  <2>. QED  BY <2>1, <2>2, <2>3, <2>4 DEF Apart
<1>8. ToSet(F) = Frame[1]
  <2>1. \A r \in NrReserved..FrameEntries - 1 :
           /\ r - NrReserved + 1 \in 1..FrameEntries - NrReserved
           /\ NrReserved + (r - NrReserved + 1) - 1 = r
    BY <1>0
  <2>2. \A r \in NrReserved..FrameEntries - 1 : F[r - NrReserved + 1] = r
    BY <1>3, <2>1
  <2>3. DOMAIN F = 1..FrameEntries - NrReserved
    BY <1>3, LenProperties
  <2>4. Frame[1] = NrReserved..FrameEntries - 1
    BY <1>0 DEF Frame
  <2>. HIDE DEF F
  <2>5. ToSet(F) = NrReserved..FrameEntries - 1
    BY <1>3, <2>1, <2>2, <2>3 DEF ToSet
  <2>. QED  BY <2>4, <2>5
<1>. HIDE DEF F, P
<1>. QED  BY <1>4, <1>6, <1>7, <1>8 DEF Lists


--------------------------------------------------------------------------------
(* Taking references: a is what is taken, b what stays on the free list.   *)
Got(F, P, n, a, b) ==
    /\ gnttab_list' \in [RefNumbers -> RefNumbers \cup {ListEnd}]
    /\ nr_grant_frames' \in 1..MaxFrames
    /\ Chain(gnttab_list', IF gnttab_free_count < n THEN FrameEntries * nr_grant_frames
                                                    ELSE gnttab_free_head, a)
    /\ Chain(gnttab_list', gnttab_free_head', b)
    /\ \A c \in Clients : Chain(gnttab_list', private_head[c], P[c])
    /\ Len(a) = n /\ gnttab_free_count' = Len(b)
    /\ ToSet(a) \cap ToSet(b) = {}
    /\ ToSet(a) \cup ToSet(b) = Pool!FreeFor(n)
    /\ (ToSet(a) \cup ToSet(b)) \cap UNION {ToSet(P[c]) \cup held[c] : c \in Clients} = {}
    /\ \A r \in ToSet(a) \cup ToSet(b) :
          r \in FirstFrames(nr_grant_frames') /\ r < FrameEntries * nr_grant_frames'
    /\ \A r \in RefNumbers :
          r \in FirstFrames(nr_grant_frames) /\ r < FrameEntries * nr_grant_frames
             => r \in FirstFrames(nr_grant_frames') /\ r < FrameEntries * nr_grant_frames'
    /\ Pool!CanGet(n) /\ nr_grant_frames' = Pool!FramesFor(n)
    /\ gnttab_free_count' = Pool!CountFor(n) - n

LEMMA GetFree ==
  ASSUME TypeOK, NEW F, NEW P, Lists(F, P), NEW n \in 1..MaxRequest, GetFreeEntries(n)
  PROVE  \E a, b : Got(F, P, n, a, b)
<1>. DEFINE short == gnttab_free_count < n
            first == FrameEntries * nr_grant_frames
            grown == IF short
                     THEN GrowGnttabList(nr_grant_frames, gnttab_list, gnttab_free_head)
                     ELSE [list |-> gnttab_list, head |-> gnttab_free_head]
            tail  == Node(grown.list, grown.head, n - 1)
            frames == nr_grant_frames + (IF short THEN 1 ELSE 0)
<1>1. /\ short => nr_grant_frames + 1 <= MaxFrames
      /\ gnttab_free_head' = grown.list[tail]
      /\ gnttab_list' = [grown.list EXCEPT ![tail] = ListEnd]
      /\ gnttab_free_count' = gnttab_free_count + (IF short THEN FrameEntries ELSE 0) - n
      /\ nr_grant_frames' = frames
  BY DEF GetFreeEntries
<1>2. /\ Chain(gnttab_list, gnttab_free_head, F) /\ gnttab_free_count = Len(F) /\ Len(F) \in Nat
      /\ \A c \in Clients : Chain(gnttab_list, private_head[c], P[c])
      /\ gnttab_list \in [RefNumbers -> RefNumbers \cup {ListEnd}]
      /\ nr_grant_frames \in 1..MaxFrames
      /\ ToSet(F) \subseteq RefNumbers /\ \A c \in Clients : ToSet(P[c]) \subseteq RefNumbers
      /\ \A c \in Clients : held[c] \subseteq RefNumbers
  BY ChainTyped DEF Lists, Chained, TypeOK
<1>3. /\ MaxFrames \in Nat /\ FrameEntries \in Nat \ {0} /\ n \in Nat \ {0} /\ n <= FrameEntries
  BY ListAssumption
<1>4. /\ first \in Nat /\ frames \in 1..MaxFrames
      /\ FrameEntries * frames \in Nat
      /\ FrameEntries * frames = IF short THEN first + FrameEntries ELSE first
      /\ short => Frame[nr_grant_frames + 1] = first..first + FrameEntries - 1
  <2>1. CASE short
    <3>1. nr_grant_frames < MaxFrames /\ frames = nr_grant_frames + 1 /\ frames \in 1..MaxFrames
      BY <1>1, <1>2, <1>3, <2>1
    <3>. QED  BY <2>1, <3>1, <1>2, FrameBounds
  <2>2. CASE ~short
    <3>1. frames = nr_grant_frames
      BY <1>2, <2>2
    <3>2. first \in Nat
      BY <1>2, FrameBounds
    <3>3. FrameEntries * frames = first
      BY <3>1
    <3>. HIDE DEF frames, short, first
    <3>. QED  BY <2>2, <3>1, <3>2, <3>3, <1>2
  <2>. QED  BY <2>1, <2>2
<1>. HIDE DEF frames
<1>5. /\ \A r \in ToSet(F) : r \in 0..first - 1
      /\ \A c \in Clients : \A r \in ToSet(P[c]) \cup held[c] : r \in 0..first - 1
  <2>1. \A r \in RefNumbers : r \in Nat
    BY DEF RefNumbers
  <2>2. \A r \in RefNumbers : (r \in ToSet(F) \/ \E c \in Clients : r \in ToSet(P[c]) \cup held[c])
                                => r < first
    BY DEF Lists, Apart
  <2>. HIDE DEF first, short
  <2>3. first \in Nat
    BY <1>4
  <2>4. \A r \in RefNumbers : r < first => r \in 0..first - 1
    BY <2>1, <2>3
  <2>. QED  BY <1>2, <2>2, <2>4
<1>. HIDE DEF first
<1>6. /\ grown.list \in [RefNumbers -> RefNumbers \cup {ListEnd}]
      /\ grown.head = IF short THEN first ELSE gnttab_free_head
      /\ \A r \in 0..first - 1 : grown.list[r] = gnttab_list[r]
      /\ \E G : /\ Chain(grown.list, grown.head, G)
                /\ ToSet(G) = IF short THEN ToSet(F) \cup Frame[nr_grant_frames + 1] ELSE ToSet(F)
                /\ Len(G) = Len(F) + IF short THEN FrameEntries ELSE 0
  <2>1. CASE short
    <3>1. nr_grant_frames < MaxFrames
      BY <1>1, <1>2, <1>3, <2>1
    <3>2. ToSet(F) \subseteq 0..FrameEntries * nr_grant_frames - 1
      BY <1>5 DEF first
    <3>3. grown = GrowGnttabList(nr_grant_frames, gnttab_list, gnttab_free_head)
      BY <2>1
    <3>. HIDE DEF grown, short
    <3>. QED  BY <2>1, <3>1, <3>2, <3>3, <1>2, Grow DEF first
  <2>2. CASE ~short
    <3>1. grown.list = gnttab_list /\ grown.head = gnttab_free_head
      BY <2>2
    <3>. HIDE DEF grown, short
    <3>. QED  BY <2>2, <3>1, <1>2
  <2>. QED  BY <2>1, <2>2
<1>. HIDE DEF grown, short
<1>7. PICK G : /\ Chain(grown.list, grown.head, G)
               /\ ToSet(G) = IF short THEN ToSet(F) \cup Frame[nr_grant_frames + 1] ELSE ToSet(F)
               /\ Len(G) = Len(F) + IF short THEN FrameEntries ELSE 0
  BY <1>6
<1>8. n \in 1..Len(G) /\ Len(G) \in Nat
  BY <1>2, <1>3, <1>7 DEF short
<1>. DEFINE a == SubSeq(G, 1, n)
            b == SubSeq(G, n + 1, Len(G))
            list2 == [grown.list EXCEPT ![G[n]] = ListEnd]
<1>9. /\ Node(grown.list, grown.head, n - 1) = G[n] /\ G[n] \in RefNumbers
      /\ Chain(list2, grown.head, a) /\ Chain(list2, grown.list[G[n]], b)
      /\ ToSet(a) \cup ToSet(b) = ToSet(G) /\ ToSet(a) \cap ToSet(b) = {}
      /\ Len(a) = n /\ Len(b) = Len(G) - n
  <2>1. grown.list \in [RefNumbers -> RefNumbers \cup {ListEnd}] /\ Chain(grown.list, grown.head, G)
    BY <1>6, <1>7
  <2>2. IsCut(grown.list, grown.head, G, n, SubSeq(G, 1, n), SubSeq(G, n + 1, Len(G)))
    BY <2>1, <1>8, ChainCut
  <2>. QED  BY <2>2 DEF IsCut
<1>. HIDE DEF a, b
<1>10. gnttab_list' = list2 /\ gnttab_free_head' = grown.list[G[n]]
  BY <1>1, <1>9 DEF grown
<1>11. G[n] \in ToSet(G)
  BY <1>7, <1>8, LenProperties DEF Chain, ToSet
<1>12. ToSet(G) \cap UNION {ToSet(P[c]) \cup held[c] : c \in Clients} = {}
  <2>1. ASSUME NEW c \in Clients, NEW r \in ToSet(P[c]) \cup held[c] PROVE r \notin ToSet(G)
    <3>1. r \in 0..first - 1
      BY <1>5
    <3>2. r \notin first..first + FrameEntries - 1
      BY <3>1, <1>3, <1>4
    <3>3. r \notin ToSet(F)
      BY DEF Lists, Apart
    <3>4. ToSet(G) \subseteq ToSet(F) \cup (first..first + FrameEntries - 1)
      BY <1>4, <1>7
    <3>. QED  BY <3>2, <3>3, <3>4
  <2>. QED  BY <2>1
<1>13. \A c \in Clients : Chain(gnttab_list', private_head[c], P[c])
  <2>1. ASSUME NEW c \in Clients PROVE Chain(list2, private_head[c], P[c])
    <3>1. \A r \in ToSet(P[c]) : r \in 0..first - 1 /\ r # G[n] /\ r \in RefNumbers
      BY <1>2, <1>5, <1>11, <1>12
    <3>2. \A r \in ToSet(P[c]) : list2[r] = gnttab_list[r]
      BY <3>1, <1>6
    <3>. HIDE DEF list2
    <3>. QED  BY <3>2, <1>2, ChainElsewhere
  <2>. QED  BY <1>10, <2>1
<1>14. \A r \in ToSet(G) : r < FrameEntries * frames
  <2>. DEFINE top == FrameEntries * frames
  <2>1. first \in Nat /\ FrameEntries \in Nat /\ top = IF short THEN first + FrameEntries ELSE first
    BY <1>3, <1>4
  <2>. HIDE DEF top
  <2>2. \A r \in 0..first - 1 : r < top
    BY <2>1
  <2>3. short => \A r \in first..first + FrameEntries - 1 : r < top
    BY <2>1
  <2>4. \A r \in ToSet(G) : r < top
    <3>1. ASSUME NEW r \in ToSet(G), r \notin ToSet(F) PROVE r < top
      BY <3>1, <1>4, <1>7, <2>3
    <3>. QED  BY <3>1, <1>5, <2>2
  <2>. QED  BY <2>4 DEF top
<1>15. \A r \in RefNumbers : r < first => r < FrameEntries * frames
  <2>. DEFINE top == FrameEntries * frames
  <2>1. first \in Nat /\ FrameEntries \in Nat /\ top = IF short THEN first + FrameEntries ELSE first
    BY <1>3, <1>4
  <2>. HIDE DEF top
  <2>2. \A r \in RefNumbers : r < first => r < top
    BY <2>1 DEF RefNumbers
  <2>. QED  BY <2>2 DEF top
<1>21. FirstFrames(nr_grant_frames) \subseteq FirstFrames(frames)
  <2>1. 1..nr_grant_frames \subseteq 1..frames
    BY <1>2, <1>3 DEF frames
  <2>. QED  BY <2>1 DEF FirstFrames
<1>22. \A r \in ToSet(G) : r \in FirstFrames(frames)
  <2>1. \A r \in ToSet(F) : r \in FirstFrames(frames)
    BY <1>2, <1>21 DEF Lists, Apart
  <2>2. short => Frame[nr_grant_frames + 1] \subseteq FirstFrames(frames)
    <3>1. short => frames = nr_grant_frames + 1 /\ frames \in 1..frames
      BY <1>2, <1>3 DEF frames
    <3>. QED  BY <3>1 DEF FirstFrames
  <2>. QED  BY <2>1, <2>2, <1>7
<1>16. gnttab_free_count' = Len(b) /\ Len(b) = Pool!CountFor(n) - n
  BY <1>1, <1>2, <1>3, <1>7, <1>8, <1>9 DEF short, Pool!CountFor, Pool!Short
<1>17. ToSet(G) = Pool!FreeFor(n)
  <2>1. ListFrom(gnttab_free_head) = ToSet(F)
    BY Mapped DEF Lists, FreeSet
  <2>. QED  BY <1>7, <2>1 DEF short, Pool!FreeFor, Pool!Short
<1>18. Pool!CanGet(n) /\ nr_grant_frames' = Pool!FramesFor(n) /\ nr_grant_frames' = frames
  BY <1>1, <1>2 DEF frames, short, Pool!CanGet, Pool!FramesFor, Pool!Short
<1>19. list2 \in [RefNumbers -> RefNumbers \cup {ListEnd}]
  BY <1>6
<1>. HIDE DEF list2, tail
<1>20. Got(F, P, n, a, b)
  BY <1>4, <1>6, <1>9, <1>10, <1>12, <1>13, <1>14, <1>15, <1>16, <1>17, <1>18, <1>19,
     <1>21, <1>22 DEF Got, first, short
<1>. QED  BY <1>20

--------------------------------------------------------------------------------
(* Every operation keeps the lists, and does to their references what      *)
(* GrantPool says. *)
FreeNow == ListFrom(gnttab_free_head)
PrivateNow == [c \in Clients |-> ListFrom(private_head[c])]

(* The sizes GrantPool speaks of are those of GrantList. *)
LEMMA SameCardinality ==
  ASSUME NEW S PROVE Pool!Cardinality(S) = Cardinality(S)
BY DEF Cardinality, Pool!Cardinality

LEMMA SetsNow ==
  ASSUME NEW F, NEW P, Chained(F, P)
  PROVE  FreeNow = ToSet(F) /\ PrivateNow = [c \in Clients |-> ToSet(P[c])]
BY Mapped DEF FreeSet, PrivateSets, FreeNow, PrivateNow

LEMMA SetsNext ==
  ASSUME NEW F, NEW P, Chained(F, P)'
  PROVE  FreeNow' = ToSet(F) /\ PrivateNow' = [c \in Clients |-> ToSet(P[c])]
BY MappedNext DEF FreeSet, PrivateSets, FreeNow, PrivateNow

(* The heads of chains are references of the table. *)
LEMMA TypedNext ==
  ASSUME gnttab_list' \in [RefNumbers -> RefNumbers \cup {ListEnd}],
         nr_grant_frames' \in 1..MaxFrames, held' \in [Clients -> SUBSET RefNumbers],
         private_head' = [c \in Clients |-> private_head'[c]],
         NEW F, NEW P, Chained(F, P)'
  PROVE  TypeOK'
<1>1. gnttab_free_head' \in RefNumbers \cup {ListEnd} /\ gnttab_free_count' \in Nat
  BY ChainTyped DEF Chained
<1>2. \A c \in Clients : private_head'[c] \in RefNumbers \cup {ListEnd}
  BY ChainTyped DEF Chained
<1>3. private_head' \in [Clients -> RefNumbers \cup {ListEnd}]
  BY <1>2
<1>. QED  BY <1>1, <1>3 DEF TypeOK

LEMMA AllocStep ==
  ASSUME TypeOK, NEW F, NEW P, Lists(F, P), NEW c \in Clients, NEW n \in 1..MaxRequest,
         AllocGrantReferences(c, n)
  PROVE  ListInv' /\ Pool!AllocGrantReferences(c, n)
<1>1. /\ private_head[c] = ListEnd /\ GetFreeEntries(n) /\ held' = held
      /\ private_head' = [private_head EXCEPT ![c] =
            IF gnttab_free_count < n THEN FrameEntries * nr_grant_frames ELSE gnttab_free_head]
  BY DEF AllocGrantReferences
<1>2. PICK a, b : Got(F, P, n, a, b)
  BY <1>1, GetFree
<1>. DEFINE P2 == [P EXCEPT ![c] = a]
<1>3. /\ a \in Seq(RefNumbers) /\ Once(a) /\ P \in [Clients -> Seq(RefNumbers)] /\ Len(a) = n
      /\ private_head \in [Clients -> RefNumbers \cup {ListEnd}]
      /\ held \in [Clients -> SUBSET RefNumbers] /\ ToSet(b) \subseteq RefNumbers
      /\ ToSet(a) \subseteq RefNumbers
  BY <1>2, ChainTyped DEF Got, Chain, Lists, Chained, TypeOK
<1>4. Chained(b, P2)'
  <2>1. P2 \in [Clients -> Seq(RefNumbers)]
    BY <1>3
  <2>2. ASSUME NEW d \in Clients PROVE Chain(gnttab_list', private_head'[d], P2[d])
    <3>1. CASE d = c
      BY <3>1, <1>1, <1>2, <1>3 DEF Got
    <3>2. CASE d # c
      BY <3>2, <1>1, <1>2, <1>3 DEF Got
    <3>. QED  BY <3>1, <3>2
  <2>. HIDE DEF P2
  <2>. QED  BY <2>1, <2>2, <1>2 DEF Chained, Got
<1>5. ToSet(P[c]) = {}
  BY <1>1, ChainTyped DEF Lists, Chained
<1>6. \A d \in Clients : ToSet(P2[d]) = IF d = c THEN ToSet(a) ELSE ToSet(P[d])
  BY <1>3
<1>7. Apart(b, P2)'
  <2>1. /\ ToSet(a) \cap ToSet(b) = {}
        /\ \A d \in Clients : (ToSet(a) \cup ToSet(b)) \cap (ToSet(P[d]) \cup held[d]) = {}
    BY <1>2 DEF Got
  <2>2. \A d, e \in Clients :
          /\ ToSet(P2[d]) \cap (ToSet(b) \cup held[e]) = {}
          /\ d # e => ToSet(P2[d]) \cap ToSet(P2[e]) = {} /\ held[d] \cap held[e] = {}
    BY <1>6, <2>1 DEF Lists, Apart
  <2>3. \A d \in Clients : held[d] \cap ToSet(b) = {}
    BY <2>1
  <2>4. ASSUME NEW r \in RefNumbers,
               r \in ToSet(b) \/ \E d \in Clients : r \in ToSet(P2[d]) \cup held[d]
        PROVE  r \in FirstFrames(nr_grant_frames') /\ r < FrameEntries * nr_grant_frames'
    <3>1. CASE r \in ToSet(a) \cup ToSet(b)
      BY <3>1, <1>2 DEF Got
    <3>2. CASE \E d \in Clients : r \in ToSet(P[d]) \cup held[d]
      <4>1. r \in FirstFrames(nr_grant_frames) /\ r < FrameEntries * nr_grant_frames
        BY <3>2 DEF Lists, Apart
      <4>. QED  BY <4>1, <1>2 DEF Got
    <3>. QED  BY <2>4, <3>1, <3>2, <1>6
  <2>. HIDE DEF P2
  <2>. QED  BY <2>2, <2>3, <2>4, <1>1 DEF Apart
<1>8. ListInv'
  <2>1. private_head' = [d \in Clients |-> private_head'[d]]
    BY <1>1, <1>3
  <2>2. TypeOK'
    BY <2>1, <1>1, <1>2, <1>3, <1>4, TypedNext DEF Got
  <2>. HIDE DEF P2
  <2>. QED  BY <2>2, <1>4, <1>7 DEF ListInv, Lists
<1>9. Pool!AllocGrantReferences(c, n)
  <2>1. PrivateNow = [d \in Clients |-> ToSet(P[d])]
    BY SetsNow DEF Lists
  <2>2. FreeNow' = ToSet(b) /\ PrivateNow' = [d \in Clients |-> ToSet(P2[d])]
    BY <1>4, SetsNext
  <2>3. PrivateNow[c] = {}
    BY <2>1, <1>5
  <2>4. PrivateNow' = [PrivateNow EXCEPT ![c] = ToSet(a)]
    BY <2>1, <2>2, <1>6
  <2>5. Pool!CanGet(n) /\ ToSet(a) \in SUBSET Pool!FreeFor(n)
    BY <1>2 DEF Got
  <2>6. Pool!GetFreeEntries(n, ToSet(a))
    <3>1. FreeNow' = Pool!FreeFor(n) \ ToSet(a)
      BY <2>2, <1>2 DEF Got
    <3>2. Cardinality(ToSet(a)) = n
      BY <1>3, OnceCounts
    <3>3. gnttab_free_count' = Pool!CountFor(n) - n /\ nr_grant_frames' = Pool!FramesFor(n)
      BY <1>2 DEF Got
    <3>4. ToSet(a) \subseteq Pool!FreeFor(n)
      BY <2>5
    <3>. QED  BY <2>5, <3>1, <3>2, <3>3, <3>4, SameCardinality DEF Pool!GetFreeEntries, FreeNow
  <2>. QED  BY <2>3, <2>4, <2>5, <2>6, <1>1 DEF Pool!AllocGrantReferences, PrivateNow
<1>. QED  BY <1>8, <1>9

(* A reference that is on a list or held is one of GrantPool's. *)
LEMMA InRefs ==
  ASSUME NEW n \in 1..MaxFrames, NEW r, r \in FirstFrames(n) PROVE r \in Pool!Refs
<1>1. MaxFrames \in Nat /\ 1..n \subseteq 1..MaxFrames
  BY ListAssumption
<1>. QED  BY <1>1 DEF FirstFrames, Pool!Refs

LEMMA GetStep ==
  ASSUME TypeOK, NEW F, NEW P, Lists(F, P), NEW c \in Clients, GetFreeEntry(c)
  PROVE  ListInv' /\ \E r \in Pool!Refs : Pool!GetFreeEntry(c, r)
<1>. DEFINE r == NextFreeEntry
<1>1. /\ GetFreeEntries(1) /\ private_head' = private_head
      /\ held' = [held EXCEPT ![c] = @ \cup {r}] /\ 1 \in 1..MaxRequest
  BY ListAssumption DEF GetFreeEntry
<1>2. PICK a, b : Got(F, P, 1, a, b)
  BY <1>1, GetFree
<1>3. /\ a \in Seq(RefNumbers) /\ P \in [Clients -> Seq(RefNumbers)] /\ Len(a) = 1
      /\ private_head \in [Clients -> RefNumbers \cup {ListEnd}]
      /\ held \in [Clients -> SUBSET RefNumbers] /\ ToSet(a) \subseteq RefNumbers
  BY <1>2, ChainTyped DEF Got, Chain, Lists, Chained, TypeOK
<1>4. ToSet(a) = {r} /\ r \in RefNumbers
  <2>1. Chain(gnttab_list', r, a)
    BY <1>2 DEF Got, NextFreeEntry
  <2>2. DOMAIN a = 1..1 /\ 1..1 = {1}
    BY <1>3, LenProperties
  <2>3. r = a[1]
    BY <2>1, <2>2, <1>3 DEF Chain, At
  <2>. QED  BY <2>2, <2>3, <1>3 DEF ToSet
<1>. HIDE DEF r
<1>5. held' \in [Clients -> SUBSET RefNumbers]
      /\ \A d \in Clients : held'[d] = IF d = c THEN held[c] \cup {r} ELSE held[d]
  BY <1>1, <1>3, <1>4
<1>6. Chained(b, P)'
  BY <1>1, <1>2, <1>3 DEF Chained, Got
<1>7. /\ r \notin ToSet(b) /\ \A d \in Clients : r \notin ToSet(P[d]) \cup held[d]
      /\ \A d \in Clients : ToSet(b) \cap (ToSet(P[d]) \cup held[d]) = {}
      /\ \A x \in ToSet(b) \cup {r} :
            x \in FirstFrames(nr_grant_frames') /\ x < FrameEntries * nr_grant_frames'
  BY <1>2, <1>4 DEF Got
<1>8. Apart(b, P)'
  <2>1. \A d, e \in Clients :
          /\ ToSet(P[d]) \cap (ToSet(b) \cup held'[e]) = {}
          /\ d # e => ToSet(P[d]) \cap ToSet(P[e]) = {} /\ held'[d] \cap held'[e] = {}
    BY <1>5, <1>7 DEF Lists, Apart
  <2>2. \A d \in Clients : held'[d] \cap ToSet(b) = {}
    BY <1>5, <1>7
  <2>3. ASSUME NEW x \in RefNumbers,
               x \in ToSet(b) \/ \E d \in Clients : x \in ToSet(P[d]) \cup held'[d]
        PROVE  x \in FirstFrames(nr_grant_frames') /\ x < FrameEntries * nr_grant_frames'
    <3>1. CASE x \in ToSet(b) \cup {r}
      BY <3>1, <1>7
    <3>2. CASE \E d \in Clients : x \in ToSet(P[d]) \cup held[d]
      <4>1. x \in FirstFrames(nr_grant_frames) /\ x < FrameEntries * nr_grant_frames
        BY <3>2 DEF Lists, Apart
      <4>. QED  BY <4>1, <1>2 DEF Got
    <3>. QED  BY <2>3, <3>1, <3>2, <1>5
  <2>. QED  BY <2>1, <2>2, <2>3 DEF Apart
<1>9. ListInv'
  <2>1. private_head' = [d \in Clients |-> private_head'[d]]
    BY <1>1, <1>3
  <2>2. TypeOK'
    BY <2>1, <1>2, <1>5, <1>6, TypedNext DEF Got
  <2>. QED  BY <2>2, <1>6, <1>8 DEF ListInv, Lists
<1>10. Pool!GetFreeEntry(c, r)
  <2>1. FreeNow' = ToSet(b) /\ PrivateNow' = PrivateNow
    BY <1>6, SetsNow, SetsNext DEF Lists
  <2>2. FreeNow' = Pool!FreeFor(1) \ {r} /\ {r} \subseteq Pool!FreeFor(1) /\ Pool!CanGet(1)
    BY <2>1, <1>2, <1>4 DEF Got
  <2>3. gnttab_free_count' = Pool!CountFor(1) - 1 /\ nr_grant_frames' = Pool!FramesFor(1)
    BY <1>2 DEF Got
  <2>4. Cardinality({r}) = 1
    BY FS_Singleton
  <2>. QED  BY <2>1, <2>2, <2>3, <2>4, <1>1, SameCardinality
            DEF Pool!GetFreeEntry, Pool!GetFreeEntries, FreeNow, PrivateNow
<1>11. r \in Pool!Refs
  BY <1>2, <1>7, InRefs DEF Got
<1>. QED  BY <1>9, <1>10, <1>11

LEMMA ClaimStep ==
  ASSUME TypeOK, NEW F, NEW P, Lists(F, P), NEW c \in Clients, ClaimGrantReference(c)
  PROVE  ListInv' /\ \E r \in Pool!Refs : Pool!ClaimGrantReference(c, r)
<1>. DEFINE g == private_head[c]
            P2 == [P EXCEPT ![c] = Tail(P[c])]
<1>1. /\ g # ListEnd
      /\ private_head' = [private_head EXCEPT ![c] = gnttab_list[g]]
      /\ held' = [held EXCEPT ![c] = @ \cup {g}]
      /\ nr_grant_frames' = nr_grant_frames /\ gnttab_list' = gnttab_list
      /\ gnttab_free_head' = gnttab_free_head /\ gnttab_free_count' = gnttab_free_count
  BY DEF ClaimGrantReference
<1>2. /\ \A d \in Clients : Chain(gnttab_list, private_head[d], P[d])
      /\ P \in [Clients -> Seq(RefNumbers)] /\ Chain(gnttab_list, gnttab_free_head, F)
      /\ gnttab_list \in [RefNumbers -> RefNumbers \cup {ListEnd}]
      /\ private_head \in [Clients -> RefNumbers \cup {ListEnd}] /\ nr_grant_frames \in 1..MaxFrames
      /\ held \in [Clients -> SUBSET RefNumbers] /\ gnttab_free_count = Len(F)
  BY DEF Lists, Chained, TypeOK
<1>3. Chain(gnttab_list, gnttab_list[g], Tail(P[c])) /\ g \in ToSet(P[c])
      /\ ToSet(Tail(P[c])) = ToSet(P[c]) \ {g}
  BY <1>1, <1>2, ChainPop
<1>4. Tail(P[c]) \in Seq(RefNumbers) /\ g \in RefNumbers
  BY <1>1, <1>2, <1>3 DEF Chain
<1>. HIDE DEF g
<1>5. P2 \in [Clients -> Seq(RefNumbers)]
      /\ \A d \in Clients : P2[d] = IF d = c THEN Tail(P[c]) ELSE P[d]
  BY <1>2, <1>4
<1>. HIDE DEF P2
<1>6. \A d \in Clients : /\ ToSet(P2[d]) = IF d = c THEN ToSet(P[c]) \ {g} ELSE ToSet(P[d])
                         /\ held'[d] = IF d = c THEN held[c] \cup {g} ELSE held[d]
  BY <1>1, <1>2, <1>3, <1>5
<1>7. Chained(F, P2)'
  <2>1. \A d \in Clients : Chain(gnttab_list', private_head'[d], P2[d])
    BY <1>1, <1>2, <1>3, <1>5
  <2>. QED  BY <2>1, <1>1, <1>2, <1>5 DEF Chained
<1>8. Apart(F, P2)'
  <2>1. \A d, e \in Clients :
          /\ ToSet(P2[d]) \cap (ToSet(F) \cup held'[e]) = {}
          /\ d # e => ToSet(P2[d]) \cap ToSet(P2[e]) = {} /\ held'[d] \cap held'[e] = {}
    BY <1>3, <1>6 DEF Lists, Apart
  <2>2. \A d \in Clients : held'[d] \cap ToSet(F) = {}
    BY <1>3, <1>6 DEF Lists, Apart
  <2>3. \A x \in RefNumbers :
           (x \in ToSet(F) \/ \E d \in Clients : x \in ToSet(P2[d]) \cup held'[d])
             => (x \in ToSet(F) \/ \E d \in Clients : x \in ToSet(P[d]) \cup held[d])
    BY <1>3, <1>6
  <2>. QED  BY <2>1, <2>2, <2>3, <1>1 DEF Lists, Apart
<1>9. ListInv'
  <2>1. private_head' = [d \in Clients |-> private_head'[d]]
    BY <1>1, <1>2
  <2>2. held' \in [Clients -> SUBSET RefNumbers]
    BY <1>1, <1>2, <1>4
  <2>3. TypeOK'
    BY <2>1, <2>2, <1>1, <1>2, <1>7, TypedNext
  <2>. QED  BY <2>3, <1>7, <1>8 DEF ListInv, Lists
<1>10. Pool!ClaimGrantReference(c, g)
  <2>1. FreeNow = ToSet(F) /\ PrivateNow = [d \in Clients |-> ToSet(P[d])]
    BY SetsNow DEF Lists
  <2>2. FreeNow' = ToSet(F) /\ PrivateNow' = [d \in Clients |-> ToSet(P2[d])]
    BY <1>7, SetsNext
  <2>3. g \in PrivateNow[c] /\ PrivateNow' = [PrivateNow EXCEPT ![c] = @ \ {g}]
    BY <2>1, <2>2, <1>3, <1>6
  <2>. QED  BY <2>1, <2>2, <2>3, <1>1 DEF Pool!ClaimGrantReference, FreeNow, PrivateNow
<1>11. g \in Pool!Refs
  BY <1>2, <1>3, <1>4, InRefs DEF Lists, Apart
<1>. QED  BY <1>9, <1>10, <1>11

(* What a step that maps no frame starts from. *)
LEMMA Before ==
  ASSUME TypeOK, NEW F, NEW P, Lists(F, P)
  PROVE  /\ \A d \in Clients : Chain(gnttab_list, private_head[d], P[d])
         /\ P \in [Clients -> Seq(RefNumbers)] /\ Chain(gnttab_list, gnttab_free_head, F)
         /\ gnttab_list \in [RefNumbers -> RefNumbers \cup {ListEnd}]
         /\ private_head \in [Clients -> RefNumbers \cup {ListEnd}]
         /\ gnttab_free_head \in RefNumbers \cup {ListEnd}
         /\ nr_grant_frames \in 1..MaxFrames
         /\ held \in [Clients -> SUBSET RefNumbers] /\ gnttab_free_count = Len(F)
BY DEF Lists, Chained, TypeOK

LEMMA ReleaseStep ==
  ASSUME TypeOK, NEW F, NEW P, Lists(F, P), NEW c \in Clients, NEW r,
         ReleaseGrantReference(c, r)
  PROVE  ListInv' /\ r \in Pool!Refs /\ Pool!ReleaseGrantReference(c, r)
<1>. DEFINE P2 == [P EXCEPT ![c] = <<r>> \o P[c]]
<1>1. /\ r \in held[c]
      /\ gnttab_list' = [gnttab_list EXCEPT ![r] = private_head[c]]
      /\ private_head' = [private_head EXCEPT ![c] = r]
      /\ held' = [held EXCEPT ![c] = @ \ {r}]
      /\ nr_grant_frames' = nr_grant_frames
      /\ gnttab_free_head' = gnttab_free_head /\ gnttab_free_count' = gnttab_free_count
  BY DEF ReleaseGrantReference
<1>2. /\ \A d \in Clients : Chain(gnttab_list, private_head[d], P[d])
      /\ P \in [Clients -> Seq(RefNumbers)] /\ Chain(gnttab_list, gnttab_free_head, F)
      /\ gnttab_list \in [RefNumbers -> RefNumbers \cup {ListEnd}]
      /\ private_head \in [Clients -> RefNumbers \cup {ListEnd}] /\ nr_grant_frames \in 1..MaxFrames
      /\ held \in [Clients -> SUBSET RefNumbers] /\ gnttab_free_count = Len(F)
  BY Before
<1>3. /\ r \in RefNumbers /\ r \notin ToSet(F)
      /\ \A d \in Clients : r \notin ToSet(P[d]) /\ (d # c => r \notin held[d])
  BY <1>1, <1>2 DEF Lists, Apart
<1>4. Chain(gnttab_list', r, <<r>> \o P[c]) /\ ToSet(<<r>> \o P[c]) = ToSet(P[c]) \cup {r}
  <2>1. IsPush(gnttab_list, private_head[c], P[c], r, <<r>> \o P[c])
    BY <1>2, <1>3, ChainPush
  <2>. QED  BY <2>1, <1>1 DEF IsPush
<1>5. <<r>> \o P[c] \in Seq(RefNumbers)
  BY <1>4 DEF Chain
<1>6. P2 \in [Clients -> Seq(RefNumbers)]
      /\ \A d \in Clients : P2[d] = IF d = c THEN <<r>> \o P[c] ELSE P[d]
  BY <1>2, <1>5
<1>. HIDE DEF P2
<1>7. \A d \in Clients : /\ ToSet(P2[d]) = IF d = c THEN ToSet(P[c]) \cup {r} ELSE ToSet(P[d])
                         /\ held'[d] = IF d = c THEN held[c] \ {r} ELSE held[d]
  BY <1>1, <1>2, <1>4, <1>6
<1>8. Chained(F, P2)'
  <2>1. \A x \in RefNumbers : x # r => gnttab_list'[x] = gnttab_list[x]
    BY <1>1, <1>2
  <2>2. ASSUME NEW d \in Clients PROVE Chain(gnttab_list', private_head'[d], P2[d])
    <3>1. CASE d = c
      BY <3>1, <1>1, <1>2, <1>4, <1>6
    <3>2. CASE d # c
      <4>1. \A x \in ToSet(P[d]) : gnttab_list'[x] = gnttab_list[x]
        BY <2>1, <1>2, <1>3, ChainTyped
      <4>2. Chain(gnttab_list', private_head[d], P[d])
        BY <4>1, <1>2, ChainElsewhere
      <4>. QED  BY <3>2, <4>2, <1>1, <1>2, <1>6
    <3>. QED  BY <3>1, <3>2
  <2>3. \A x \in ToSet(F) : gnttab_list'[x] = gnttab_list[x]
    BY <2>1, <1>2, <1>3, ChainTyped
  <2>4. Chain(gnttab_list', gnttab_free_head, F)
    BY <2>3, <1>2, ChainElsewhere
  <2>. QED  BY <2>2, <2>4, <1>1, <1>2, <1>6 DEF Chained
<1>9. Apart(F, P2)'
  <2>1. \A d, e \in Clients :
          /\ ToSet(P2[d]) \cap (ToSet(F) \cup held'[e]) = {}
          /\ d # e => ToSet(P2[d]) \cap ToSet(P2[e]) = {} /\ held'[d] \cap held'[e] = {}
    BY <1>3, <1>7 DEF Lists, Apart
  <2>2. \A d \in Clients : held'[d] \cap ToSet(F) = {}
    BY <1>7 DEF Lists, Apart
  <2>3. \A x \in RefNumbers :
           (x \in ToSet(F) \/ \E d \in Clients : x \in ToSet(P2[d]) \cup held'[d])
             => (x \in ToSet(F) \/ \E d \in Clients : x \in ToSet(P[d]) \cup held[d])
    BY <1>1, <1>7
  <2>. QED  BY <2>1, <2>2, <2>3, <1>1 DEF Lists, Apart
<1>10. ListInv'
  <2>1. private_head' = [d \in Clients |-> private_head'[d]]
    BY <1>1, <1>2
  <2>2. held' \in [Clients -> SUBSET RefNumbers]
    BY <1>1, <1>2
  <2>3. gnttab_list' \in [RefNumbers -> RefNumbers \cup {ListEnd}]
    BY <1>1, <1>2
  <2>4. TypeOK'
    BY <2>1, <2>2, <2>3, <1>1, <1>2, <1>8, TypedNext
  <2>. QED  BY <2>4, <1>8, <1>9 DEF ListInv, Lists
<1>11. Pool!ReleaseGrantReference(c, r)
  <2>1. FreeNow = ToSet(F) /\ PrivateNow = [d \in Clients |-> ToSet(P[d])]
    BY SetsNow DEF Lists
  <2>2. FreeNow' = ToSet(F) /\ PrivateNow' = [d \in Clients |-> ToSet(P2[d])]
    BY <1>8, SetsNext
  <2>3. PrivateNow' = [PrivateNow EXCEPT ![c] = @ \cup {r}]
    BY <2>1, <2>2, <1>7
  <2>. QED  BY <2>1, <2>2, <2>3, <1>1 DEF Pool!ReleaseGrantReference, FreeNow, PrivateNow
<1>12. r \in Pool!Refs
  BY <1>1, <1>2, <1>3, InRefs DEF Lists, Apart
<1>. QED  BY <1>10, <1>11, <1>12

LEMMA PutStep ==
  ASSUME TypeOK, NEW F, NEW P, Lists(F, P), NEW c \in Clients, NEW r, PutFreeEntry(c, r)
  PROVE  ListInv' /\ r \in Pool!Refs /\ Pool!FreeGrantReference(c, r)
<1>. DEFINE F2 == <<r>> \o F
<1>1. /\ r \in held[c]
      /\ gnttab_list' = [gnttab_list EXCEPT ![r] = gnttab_free_head]
      /\ gnttab_free_head' = r /\ gnttab_free_count' = gnttab_free_count + 1
      /\ held' = [held EXCEPT ![c] = @ \ {r}]
      /\ nr_grant_frames' = nr_grant_frames /\ private_head' = private_head
  BY DEF PutFreeEntry
<1>2. /\ \A d \in Clients : Chain(gnttab_list, private_head[d], P[d])
      /\ P \in [Clients -> Seq(RefNumbers)] /\ Chain(gnttab_list, gnttab_free_head, F)
      /\ gnttab_list \in [RefNumbers -> RefNumbers \cup {ListEnd}]
      /\ private_head \in [Clients -> RefNumbers \cup {ListEnd}] /\ nr_grant_frames \in 1..MaxFrames
      /\ held \in [Clients -> SUBSET RefNumbers] /\ gnttab_free_count = Len(F)
      /\ gnttab_free_head \in RefNumbers \cup {ListEnd}
  BY Before
<1>3. /\ r \in RefNumbers /\ r \notin ToSet(F)
      /\ \A d \in Clients : r \notin ToSet(P[d]) /\ (d # c => r \notin held[d])
  BY <1>1, <1>2 DEF Lists, Apart
<1>4. /\ Chain(gnttab_list', r, F2) /\ ToSet(F2) = ToSet(F) \cup {r} /\ Len(F2) = Len(F) + 1
  <2>1. IsPush(gnttab_list, gnttab_free_head, F, r, <<r>> \o F)
    BY <1>2, <1>3, ChainPush
  <2>. QED  BY <2>1, <1>1 DEF IsPush
<1>. HIDE DEF F2
<1>5. held' \in [Clients -> SUBSET RefNumbers]
      /\ \A d \in Clients : held'[d] = IF d = c THEN held[c] \ {r} ELSE held[d]
  BY <1>1, <1>2
<1>6. Chained(F2, P)'
  <2>1. \A x \in RefNumbers : x # r => gnttab_list'[x] = gnttab_list[x]
    BY <1>1, <1>2
  <2>2. ASSUME NEW d \in Clients PROVE Chain(gnttab_list', private_head[d], P[d])
    <3>1. \A x \in ToSet(P[d]) : gnttab_list'[x] = gnttab_list[x]
      BY <2>1, <1>2, <1>3, ChainTyped
    <3>. QED  BY <3>1, <1>2, ChainElsewhere
  <2>. QED  BY <2>2, <1>1, <1>2, <1>4 DEF Chained
<1>7. Apart(F2, P)'
  <2>1. \A d, e \in Clients :
          /\ ToSet(P[d]) \cap (ToSet(F2) \cup held'[e]) = {}
          /\ d # e => ToSet(P[d]) \cap ToSet(P[e]) = {} /\ held'[d] \cap held'[e] = {}
    BY <1>3, <1>4, <1>5 DEF Lists, Apart
  <2>2. \A d \in Clients : held'[d] \cap ToSet(F2) = {}
    BY <1>3, <1>4, <1>5 DEF Lists, Apart
  <2>3. \A x \in RefNumbers :
           (x \in ToSet(F2) \/ \E d \in Clients : x \in ToSet(P[d]) \cup held'[d])
             => (x \in ToSet(F) \/ \E d \in Clients : x \in ToSet(P[d]) \cup held[d])
    BY <1>1, <1>4, <1>5
  <2>. QED  BY <2>1, <2>2, <2>3, <1>1 DEF Lists, Apart
<1>8. ListInv'
  <2>1. private_head' = [d \in Clients |-> private_head'[d]]
    BY <1>1, <1>2
  <2>2. gnttab_list' \in [RefNumbers -> RefNumbers \cup {ListEnd}]
    BY <1>1, <1>2
  <2>3. TypeOK'
    BY <2>1, <2>2, <1>1, <1>2, <1>5, <1>6, TypedNext
  <2>. QED  BY <2>3, <1>6, <1>7 DEF ListInv, Lists
<1>9. Pool!FreeGrantReference(c, r)
  <2>1. FreeNow = ToSet(F) /\ FreeNow' = ToSet(F2) /\ PrivateNow' = PrivateNow
    BY <1>6, SetsNow, SetsNext DEF Lists
  <2>2. FreeNow' = FreeNow \cup {r} /\ Cardinality({r}) = 1
    BY <2>1, <1>4, FS_Singleton
  <2>. QED  BY <2>1, <2>2, <1>1, SameCardinality
            DEF Pool!FreeGrantReference, Pool!PutFreeEntries, FreeNow, PrivateNow
<1>10. r \in Pool!Refs
  BY <1>1, <1>2, <1>3, InRefs DEF Lists, Apart
<1>. QED  BY <1>8, <1>9, <1>10

LEMMA FreeStep ==
  ASSUME TypeOK, NEW F, NEW P, Lists(F, P), NEW c \in Clients, FreeGrantReferences(c)
  PROVE  ListInv' /\ Pool!FreeGrantReferences(c)
<1>. DEFINE head  == private_head[c]
            count == Cardinality(ListFrom(head))
            tail  == Node(gnttab_list, head, count - 1)
            s     == P[c]
            F2    == s \o F
            P2    == [P EXCEPT ![c] = <<>>]
<1>1. /\ head # ListEnd
      /\ gnttab_list' = [gnttab_list EXCEPT ![tail] = gnttab_free_head]
      /\ gnttab_free_head' = head /\ gnttab_free_count' = gnttab_free_count + count
      /\ private_head' = [private_head EXCEPT ![c] = ListEnd]
      /\ nr_grant_frames' = nr_grant_frames /\ held' = held
  BY DEF FreeGrantReferences
<1>2. /\ \A d \in Clients : Chain(gnttab_list, private_head[d], P[d])
      /\ P \in [Clients -> Seq(RefNumbers)] /\ Chain(gnttab_list, gnttab_free_head, F)
      /\ gnttab_list \in [RefNumbers -> RefNumbers \cup {ListEnd}]
      /\ private_head \in [Clients -> RefNumbers \cup {ListEnd}] /\ nr_grant_frames \in 1..MaxFrames
      /\ held \in [Clients -> SUBSET RefNumbers] /\ gnttab_free_count = Len(F)
      /\ gnttab_free_head \in RefNumbers \cup {ListEnd}
  BY Before
<1>. HIDE DEF head, s
<1>3. /\ Chain(gnttab_list, head, s) /\ s # <<>> /\ ToSet(s) \cap ToSet(F) = {}
      /\ Len(s) \in Nat \ {0} /\ s \in Seq(RefNumbers) /\ ToSet(s) \subseteq RefNumbers
  <2>1. Chain(gnttab_list, head, s) /\ ToSet(s) \cap ToSet(F) = {}
    BY <1>2 DEF head, s, Lists, Apart
  <2>. QED  BY <2>1, <1>1, ChainTyped, ChainPop
<1>4. count = Len(s)
  BY <1>3, ListInChain DEF ListFrom, ListIn
<1>5. tail = s[Len(s)] /\ tail \in ToSet(s)
  <2>1. Len(s) - 1 \in Nat /\ (Len(s) - 1) + 1 = Len(s) /\ Len(s) \in 1..Len(s)
    BY <1>3
  <2>2. Node(gnttab_list, head, Len(s) - 1) = At(s, (Len(s) - 1) + 1)
    BY <2>1, <1>3, NodeAt
  <2>. QED  BY <2>1, <2>2, <1>3, <1>4, LenProperties DEF At, ToSet
<1>. HIDE DEF tail, count
<1>6. /\ Chain(gnttab_list', head, F2) /\ ToSet(F2) = ToSet(s) \cup ToSet(F)
      /\ Len(F2) = Len(s) + Len(F) /\ Len(F) \in Nat
  <2>1. IsJoin(gnttab_list, head, s, gnttab_free_head, F, s \o F)
    BY <1>2, <1>3, ChainJoin
  <2>. QED  BY <2>1, <1>1, <1>5 DEF IsJoin
<1>7. P2 \in [Clients -> Seq(RefNumbers)]
      /\ \A d \in Clients : P2[d] = IF d = c THEN <<>> ELSE P[d]
  BY <1>2, EmptySeq
<1>. HIDE DEF P2, F2
<1>8. \A d \in Clients : ToSet(P2[d]) = IF d = c THEN {} ELSE ToSet(P[d])
  <2>1. ToSet(<<>>) = {}
    BY DEF ToSet
  <2>. QED  BY <2>1, <1>7
<1>9. Chained(F2, P2)'
  <2>1. \A x \in RefNumbers : x # tail => gnttab_list'[x] = gnttab_list[x]
    BY <1>1, <1>2
  <2>2. ASSUME NEW d \in Clients PROVE Chain(gnttab_list', private_head'[d], P2[d])
    <3>1. CASE d = c
      <4>1. Chain(gnttab_list', ListEnd, <<>>)
        BY EmptySeq DEF Chain, Once, At
      <4>. QED  BY <3>1, <4>1, <1>1, <1>2, <1>7
    <3>2. CASE d # c
      <4>1. tail \notin ToSet(P[d])
        BY <3>2, <1>5 DEF s, Lists, Apart
      <4>2. \A x \in ToSet(P[d]) : gnttab_list'[x] = gnttab_list[x]
        BY <2>1, <4>1, <1>2, ChainTyped
      <4>3. Chain(gnttab_list', private_head[d], P[d])
        BY <4>2, <1>2, ChainElsewhere
      <4>. QED  BY <3>2, <4>3, <1>1, <1>2, <1>7
    <3>. QED  BY <3>1, <3>2
  <2>3. gnttab_free_count' = Len(F2)
    BY <1>1, <1>2, <1>3, <1>4, <1>6
  <2>. QED  BY <2>2, <2>3, <1>1, <1>6, <1>7 DEF Chained
<1>10. Apart(F2, P2)'
  <2>1. \A d, e \in Clients :
          /\ ToSet(P2[d]) \cap (ToSet(F2) \cup held[e]) = {}
          /\ d # e => ToSet(P2[d]) \cap ToSet(P2[e]) = {} /\ held[d] \cap held[e] = {}
    <3>. DEFINE f == ToSet(F)  u == ToSet(F2)  Q == [d \in Clients |-> ToSet(P[d])]
                Q2 == [d \in Clients |-> ToSet(P2[d])]
    <3>1. /\ \A d \in Clients : Q2[d] = IF d = c THEN {} ELSE Q[d]
          /\ u = Q[c] \cup f
      BY <1>6, <1>8 DEF s
    <3>2. \A d, e \in Clients :
             /\ Q[d] \cap (f \cup held[e]) = {}
             /\ d # e => Q[d] \cap Q[e] = {} /\ held[d] \cap held[e] = {}
      BY DEF Lists, Apart
    <3>. HIDE DEF f, u, Q, Q2
    <3>3. ASSUME NEW d \in Clients, NEW e \in Clients
          PROVE  /\ Q2[d] \cap (u \cup held[e]) = {}
                 /\ d # e => Q2[d] \cap Q2[e] = {} /\ held[d] \cap held[e] = {}
      <4>1. CASE d = c
        BY <3>1, <3>2, <4>1
      <4>2. CASE d # c
        BY <3>1, <3>2, <4>2
      <4>. QED  BY <4>1, <4>2
    <3>. QED  BY <3>3 DEF u, Q2
  <2>2. \A d \in Clients : held[d] \cap ToSet(F2) = {}
    BY <1>6 DEF s, Lists, Apart
  <2>3. \A x \in RefNumbers :
           (x \in ToSet(F2) \/ \E d \in Clients : x \in ToSet(P2[d]) \cup held[d])
             => (x \in ToSet(F) \/ \E d \in Clients : x \in ToSet(P[d]) \cup held[d])
    BY <1>6, <1>8 DEF s
  <2>. QED  BY <2>1, <2>2, <2>3, <1>1 DEF Lists, Apart
<1>11. ListInv'
  <2>1. private_head' = [d \in Clients |-> private_head'[d]]
    BY <1>1, <1>2
  <2>2. gnttab_list' \in [RefNumbers -> RefNumbers \cup {ListEnd}]
    BY <1>1, <1>2
  <2>3. TypeOK'
    BY <2>1, <2>2, <1>1, <1>2, <1>9, TypedNext
  <2>. QED  BY <2>3, <1>9, <1>10 DEF ListInv, Lists
<1>12. Pool!FreeGrantReferences(c)
  <2>1. FreeNow = ToSet(F) /\ PrivateNow = [d \in Clients |-> ToSet(P[d])]
    BY SetsNow DEF Lists
  <2>2. FreeNow' = ToSet(F2) /\ PrivateNow' = [d \in Clients |-> ToSet(P2[d])]
    BY <1>9, SetsNext
  <2>3. PrivateNow[c] = ToSet(s) /\ PrivateNow' = [PrivateNow EXCEPT ![c] = {}]
    BY <2>1, <2>2, <1>8 DEF s
  <2>4. PrivateNow[c] # {} /\ FreeNow' = FreeNow \cup PrivateNow[c]
    BY <2>1, <2>2, <2>3, <1>5, <1>6
  <2>5. gnttab_free_count' = gnttab_free_count + Cardinality(PrivateNow[c])
    <3>1. Cardinality(ToSet(s)) = Len(s)
      BY <1>3, OnceCounts DEF Chain
    <3>. QED  BY <3>1, <2>3, <1>1, <1>4
  <2>. QED  BY <2>3, <2>4, <2>5, <1>1, SameCardinality
            DEF Pool!FreeGrantReferences, Pool!PutFreeEntries, FreeNow, PrivateNow
<1>. QED  BY <1>11, <1>12

--------------------------------------------------------------------------------
(* An operation on lists is one on sets, or changes nothing. *)
LEMMA ListStep ==
  ASSUME ListInv, [Next]_vars
  PROVE  ListInv' /\ [Pool!PoolNext]_(Pool!poolVars)
<1>1. TypeOK /\ \E F, P : Lists(F, P)
  BY DEF ListInv
<1>2. PICK F, P : Lists(F, P)
  BY <1>1
<1>3. ASSUME NEW c \in Clients, NEW n \in 1..MaxRequest, AllocGrantReferences(c, n)
      PROVE  ListInv' /\ Pool!PoolNext
  BY <1>1, <1>2, <1>3, AllocStep DEF Pool!PoolNext
<1>4. ASSUME NEW c \in Clients, GetFreeEntry(c)
      PROVE  ListInv' /\ Pool!PoolNext
  BY <1>1, <1>2, <1>4, GetStep DEF Pool!PoolNext
<1>5. ASSUME NEW c \in Clients, ClaimGrantReference(c)
      PROVE  ListInv' /\ Pool!PoolNext
  BY <1>1, <1>2, <1>5, ClaimStep DEF Pool!PoolNext
<1>6. ASSUME NEW c \in Clients, FreeGrantReferences(c)
      PROVE  ListInv' /\ Pool!PoolNext
  BY <1>1, <1>2, <1>6, FreeStep DEF Pool!PoolNext
<1>7. ASSUME NEW c \in Clients, NEW r \in held[c], ReleaseGrantReference(c, r)
      PROVE  ListInv' /\ Pool!PoolNext
  BY <1>1, <1>2, <1>7, ReleaseStep DEF Pool!PoolNext
<1>8. ASSUME NEW c \in Clients, NEW r \in held[c], PutFreeEntry(c, r)
      PROVE  ListInv' /\ Pool!PoolNext
  BY <1>1, <1>2, <1>8, PutStep DEF Pool!PoolNext
<1>9. CASE UNCHANGED vars
  <2>1. nr_grant_frames' = nr_grant_frames /\ gnttab_list' = gnttab_list
        /\ gnttab_free_head' = gnttab_free_head /\ gnttab_free_count' = gnttab_free_count
        /\ private_head' = private_head /\ held' = held
    BY <1>9 DEF vars
  <2>2. Lists(F, P)'
    BY <1>2, <2>1 DEF Lists, Chained, Apart
  <2>3. ListInv'
    BY <1>1, <2>1, <2>2 DEF ListInv, TypeOK
  <2>4. UNCHANGED Pool!poolVars
    BY <2>1 DEF Pool!poolVars, ListFrom
  <2>. QED  BY <2>3, <2>4
<1>. QED  BY <1>3, <1>4, <1>5, <1>6, <1>7, <1>8, <1>9 DEF Next

LEMMA ListInitPool == Init => Pool!PoolInit
<1>. SUFFICES ASSUME Init PROVE Pool!PoolInit
  OBVIOUS
<1>1. PICK F, P : Lists(F, P) /\ ToSet(F) = Frame[1]
  BY ListInit
<1>2. FreeNow = ToSet(F) /\ PrivateNow = [c \in Clients |-> ToSet(P[c])]
  BY <1>1, SetsNow DEF Lists
<1>3. \A c \in Clients : ToSet(P[c]) = {}
  <2>1. \A c \in Clients : Chain(gnttab_list, ListEnd, P[c])
    BY <1>1 DEF Lists, Chained, Init
  <2>. QED  BY <2>1, ChainTyped
<1>4. PrivateNow = [c \in Clients |-> {}]
  BY <1>2, <1>3
<1>. QED  BY <1>1, <1>2, <1>4 DEF Pool!PoolInit, Init, FreeNow, PrivateNow

(* The invariant, for every client, frame size and request. *)
THEOREM ListsHold == Spec => []ListInv
<1>1. Init => ListInv
  BY ListInit DEF ListInv
<1>2. ListInv /\ [Next]_vars => ListInv'
  BY ListStep
<1>. QED  BY <1>1, <1>2, PTL DEF Spec

(* Every list of gnttab.c ends after as many references as it has, so the  *)
(* walk of gnttab_free_grant_references does too, for any clients and any  *)
(* order of their calls. *)
THEOREM ListsTerminate == Spec => []ListsEnd
<1>1. ListInv => ListsEnd
  <2>. SUFFICES ASSUME ListInv PROVE ListsEnd
    OBVIOUS
  <2>1. PICK F, P : Lists(F, P)
    BY DEF ListInv
  <2>2. ASSUME NEW head, NEW s, Chain(gnttab_list, head, s)
        PROVE  Node(gnttab_list, head, Cardinality(ListFrom(head))) = ListEnd
    BY <2>2, ListInChain DEF ListFrom, ListIn
  <2>. QED  BY <2>1, <2>2 DEF ListInv, ListsEnd, Lists, Chained
<1>. QED  BY <1>1, ListsHold, PTL

(* The links of gnttab.c implement the pool of GrantPool: the detailed     *)
(* specification implements the abstract one, step by step. *)
THEOREM PoolImplemented == Spec => ImplementsPool
<1>1. ListInv /\ [Next]_vars => [Pool!PoolNext]_(Pool!poolVars)
  BY ListStep
<1>. QED  BY <1>1, ListInitPool, ListsHold, PTL DEF Spec, ImplementsPool, Pool!PoolSpec

================================================================================
