------------------------------- MODULE GrantPool -------------------------------
(***************************************************************************)
(* What the grant reference allocator of xen-platform-pci/gnttab.c         *)
(* promises its callers: every reference of the mapped grant frames is in  *)
(* the common pool, on one client's private list, or claimed by one        *)
(* client, and the count of free references is the size of the pool.       *)
(*                                                                         *)
(* Sets stand for the linked lists here: which of several free references  *)
(* is handed out is left open.  GrantList has the links and implements     *)
(* this module.                                                            *)
(***************************************************************************)
EXTENDS Integers, FiniteSets

CONSTANTS Clients,       \* front-end drivers that take references
          MaxFrames,     \* grant frames the hypervisor allows
          FrameEntries,  \* ENTRIES_PER_GRANT_FRAME
          NrReserved,    \* NR_RESERVED_ENTRIES, at the start of frame 1
          Frame,         \* Frame[i]: the usable references of frame i
          MaxRequest     \* largest number of references asked for at once

(* No caller asks for more references than one frame holds (512 entries;   *)
(* the drivers ask for at most a few hundred), so one frame always covers  *)
(* a shortage and gnttab_expand is called with extra = 1.                  *)
ASSUME PoolAssumption ==
    /\ MaxFrames \in Nat \ {0}
    /\ FrameEntries \in Nat \ {0}
    /\ NrReserved \in 0..(FrameEntries - 1)
    /\ MaxRequest \in 1..FrameEntries
    /\ Frame = [i \in 1..MaxFrames |-> Frame[i]]
    /\ \A i \in 1..MaxFrames :
          /\ IsFiniteSet(Frame[i])
          /\ Cardinality(Frame[i])
               = IF i = 1 THEN FrameEntries - NrReserved ELSE FrameEntries
          /\ \A j \in 1..MaxFrames : i # j => Frame[i] \cap Frame[j] = {}

Refs == UNION {Frame[i] : i \in 1..MaxFrames}

VARIABLES nr_grant_frames,   \* frames mapped so far
          free,              \* references on the common free list
          free_count,        \* gnttab_free_count
          private,           \* private[c]: references on c's own list
          held               \* held[c]: references c has claimed

poolVars == <<nr_grant_frames, free, free_count, private, held>>

(* The references of the frames mapped so far. *)
Usable == UNION {Frame[i] : i \in 1..nr_grant_frames}

PoolInit ==
    /\ nr_grant_frames = 1
    /\ free = Frame[1]
    /\ free_count = FrameEntries - NrReserved
    /\ private = [c \in Clients |-> {}]
    /\ held = [c \in Clients |-> {}]

--------------------------------------------------------------------------------
(* gnttab_expand, when fewer than n references are free, adds the next     *)
(* frame to the pool before any reference is taken.                        *)
Short(n)      == free_count < n
CanGet(n)     == Short(n) => nr_grant_frames + 1 <= MaxFrames
FreeFor(n)    == IF Short(n) THEN free \cup Frame[nr_grant_frames + 1] ELSE free
CountFor(n)   == IF Short(n) THEN free_count + FrameEntries ELSE free_count
FramesFor(n)  == IF Short(n) THEN nr_grant_frames + 1 ELSE nr_grant_frames

(* get_free_entries(n) succeeding with the references S. *)
GetFreeEntries(n, S) ==
    /\ CanGet(n)
    /\ S \subseteq FreeFor(n)
    /\ Cardinality(S) = n
    /\ free' = FreeFor(n) \ S
    /\ free_count' = CountFor(n) - n
    /\ nr_grant_frames' = FramesFor(n)

(* Seeded fault: a whole list goes back and is counted as one reference.   *)
PutFreeEntriesCountsOne(S) ==
    /\ free' = free \cup S
    /\ free_count' = free_count + 1
    /\ UNCHANGED nr_grant_frames

(* put_free_entry and gnttab_free_grant_references: S goes back. *)
PutFreeEntries(S) ==
    /\ free' = free \cup S
    /\ free_count' = free_count + Cardinality(S)
    /\ UNCHANGED nr_grant_frames

AllocGrantReferences(c, n) ==
    /\ private[c] = {}
    /\ CanGet(n)
    /\ \E S \in SUBSET FreeFor(n) :
          /\ GetFreeEntries(n, S)
          /\ private' = [private EXCEPT ![c] = S]
    /\ UNCHANGED held

GetFreeEntry(c, r) ==
    /\ GetFreeEntries(1, {r})
    /\ held' = [held EXCEPT ![c] = @ \cup {r}]
    /\ UNCHANGED private

ClaimGrantReference(c, r) ==
    /\ r \in private[c]
    /\ private' = [private EXCEPT ![c] = @ \ {r}]
    /\ held' = [held EXCEPT ![c] = @ \cup {r}]
    /\ UNCHANGED <<nr_grant_frames, free, free_count>>

ReleaseGrantReference(c, r) ==
    /\ r \in held[c]
    /\ held' = [held EXCEPT ![c] = @ \ {r}]
    /\ private' = [private EXCEPT ![c] = @ \cup {r}]
    /\ UNCHANGED <<nr_grant_frames, free, free_count>>

FreeGrantReferences(c) ==
    /\ private[c] # {}
    /\ PutFreeEntries(private[c])
    /\ private' = [private EXCEPT ![c] = {}]
    /\ UNCHANGED held

FreeGrantReference(c, r) ==
    /\ r \in held[c]
    /\ PutFreeEntries({r})
    /\ held' = [held EXCEPT ![c] = @ \ {r}]
    /\ UNCHANGED private

PoolNext ==
    \E c \in Clients :
        \/ \E n \in 1..MaxRequest : AllocGrantReferences(c, n)
        \/ FreeGrantReferences(c)
        \/ \E r \in Refs : \/ GetFreeEntry(c, r)
                           \/ ClaimGrantReference(c, r)
                           \/ ReleaseGrantReference(c, r)
                           \/ FreeGrantReference(c, r)

PoolSpec == PoolInit /\ [][PoolNext]_poolVars
================================================================================
