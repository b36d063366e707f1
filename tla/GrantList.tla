------------------------------- MODULE GrantList -------------------------------
(***************************************************************************)
(* The linked lists of xen-platform-pci/gnttab.c: gnttab_list holds, for   *)
(* every grant reference, the next one on whichever list it is on.  The    *)
(* common free list starts at gnttab_free_head; each client keeps the head *)
(* of a private list of its own, threaded through the same array.          *)
(* Every operation here is one critical section of gnttab_list_lock, or    *)
(* touches a private list only its client knows.                           *)
(***************************************************************************)
EXTENDS Integers, FiniteSets

CONSTANTS Clients, MaxFrames, FrameEntries, NrReserved, MaxRequest

(* As in GrantPool. *)
ASSUME ListAssumption ==
    /\ MaxFrames \in Nat \ {0} /\ FrameEntries \in Nat \ {0}
    /\ NrReserved \in 0..(FrameEntries - 1) /\ MaxRequest \in 1..FrameEntries

ListEnd == -1                      \* GNTTAB_LIST_END
RefNumbers == 0 .. MaxFrames * FrameEntries - 1
Frame == [i \in 1..MaxFrames |->
            IF i = 1 THEN NrReserved .. FrameEntries - 1
                     ELSE (i - 1) * FrameEntries .. i * FrameEntries - 1]

VARIABLES nr_grant_frames, gnttab_list, gnttab_free_head, gnttab_free_count,
          private_head, held

vars == <<nr_grant_frames, gnttab_list, gnttab_free_head, gnttab_free_count,
          private_head, held>>

(* Node(list, head, k): the reference k links after head, ListEnd past it. *)
Node(list, head, k) ==
    LET f[i \in 0..k] == IF i = 0 THEN head
                         ELSE IF f[i - 1] = ListEnd THEN ListEnd
                         ELSE list[f[i - 1]]
    IN  f[k]

(* The references on the list that starts at head. *)
ListFrom(head) ==
    {Node(gnttab_list, head, k) : k \in 0..Cardinality(RefNumbers)} \ {ListEnd}

Init ==
    /\ nr_grant_frames = 1
    /\ gnttab_list = [r \in RefNumbers |->
                        IF r \in NrReserved .. FrameEntries - 2 THEN r + 1
                                                                ELSE ListEnd]
    /\ gnttab_free_head = NrReserved
    /\ gnttab_free_count = FrameEntries - NrReserved
    /\ private_head = [c \in Clients |-> ListEnd]
    /\ held = [c \in Clients |-> {}]

(* grow_gnttab_list(1): the references of the new frame are chained in     *)
(* order and put in front of the free list.                                *)
GrowGnttabList(n, list, head) ==
    LET first == FrameEntries * n
        last  == FrameEntries * (n + 1) - 1
    IN  [list |-> [r \in RefNumbers |->
                      IF r \in first .. last - 1 THEN r + 1
                      ELSE IF r = last THEN head ELSE list[r]],
         head |-> first]

(* Seeded fault: the references taken are not cut off from the free list.  *)
GetFreeEntriesUncut(count) ==
    LET short == gnttab_free_count < count
        grown == IF short
                 THEN GrowGnttabList(nr_grant_frames, gnttab_list, gnttab_free_head)
                 ELSE [list |-> gnttab_list, head |-> gnttab_free_head]
        tail  == Node(grown.list, grown.head, count - 1)
    IN  /\ short => nr_grant_frames + 1 <= MaxFrames
        /\ gnttab_free_head' = grown.list[tail]
        /\ gnttab_list' = grown.list
        /\ gnttab_free_count' =
              gnttab_free_count + (IF short THEN FrameEntries ELSE 0) - count
        /\ nr_grant_frames' = nr_grant_frames + (IF short THEN 1 ELSE 0)

(* get_free_entries: count references leave the front of the free list, as *)
(* a list of their own that starts at the old head.  On a shortage the     *)
(* table grows first, while frames are left.                               *)
GetFreeEntries(count) ==
    LET short == gnttab_free_count < count
        grown == IF short
                 THEN GrowGnttabList(nr_grant_frames, gnttab_list, gnttab_free_head)
                 ELSE [list |-> gnttab_list, head |-> gnttab_free_head]
        tail  == Node(grown.list, grown.head, count - 1)
    IN  /\ short => nr_grant_frames + 1 <= MaxFrames
        /\ gnttab_free_head' = grown.list[tail]
        /\ gnttab_list' = [grown.list EXCEPT ![tail] = ListEnd]
        /\ gnttab_free_count' =
              gnttab_free_count + (IF short THEN FrameEntries ELSE 0) - count
        /\ nr_grant_frames' = nr_grant_frames + (IF short THEN 1 ELSE 0)

(* The reference get_free_entries(1) returns. *)
NextFreeEntry == IF gnttab_free_count < 1 THEN FrameEntries * nr_grant_frames
                                          ELSE gnttab_free_head

AllocGrantReferences(c, n) ==
    /\ private_head[c] = ListEnd
    /\ GetFreeEntries(n)
    /\ private_head' = [private_head EXCEPT ![c] =
          IF gnttab_free_count < n THEN FrameEntries * nr_grant_frames
                                   ELSE gnttab_free_head]
    /\ UNCHANGED held

GetFreeEntry(c) ==
    /\ GetFreeEntries(1)
    /\ held' = [held EXCEPT ![c] = @ \cup {NextFreeEntry}]
    /\ UNCHANGED private_head

ClaimGrantReference(c) ==
    LET g == private_head[c]
    IN  /\ g # ListEnd
        /\ private_head' = [private_head EXCEPT ![c] = gnttab_list[g]]
        /\ held' = [held EXCEPT ![c] = @ \cup {g}]
        /\ UNCHANGED <<nr_grant_frames, gnttab_list, gnttab_free_head, gnttab_free_count>>

ReleaseGrantReference(c, release) ==
    /\ release \in held[c]
    /\ gnttab_list' = [gnttab_list EXCEPT ![release] = private_head[c]]
    /\ private_head' = [private_head EXCEPT ![c] = release]
    /\ held' = [held EXCEPT ![c] = @ \ {release}]
    /\ UNCHANGED <<nr_grant_frames, gnttab_free_head, gnttab_free_count>>

(* gnttab_free_grant_references: the private list is walked to its end,    *)
(* counting, and the free list is hung behind it.  The driver then forgets *)
(* its head.                                                               *)
FreeGrantReferences(c) ==
    LET head  == private_head[c]
        count == Cardinality(ListFrom(head))
        tail  == Node(gnttab_list, head, count - 1)
    IN  /\ head # ListEnd
        /\ gnttab_list' = [gnttab_list EXCEPT ![tail] = gnttab_free_head]
        /\ gnttab_free_head' = head
        /\ gnttab_free_count' = gnttab_free_count + count
        /\ private_head' = [private_head EXCEPT ![c] = ListEnd]
        /\ UNCHANGED <<nr_grant_frames, held>>

(* Seeded fault: the driver keeps the number of a reference it has put back. *)
PutFreeEntryKeepsRef(c, ref) ==
    /\ ref \in held[c]
    /\ gnttab_list' = [gnttab_list EXCEPT ![ref] = gnttab_free_head]
    /\ gnttab_free_head' = ref
    /\ gnttab_free_count' = gnttab_free_count + 1
    /\ UNCHANGED <<nr_grant_frames, private_head, held>>

(* put_free_entry, called by gnttab_free_grant_reference and by every      *)
(* operation that ends access. *)
PutFreeEntry(c, ref) ==
    /\ ref \in held[c]
    /\ gnttab_list' = [gnttab_list EXCEPT ![ref] = gnttab_free_head]
    /\ gnttab_free_head' = ref
    /\ gnttab_free_count' = gnttab_free_count + 1
    /\ held' = [held EXCEPT ![c] = @ \ {ref}]
    /\ UNCHANGED <<nr_grant_frames, private_head>>

Next ==
    \E c \in Clients :
        \/ \E n \in 1..MaxRequest : AllocGrantReferences(c, n)
        \/ GetFreeEntry(c)
        \/ ClaimGrantReference(c)
        \/ FreeGrantReferences(c)
        \/ \E ref \in held[c] : ReleaseGrantReference(c, ref) \/ PutFreeEntry(c, ref)

Spec == Init /\ [][Next]_vars

--------------------------------------------------------------------------------
(* Every variable has its type, and the heads and links stay inside the    *)
(* table. *)
TypeOK ==
    /\ nr_grant_frames \in 1..MaxFrames
    /\ gnttab_list \in [RefNumbers -> RefNumbers \cup {ListEnd}]
    /\ gnttab_free_head \in RefNumbers \cup {ListEnd}
    /\ gnttab_free_count \in Nat
    /\ private_head \in [Clients -> RefNumbers \cup {ListEnd}]
    /\ held \in [Clients -> SUBSET RefNumbers]

(* Every list ends: following the links from any head meets GNTTAB_LIST_END *)
(* after as many references as the list has.  A cycle, a reference put back *)
(* twice or a list cut at the wrong node breaks it, and then                *)
(* gnttab_free_grant_references never returns with the lock held.           *)
ListsEnd ==
  /\ TypeOK
  /\ \A head \in {gnttab_free_head} \cup {private_head[c] : c \in Clients} :
        head # ListEnd =>
            Node(gnttab_list, head, Cardinality(ListFrom(head))) = ListEnd

(* The links implement the sets of GrantPool: each operation moves exactly  *)
(* the references its specification says, from list to list, and keeps      *)
(* gnttab_free_count equal to the length of the free list.                  *)
Pool == INSTANCE GrantPool WITH
            free <- ListFrom(gnttab_free_head),
            free_count <- gnttab_free_count,
            private <- [c \in Clients |-> ListFrom(private_head[c])]
ImplementsPool == Pool!PoolSpec
================================================================================
