------------------------------ MODULE ReleaseProofs ----------------------------
(***************************************************************************)
(* Proofs about what is shared and must be let go of once, after its last  *)
(* user: the references of the grant table (GrantTable), which the other   *)
(* domain may still have mapped, and the info of a disk (BlkUnplug), which *)
(* the device, the disk and whoever opens it lead to.                      *)
(*                                                                         *)
(* GrantTable, for any clients, any table size and any batch.              *)
(*                                                                         *)
(* BlkUnplug, for any number of unplug threads, of processes that open the *)
(* disk, of unplugs and of migrations, in the environments Orderly allows. *)
(* The invariant says who holds info at each stage of the device's life:   *)
(* xenbus until remove (Held), then the disk, until the last release       *)
(* (Removed).                                                              *)
(***************************************************************************)
EXTENDS GrantTable, BlkUnplug, FiniteSetTheorems, SequenceTheorems, TLAPS

--------------------------------------------------------------------------------
(* GrantTable. *)

(* The grant table is finite. *)
LEMMA MaxFramesNat == MaxFrames \in Nat \ {0}
  BY PoolAssumption

LEMMA RefsFinite == IsFiniteSet(Refs)
<1>1. IsFiniteSet(1..MaxFrames)
  BY FS_Interval, MaxFramesNat
<1>2. Frame \in Surjection(1..MaxFrames, {Frame[i] : i \in 1..MaxFrames})
  BY PoolAssumption DEF Surjection
<1>3. IsFiniteSet({Frame[i] : i \in 1..MaxFrames})
  BY <1>1, <1>2, FS_Surjection
<1>4. \A T \in {Frame[i] : i \in 1..MaxFrames} : IsFiniteSet(T)
  BY PoolAssumption
<1>. QED  BY <1>3, <1>4, FS_UNION DEF Refs

LEMMA SubsetFinite ==
  ASSUME NEW S \in SUBSET Refs
  PROVE  IsFiniteSet(S) /\ Cardinality(S) \in Nat
  BY RefsFinite, FS_Subset, FS_CardinalityType

(* Growing the table for at most MaxRequest references keeps to the table, *)
(* and leaves enough of them. *)
LEMMA GetTyped ==
  ASSUME NEW n \in 1..MaxRequest, CanGet(n), nr_grant_frames \in 1..MaxFrames,
         free \subseteq Refs, free_count \in Nat
  PROVE  /\ FreeFor(n) \subseteq Refs
         /\ FramesFor(n) \in 1..MaxFrames
         /\ CountFor(n) \in Nat /\ CountFor(n) >= n
<1>1. MaxRequest \in Nat /\ MaxRequest <= FrameEntries /\ FrameEntries \in Nat
  BY PoolAssumption
<1>2. MaxFrames \in Nat
  BY MaxFramesNat
<1>3. Short(n) => nr_grant_frames + 1 \in 1..MaxFrames
  BY <1>2 DEF CanGet
<1>. QED  BY <1>1, <1>2, <1>3 DEF FreeFor, FramesFor, CountFor, Short, Refs

(* The callbacks keep their type, and those left have asked for more than  *)
(* count references. *)
LEMMA FreeCallbacks ==
  ASSUME NEW count \in Nat, callbacks \in [Clients -> 0..MaxRequest],
         restart \subseteq Clients, DoFreeCallbacks(count)
  PROVE  /\ callbacks' \in [Clients -> 0..MaxRequest]
         /\ restart' \subseteq Clients
         /\ \A c \in Clients : callbacks'[c] > 0 => count < callbacks'[c]
         /\ \A c \in Clients : callbacks[c] > 0 \/ c \in restart
                                   => callbacks'[c] > 0 \/ c \in restart'
<1>1. MaxRequest \in Nat
  BY PoolAssumption
<1>. QED  BY <1>1 DEF DoFreeCallbacks

--------------------------------------------------------------------------------
(* The types, with what ties an unfinished operation to its reference. *)
TypeInv ==
    /\ TableTypeOK
    /\ handler.running => handler.entry \in Refs
    /\ \A c \in Clients : ending[c] # NotEnding => ending[c].ref \in Refs

(* No callback stays queued once its count is met. *)
LEMMA PutCallbacks ==
  ASSUME TypeInv, NEW S \in SUBSET Refs, CallbacksOnPut(S)
  PROVE  /\ callbacks' \in [Clients -> 0..MaxRequest]
         /\ restart' \subseteq Clients
         /\ \A c \in Clients : callbacks'[c] > 0 => free_count + Cardinality(S) < callbacks'[c]
         /\ \A c \in Clients : callbacks[c] > 0 \/ c \in restart
                                   => callbacks'[c] > 0 \/ c \in restart'
<1>1. Cardinality(S) \in Nat
  BY SubsetFinite
<1>2. free_count + Cardinality(S) \in Nat
  BY <1>1 DEF TypeInv, TableTypeOK
<1>. QED  BY <1>2, FreeCallbacks DEF CallbacksOnPut, TypeInv, TableTypeOK

LEMMA GetCallbacks ==
  ASSUME TypeInv, NEW n \in 1..MaxRequest, CanGet(n), CallbacksOnGet(n)
  PROVE  /\ callbacks' \in [Clients -> 0..MaxRequest]
         /\ restart' \subseteq Clients
         /\ CallbacksUnmet =>
               \A c \in Clients : callbacks'[c] > 0 => CountFor(n) - n < callbacks'[c]
         /\ \A c \in Clients : callbacks[c] > 0 \/ c \in restart
                                   => callbacks'[c] > 0 \/ c \in restart'
<1>1. CountFor(n) \in Nat
  BY GetTyped DEF TypeInv, TableTypeOK
<1>2. MaxRequest \in Nat
  BY PoolAssumption
<1>3. CASE Short(n)
  <2>1. DoFreeCallbacks(CountFor(n))
    BY <1>3 DEF CallbacksOnGet
  <2>2. callbacks \in [Clients -> 0..MaxRequest] /\ restart \subseteq Clients
    BY DEF TypeInv, TableTypeOK
  <2>3. /\ callbacks' \in [Clients -> 0..MaxRequest]
        /\ restart' \subseteq Clients
        /\ \A c \in Clients : callbacks'[c] > 0 => CountFor(n) < callbacks'[c]
        /\ \A c \in Clients : callbacks[c] > 0 \/ c \in restart
                                  => callbacks'[c] > 0 \/ c \in restart'
    BY <1>1, <2>1, <2>2, FreeCallbacks
  <2>4. \A c \in Clients : callbacks'[c] \in Int /\ n \in Nat
    BY <1>2, <2>3
  <2>. QED  BY <1>1, <2>3, <2>4
<1>4. CASE ~Short(n)
  BY <1>1, <1>2, <1>4 DEF CallbacksOnGet, CountFor, CallbacksUnmet, TypeInv, TableTypeOK
<1>. QED  BY <1>3, <1>4

(* One turn of the deferred handler keeps the types of what it touches. *)
LEMMA NextTurnTyped ==
  ASSUME TypeInv,
         NEW entries \in Seq([ref : Refs, page : BOOLEAN]),
         NEW first \in Refs \cup {NoRef}, NEW nr \in 0..Batch,
         NextTurn(entries, first, nr)
  PROVE  /\ deferred' \in Seq([ref : Refs, page : BOOLEAN])
         /\ timer' \in BOOLEAN
         /\ handler' \in [running : BOOLEAN, entry : Refs \cup {NoRef}, page : BOOLEAN,
                          first : Refs \cup {NoRef}, nr : 0..Batch]
         /\ handler'.running => handler'.entry \in Refs
         /\ deferred' # <<>> => timer' \/ handler'.running
<1>1. Batch \in Nat \ {0} /\ NoRef \notin Refs
  BY TableAssumption
<1>2. CASE nr = 0 \/ entries = <<>> \/ Head(entries).ref = first
  <2>1. deferred' = entries /\ handler' = Idle /\ timer' = (timer \/ entries # <<>>)
    BY <1>2 DEF NextTurn
  <2>2. timer' \in BOOLEAN /\ (deferred' # <<>> => timer')
    BY <2>1
  <2>. QED  BY <1>1, <2>1, <2>2 DEF Idle
<1>3. CASE ~(nr = 0 \/ entries = <<>> \/ Head(entries).ref = first)
  <2>1. Head(entries) \in [ref : Refs, page : BOOLEAN]
        /\ Tail(entries) \in Seq([ref : Refs, page : BOOLEAN])
    BY <1>3, HeadTailProperties
  <2>2. deferred' = Tail(entries) /\ timer' = timer
        /\ handler' = [running |-> TRUE, entry |-> Head(entries).ref,
                       page |-> Head(entries).page, first |-> first, nr |-> nr - 1]
    BY <1>3 DEF NextTurn, TakeEntry
  <2>3. nr - 1 \in 0..Batch
    BY <1>1, <1>3
  <2>. QED  BY <2>1, <2>2, <2>3 DEF TypeInv, TableTypeOK
<1>. QED  BY <1>2, <1>3

LEMMA TypeInit == TableInit => TypeInv
<1>1. /\ MaxFrames \in Nat \ {0} /\ FrameEntries \in Nat /\ NrReserved \in 0..(FrameEntries - 1)
      /\ MaxRequest \in Nat
  BY PoolAssumption
<1>2. Batch \in Nat \ {0} /\ NoRef \notin Refs
  BY TableAssumption
<1>3. Frame[1] \subseteq Refs
  BY <1>1 DEF Refs
<1>. SUFFICES ASSUME TableInit PROVE TypeInv
  OBVIOUS
<1>4. /\ nr_grant_frames \in 1..MaxFrames /\ free \subseteq Refs /\ free_count \in Nat
      /\ private \in [Clients -> SUBSET Refs] /\ held \in [Clients -> SUBSET Refs]
  BY <1>1, <1>3 DEF TableInit, PoolInit
<1>5. /\ shared \in [Refs -> Flags] /\ freed \subseteq Refs
      /\ queue \in [Clients -> {"running", "starved", "stopped"}]
      /\ need \in [Clients -> 0..MaxRequest] /\ callbacks \in [Clients -> 0..MaxRequest]
      /\ restart \subseteq Clients
  BY <1>1 DEF TableInit, Flags
<1>6. /\ ending \in [Clients -> [ref : Refs \cup {NoRef}, page : BOOLEAN, ended : BOOLEAN]]
      /\ \A c \in Clients : ending[c] = NotEnding
  BY DEF TableInit, NotEnding
<1>7. /\ handler \in [running : BOOLEAN, entry : Refs \cup {NoRef}, page : BOOLEAN,
                      first : Refs \cup {NoRef}, nr : 0..Batch]
      /\ ~handler.running
  BY <1>2 DEF TableInit, Idle
<1>8. deferred \in Seq([ref : Refs, page : BOOLEAN]) /\ leaked \subseteq Refs
  BY DEF TableInit
<1>9. timer \in BOOLEAN /\ fault \in BOOLEAN
  BY DEF TableInit
<1>. QED  BY <1>4, <1>5, <1>6, <1>7, <1>8, <1>9 DEF TypeInv, TableTypeOK

LEMMA TypeStep == TypeInv /\ [TableNext]_tableVars => TypeInv'
<1>. SUFFICES ASSUME TypeInv, [TableNext]_tableVars PROVE TypeInv'
  OBVIOUS
<1>. USE DEF poolVars, grantVars, callbackVars, deferVars
<1>0. /\ MaxRequest \in Nat \ {0} /\ FrameEntries \in Nat
      /\ Batch \in Nat \ {0} /\ NoRef \notin Refs
  BY PoolAssumption, TableAssumption
<1>1. ASSUME NEW c \in Clients, NEW n \in 1..MaxRequest, Alloc(c, n) PROVE TypeInv'
  <2>1. CanGet(n) /\ nr_grant_frames' = FramesFor(n) /\ free_count' = CountFor(n) - n
        /\ free' \subseteq FreeFor(n)
        /\ \E S \in SUBSET FreeFor(n) : private' = [private EXCEPT ![c] = S]
        /\ held' = held
    BY <1>1 DEF Alloc, AllocGrantReferences, GetFreeEntries
  <2>2. FreeFor(n) \subseteq Refs /\ FramesFor(n) \in 1..MaxFrames
        /\ CountFor(n) \in Nat /\ CountFor(n) >= n
    BY <2>1, GetTyped DEF TypeInv, TableTypeOK
  <2>3. callbacks' \in [Clients -> 0..MaxRequest] /\ restart' \subseteq Clients
    BY <1>1, <2>1, GetCallbacks DEF Alloc
  <2>4. UNCHANGED <<grantVars, queue, need, ending, deferVars>>
    BY <1>1 DEF Alloc
  <2>5. CountFor(n) - n \in Nat
    BY <1>0, <2>2
  <2>6. private' \in [Clients -> SUBSET Refs]
    BY <2>1, <2>2 DEF TypeInv, TableTypeOK
  <2>. QED  BY <2>1, <2>2, <2>3, <2>4, <2>5, <2>6 DEF TypeInv, TableTypeOK
<1>2. ASSUME NEW c \in Clients, NEW n \in 1..MaxRequest, AllocFails(c, n) PROVE TypeInv'
  BY <1>0, <1>2 DEF AllocFails, TypeInv, TableTypeOK
<1>3. ASSUME NEW c \in Clients, RequestFreeCallback(c) PROVE TypeInv'
  BY <1>0, <1>3 DEF RequestFreeCallback, TypeInv, TableTypeOK
<1>4. ASSUME NEW c \in Clients, RestartQueue(c) PROVE TypeInv'
  BY <1>4 DEF RestartQueue, TypeInv, TableTypeOK
<1>5. ASSUME NEW c \in Clients, KickQueue(c) PROVE TypeInv'
  BY <1>5 DEF KickQueue, TypeInv, TableTypeOK
<1>6. ASSUME NEW c \in Clients, CancelFreeCallback(c) PROVE TypeInv'
  BY <1>0, <1>6 DEF CancelFreeCallback, TypeInv, TableTypeOK
<1>7. ASSUME NEW c \in Clients, FreePrivate(c) PROVE TypeInv'
  <2>1. private[c] \in SUBSET Refs
    BY DEF TypeInv, TableTypeOK
  <2>2. CallbacksOnPut(private[c]) /\ Cardinality(private[c]) \in Nat
    BY <1>7, <2>1, SubsetFinite DEF FreePrivate
  <2>3. callbacks' \in [Clients -> 0..MaxRequest] /\ restart' \subseteq Clients
    BY <2>1, <2>2, PutCallbacks
  <2>4. free' = free \cup private[c] /\ free_count' = free_count + Cardinality(private[c])
        /\ private' = [private EXCEPT ![c] = {}]
        /\ UNCHANGED <<nr_grant_frames, held, grantVars, queue, need, ending, deferVars>>
    BY <1>7 DEF FreePrivate, FreeGrantReferences, PutFreeEntries
  <2>. QED  BY <2>1, <2>2, <2>3, <2>4 DEF TypeInv, TableTypeOK
<1>8. ASSUME NEW c \in Clients, EndPutFreeEntry(c) PROVE TypeInv'
  <2>1. ending[c].ref \in Refs
    BY <1>8 DEF EndPutFreeEntry, TypeInv
  <2>2. CallbacksOnPut({ending[c].ref}) /\ Cardinality({ending[c].ref}) \in Nat
    BY <1>8, <2>1, SubsetFinite DEF EndPutFreeEntry
  <2>3. callbacks' \in [Clients -> 0..MaxRequest] /\ restart' \subseteq Clients
    BY <2>1, <2>2, PutCallbacks
  <2>4. ending' = [ending EXCEPT ![c] = NotEnding]
        /\ NotEnding \in [ref : Refs \cup {NoRef}, page : BOOLEAN, ended : BOOLEAN]
    BY <1>8 DEF EndPutFreeEntry, NotEnding
  <2>5. free' = free \cup {ending[c].ref} /\ free_count' \in Nat
        /\ freed' \subseteq Refs
    BY <1>8, <2>1, <2>2 DEF EndPutFreeEntry, PutFreeEntries, PageAfter, TypeInv, TableTypeOK
  <2>6. UNCHANGED <<nr_grant_frames, private, held, shared, queue, need, deferVars>>
    BY <1>8 DEF EndPutFreeEntry, PutFreeEntries
  <2>. QED  BY <2>1, <2>3, <2>4, <2>5, <2>6 DEF TypeInv, TableTypeOK
<1>9. ASSUME NEW c \in Clients, AddDeferred(c) PROVE TypeInv'
  <2>1. ending[c].ref \in Refs /\ ending[c].page \in BOOLEAN
    BY <1>9 DEF AddDeferred, TypeInv, TableTypeOK
  <2>2. ending' = [ending EXCEPT ![c] = NotEnding]
        /\ NotEnding \in [ref : Refs \cup {NoRef}, page : BOOLEAN, ended : BOOLEAN]
    BY <1>9 DEF AddDeferred, NotEnding
  <2>3. deferred' \in Seq([ref : Refs, page : BOOLEAN])
    BY <1>9, <2>1 DEF AddDeferred, TypeInv, TableTypeOK
  <2>4. timer' \in BOOLEAN
    BY <1>9 DEF AddDeferred
  <2>5. UNCHANGED <<poolVars, grantVars, callbackVars, handler, leaked, fault>>
    BY <1>9 DEF AddDeferred
  <2>. QED  BY <2>2, <2>3, <2>4, <2>5 DEF TypeInv, TableTypeOK
<1>10. ASSUME NEW c \in Clients, LeakDeferred(c) PROVE TypeInv'
  <2>1. ending[c].ref \in Refs
    BY <1>10 DEF LeakDeferred, TypeInv
  <2>. QED  BY <1>10, <2>1 DEF LeakDeferred, NotEnding, TypeInv, TableTypeOK
<1>11. ASSUME NEW c \in Clients, NEW r \in Refs, Claim(c, r) PROVE TypeInv'
  BY <1>11 DEF Claim, ClaimGrantReference, TypeInv, TableTypeOK
<1>12. ASSUME NEW c \in Clients, NEW r \in Refs, GrantForeignAccess(c, r) PROVE TypeInv'
  <2>1. CanGet(1) /\ nr_grant_frames' = FramesFor(1) /\ free_count' = CountFor(1) - 1
        /\ free' \subseteq FreeFor(1) /\ 1 \in 1..MaxRequest
    BY <1>0, <1>12 DEF GrantForeignAccess, GetFreeEntry, GetFreeEntries
  <2>2. FreeFor(1) \subseteq Refs /\ FramesFor(1) \in 1..MaxFrames
        /\ CountFor(1) \in Nat /\ CountFor(1) >= 1
    BY <2>1, GetTyped DEF TypeInv, TableTypeOK
  <2>3. callbacks' \in [Clients -> 0..MaxRequest] /\ restart' \subseteq Clients
    BY <1>12, <2>1, GetCallbacks DEF GrantForeignAccess
  <2>4. /\ private' = private /\ held' = [held EXCEPT ![c] = @ \cup {r}]
        /\ shared' = [shared EXCEPT ![r] = "permit"] /\ freed' \subseteq freed
        /\ UNCHANGED <<queue, need, ending, deferVars>>
    BY <1>12 DEF GrantForeignAccess, GetFreeEntry
  <2>. QED  BY <2>1, <2>2, <2>3, <2>4 DEF TypeInv, TableTypeOK, Flags
<1>13. ASSUME NEW c \in Clients, NEW r \in Refs, GrantForeignAccessRef(c, r) PROVE TypeInv'
  BY <1>13 DEF GrantForeignAccessRef, TypeInv, TableTypeOK, Flags
<1>14. ASSUME NEW c \in Clients, NEW r \in Refs, GrantForeignTransferRef(c, r) PROVE TypeInv'
  BY <1>14 DEF GrantForeignTransferRef, TypeInv, TableTypeOK, Flags
<1>15. ASSUME NEW c \in Clients, NEW r \in Refs, EndAccessAndRelease(c, r) PROVE TypeInv'
  BY <1>15 DEF EndAccessAndRelease, ReleaseGrantReference, TypeInv, TableTypeOK, Flags
<1>16. ASSUME NEW c \in Clients, NEW r \in Refs, EndForeignTransfer(c, r) PROVE TypeInv'
  <2>1. CallbacksOnPut({r}) /\ Cardinality({r}) \in Nat
    BY <1>16, SubsetFinite DEF EndForeignTransfer
  <2>2. callbacks' \in [Clients -> 0..MaxRequest] /\ restart' \subseteq Clients
    BY <2>1, PutCallbacks
  <2>3. free' = free \cup {r} /\ free_count' = free_count + Cardinality({r})
        /\ held' = [held EXCEPT ![c] = @ \ {r}] /\ shared' \in [Refs -> Flags]
        /\ UNCHANGED <<nr_grant_frames, private, freed, queue, need, ending, deferVars>>
    BY <1>16 DEF EndForeignTransfer, FreeGrantReference, PutFreeEntries, TypeInv,
                 TableTypeOK, Flags
  <2>. QED  BY <2>1, <2>2, <2>3 DEF TypeInv, TableTypeOK
<1>17. ASSUME NEW c \in Clients, NEW r \in Refs, NEW p \in BOOLEAN, EndForeignAccess(c, r, p)
       PROVE TypeInv'
  <2>1. ending' = [ending EXCEPT ![c] = [ref |-> r, page |-> p, ended |-> shared[r] # "mapped"]]
        /\ [ref |-> r, page |-> p, ended |-> shared[r] # "mapped"]
              \in [ref : Refs \cup {NoRef}, page : BOOLEAN, ended : BOOLEAN]
    BY <1>17 DEF EndForeignAccess
  <2>2. held' \in [Clients -> SUBSET Refs] /\ shared' \in [Refs -> Flags]
    BY <1>17 DEF EndForeignAccess, TypeInv, TableTypeOK, Flags
  <2>3. UNCHANGED <<nr_grant_frames, free, free_count, private, freed, callbackVars, deferVars>>
    BY <1>17 DEF EndForeignAccess
  <2>. QED  BY <2>1, <2>2, <2>3 DEF TypeInv, TableTypeOK
<1>18. CASE TimerFires
  <2>1. CASE deferred = <<>>
    <3>1. timer' \in BOOLEAN /\ fault' \in BOOLEAN /\ UNCHANGED <<deferred, handler>>
      BY <1>18, <2>1 DEF TimerFires
    <3>. QED  BY <1>18, <3>1 DEF TimerFires, TypeInv, TableTypeOK
  <2>2. CASE deferred # <<>>
    <3>1. Head(deferred) \in [ref : Refs, page : BOOLEAN]
          /\ Tail(deferred) \in Seq([ref : Refs, page : BOOLEAN])
      BY <2>2, HeadTailProperties DEF TypeInv, TableTypeOK
    <3>2. timer' \in BOOLEAN /\ fault' = fault
      BY <1>18, <2>2 DEF TimerFires
    <3>3. TakeEntry(deferred, NoRef, Batch)
          /\ UNCHANGED <<poolVars, grantVars, callbackVars, ending, leaked>>
      BY <1>18, <2>2 DEF TimerFires
    <3>4. Batch - 1 \in 0..Batch
      BY <1>0
    <3>. QED  BY <3>1, <3>2, <3>3, <3>4 DEF TakeEntry, TypeInv, TableTypeOK
  <2>. QED  BY <2>1, <2>2
<1>19. CASE HandlerFrees
  <2>1. handler.entry \in Refs /\ handler.first \in Refs \cup {NoRef} /\ handler.nr \in 0..Batch
    BY <1>19 DEF HandlerFrees, TypeInv, TableTypeOK
  <2>2. CallbacksOnPut({handler.entry}) /\ Cardinality({handler.entry}) \in Nat
    BY <1>19, <2>1, SubsetFinite DEF HandlerFrees
  <2>3. callbacks' \in [Clients -> 0..MaxRequest] /\ restart' \subseteq Clients
    BY <2>1, <2>2, PutCallbacks
  <2>4. NextTurn(deferred, handler.first, handler.nr)
    BY <1>19 DEF HandlerFrees
  <2>5. /\ deferred' \in Seq([ref : Refs, page : BOOLEAN]) /\ timer' \in BOOLEAN
        /\ handler' \in [running : BOOLEAN, entry : Refs \cup {NoRef}, page : BOOLEAN,
                         first : Refs \cup {NoRef}, nr : 0..Batch]
        /\ handler'.running => handler'.entry \in Refs
    BY <2>1, <2>4, NextTurnTyped DEF TypeInv, TableTypeOK
  <2>6. free' = free \cup {handler.entry} /\ free_count' \in Nat
        /\ freed' \subseteq Refs
        /\ shared' = [shared EXCEPT ![handler.entry] = "unused"]
    BY <1>19, <2>1, <2>2 DEF HandlerFrees, PutFreeEntries, PageAfter, TypeInv, TableTypeOK
  <2>7. UNCHANGED <<nr_grant_frames, private, held, queue, need, ending, leaked, fault>>
    BY <1>19 DEF HandlerFrees, PutFreeEntries
  <2>. QED  BY <2>1, <2>3, <2>5, <2>6, <2>7 DEF TypeInv, TableTypeOK, Flags
<1>20. CASE HandlerPutsBack
  <2>1. handler.entry \in Refs /\ handler.first \in Refs \cup {NoRef} /\ handler.nr \in 0..Batch
        /\ handler.page \in BOOLEAN
    BY <1>20 DEF HandlerPutsBack, TypeInv, TableTypeOK
  <2>2. Append(deferred, [ref |-> handler.entry, page |-> handler.page])
          \in Seq([ref : Refs, page : BOOLEAN])
    BY <2>1 DEF TypeInv, TableTypeOK
  <2>3. NextTurn(Append(deferred, [ref |-> handler.entry, page |-> handler.page]),
                 IF handler.first = NoRef THEN handler.entry ELSE handler.first, handler.nr)
    BY <1>20 DEF HandlerPutsBack
  <2>4. /\ deferred' \in Seq([ref : Refs, page : BOOLEAN]) /\ timer' \in BOOLEAN
        /\ handler' \in [running : BOOLEAN, entry : Refs \cup {NoRef}, page : BOOLEAN,
                         first : Refs \cup {NoRef}, nr : 0..Batch]
        /\ handler'.running => handler'.entry \in Refs
    BY <2>1, <2>2, <2>3, NextTurnTyped DEF TypeInv, TableTypeOK
  <2>5. UNCHANGED <<poolVars, grantVars, callbackVars, ending, leaked, fault>>
    BY <1>20 DEF HandlerPutsBack
  <2>. QED  BY <2>4, <2>5 DEF TypeInv, TableTypeOK
<1>21. CASE RemoteNext
  <2>1. /\ UNCHANGED <<poolVars, freed, callbackVars, ending, deferVars>>
        /\ \/ \E r \in Refs, to \in Flags : shared' = [shared EXCEPT ![r] = to]
           \/ shared' = [r \in Refs |-> "unused"]
    <3>1. CASE Restore
      BY <3>1 DEF Restore
    <3>2. ASSUME NEW r \in Refs,
                 RemoteMap(r) \/ RemoteUnmap(r) \/ RemoteCommit(r) \/ RemoteComplete(r)
          PROVE  /\ UNCHANGED <<poolVars, freed, callbackVars, ending, deferVars>>
                 /\ \E to \in Flags : shared' = [shared EXCEPT ![r] = to]
      BY <3>2 DEF RemoteMap, RemoteUnmap, RemoteCommit, RemoteComplete, Remote, Flags
    <3>. QED  BY <1>21, <3>1, <3>2 DEF RemoteNext
  <2>2. shared' \in [Refs -> Flags]
    <3>1. shared \in [Refs -> Flags] /\ "unused" \in Flags
      BY DEF TypeInv, TableTypeOK, Flags
    <3>. QED  BY <2>1, <3>1
  <2>. QED  BY <2>1, <2>2 DEF TypeInv, TableTypeOK, poolVars, callbackVars, deferVars
<1>22. CASE UNCHANGED tableVars
  BY <1>22 DEF tableVars, TypeInv, TableTypeOK
<1>. QED
  BY <1>1, <1>2, <1>3, <1>4, <1>5, <1>6, <1>7, <1>8, <1>9, <1>10, <1>11, <1>12, <1>13, <1>14,
     <1>15, <1>16, <1>17, <1>18, <1>19, <1>20, <1>21, <1>22 DEF TableNext, ClientNext, HandlerNext

(* In every state of the table every variable has its type: no operation   *)
(* grows the table past the frames the hypervisor allows or takes the      *)
(* count of free references below zero.                                    *)
THEOREM TypeCorrect == TableSpec => []TableTypeOK
<1>1. TypeInv => TableTypeOK
  BY DEF TypeInv
<1>. QED  BY TypeInit, TypeStep, <1>1, PTL DEF TableSpec

--------------------------------------------------------------------------------
(* Wake-ups.  That a stopped queue has one coming needs more than itself:  *)
(* only because no queued callback is met may a queued one be left alone.  *)
WakeInv == NoLostWakeup /\ CallbacksUnmet

LEMMA WakeInit == TableInit => WakeInv
  BY DEF TableInit, WakeInv, NoLostWakeup, CallbacksUnmet

(* Steps that put the references S back, and stop no queue. *)
LEMMA WakeOnPut ==
  ASSUME TypeInv, WakeInv, NEW S \in SUBSET Refs, CallbacksOnPut(S),
         free_count' = free_count + Cardinality(S), queue' = queue
  PROVE  WakeInv'
  BY PutCallbacks DEF WakeInv, NoLostWakeup, CallbacksUnmet

LEMMA WakeStep == TypeInv /\ WakeInv /\ [TableNext]_tableVars => WakeInv'
<1>. SUFFICES ASSUME TypeInv, WakeInv, [TableNext]_tableVars PROVE WakeInv'
  OBVIOUS
<1>. USE DEF poolVars, grantVars, callbackVars, deferVars
<1>0. MaxRequest \in Nat \ {0} /\ 1 \in 1..MaxRequest
  BY PoolAssumption
<1>1. ASSUME NEW c \in Clients, NEW n \in 1..MaxRequest, Alloc(c, n) PROVE WakeInv'
  <2>1. CanGet(n) /\ free_count' = CountFor(n) - n /\ CallbacksOnGet(n) /\ queue' = queue
    BY <1>1 DEF Alloc, AllocGrantReferences, GetFreeEntries
  <2>. QED  BY <2>1, GetCallbacks DEF WakeInv, NoLostWakeup, CallbacksUnmet
<1>2. ASSUME NEW c \in Clients, NEW n \in 1..MaxRequest, AllocFails(c, n) PROVE WakeInv'
  BY <1>2 DEF AllocFails, TypeInv, TableTypeOK, WakeInv, NoLostWakeup, CallbacksUnmet
<1>3. ASSUME NEW c \in Clients, RequestFreeCallback(c) PROVE WakeInv'
  <2>1. need[c] \in Nat /\ free_count \in Nat /\ callbacks[c] \in Nat
    BY <1>0 DEF TypeInv, TableTypeOK
  <2>2. queue' = [queue EXCEPT ![c] = "stopped"] /\ free_count' = free_count
    BY <1>3 DEF RequestFreeCallback
  <2>3. CASE callbacks[c] > 0
    BY <1>3, <2>2, <2>3 DEF RequestFreeCallback, TypeInv, TableTypeOK,
                            WakeInv, NoLostWakeup, CallbacksUnmet
  <2>4. CASE callbacks[c] = 0 /\ free_count >= need[c]
    BY <1>3, <2>2, <2>4 DEF RequestFreeCallback, TypeInv, TableTypeOK,
                            WakeInv, NoLostWakeup, CallbacksUnmet
  <2>5. CASE callbacks[c] = 0 /\ ~(free_count >= need[c])
    <3>1. callbacks' = [callbacks EXCEPT ![c] = need[c]] /\ restart' = restart
      BY <1>3, <2>5 DEF RequestFreeCallback
    <3>2. need[c] > 0 /\ free_count < need[c]
      BY <2>1, <2>5
    <3>. QED  BY <2>2, <3>1, <3>2 DEF TypeInv, TableTypeOK, WakeInv, NoLostWakeup, CallbacksUnmet
  <2>. QED  BY <2>1, <2>3, <2>4, <2>5
<1>4. ASSUME NEW c \in Clients, RestartQueue(c) PROVE WakeInv'
  BY <1>4 DEF RestartQueue, TypeInv, TableTypeOK, WakeInv, NoLostWakeup, CallbacksUnmet
<1>5. ASSUME NEW c \in Clients, KickQueue(c) PROVE WakeInv'
  BY <1>5 DEF KickQueue, TypeInv, TableTypeOK, WakeInv, NoLostWakeup, CallbacksUnmet
<1>6. ASSUME NEW c \in Clients, CancelFreeCallback(c) PROVE WakeInv'
  BY <1>6 DEF CancelFreeCallback, TypeInv, TableTypeOK, WakeInv, NoLostWakeup, CallbacksUnmet
<1>7. ASSUME NEW c \in Clients, FreePrivate(c) PROVE WakeInv'
  BY <1>7, WakeOnPut DEF FreePrivate, FreeGrantReferences, PutFreeEntries, TypeInv, TableTypeOK
<1>8. ASSUME NEW c \in Clients, EndPutFreeEntry(c) PROVE WakeInv'
  <2>1. {ending[c].ref} \in SUBSET Refs
    BY <1>8 DEF EndPutFreeEntry, TypeInv
  <2>. QED  BY <1>8, <2>1, WakeOnPut DEF EndPutFreeEntry, PutFreeEntries
<1>9. ASSUME NEW c \in Clients, NEW r \in Refs, GrantForeignAccess(c, r) PROVE WakeInv'
  <2>1. CanGet(1) /\ free_count' = CountFor(1) - 1 /\ CallbacksOnGet(1) /\ queue' = queue
    BY <1>9 DEF GrantForeignAccess, GetFreeEntry, GetFreeEntries
  <2>. QED  BY <1>0, <2>1, GetCallbacks DEF WakeInv, NoLostWakeup, CallbacksUnmet
<1>10. ASSUME NEW c \in Clients, NEW r \in Refs, EndForeignTransfer(c, r) PROVE WakeInv'
  BY <1>10, WakeOnPut DEF EndForeignTransfer, FreeGrantReference, PutFreeEntries
<1>11. CASE HandlerFrees
  <2>1. {handler.entry} \in SUBSET Refs
    BY <1>11 DEF HandlerFrees, TypeInv
  <2>. QED  BY <1>11, <2>1, WakeOnPut DEF HandlerFrees, PutFreeEntries
<1>12. CASE UNCHANGED <<queue, callbacks, restart, free_count>>
  BY <1>12 DEF WakeInv, NoLostWakeup, CallbacksUnmet
<1>13. ASSUME NEW c \in Clients, NEW r \in Refs,
              \/ Claim(c, r)
              \/ GrantForeignAccessRef(c, r)
              \/ GrantForeignTransferRef(c, r)
              \/ EndAccessAndRelease(c, r)
              \/ \E p \in BOOLEAN : EndForeignAccess(c, r, p)
       PROVE WakeInv'
  BY <1>12, <1>13 DEF Claim, ClaimGrantReference, GrantForeignAccessRef, GrantForeignTransferRef,
                      EndAccessAndRelease, ReleaseGrantReference, EndForeignAccess
<1>14. ASSUME NEW c \in Clients, AddDeferred(c) \/ LeakDeferred(c) PROVE WakeInv'
  BY <1>12, <1>14 DEF AddDeferred, LeakDeferred
<1>15. CASE TimerFires \/ HandlerPutsBack \/ RemoteNext \/ UNCHANGED tableVars
  BY <1>12, <1>15 DEF TimerFires, HandlerPutsBack, RemoteNext, RemoteMap, RemoteUnmap,
                      RemoteCommit, RemoteComplete, Remote, Restore, tableVars
<1>. QED
  BY <1>1, <1>2, <1>3, <1>4, <1>5, <1>6, <1>7, <1>8, <1>9, <1>10, <1>11, <1>13, <1>14, <1>15
     DEF TableNext, ClientNext, HandlerNext

(* A driver whose queue is stopped for want of grant references always has *)
(* a wake-up coming, whatever comes back between its failed allocation and *)
(* its request for the callback. *)
THEOREM WakeupsKept == TableSpec => []NoLostWakeup
<1>1. TypeInv /\ WakeInv => NoLostWakeup
  BY DEF WakeInv
<1>. QED  BY TypeInit, TypeStep, WakeInit, WakeStep, <1>1, PTL DEF TableSpec

(* And a callback is called as soon as its count is met. *)
THEOREM CallbacksPrompt == TableSpec => []CallbacksUnmet
<1>1. TypeInv /\ WakeInv => CallbacksUnmet
  BY DEF WakeInv
<1>. QED  BY TypeInit, TypeStep, WakeInit, WakeStep, <1>1, PTL DEF TableSpec

--------------------------------------------------------------------------------
LEMMA TimerStep == TypeInv /\ DeferredHasTimer /\ [TableNext]_tableVars => DeferredHasTimer'
<1>. SUFFICES ASSUME TypeInv, DeferredHasTimer, [TableNext]_tableVars PROVE DeferredHasTimer'
  OBVIOUS
<1>1. ASSUME NEW c \in Clients, AddDeferred(c) PROVE DeferredHasTimer'
  BY <1>1 DEF AddDeferred, DeferredHasTimer
<1>2. CASE TimerFires
  BY <1>2 DEF TimerFires, TakeEntry, DeferredHasTimer
<1>3. CASE HandlerFrees
  <2>1. deferred \in Seq([ref : Refs, page : BOOLEAN])
        /\ handler.first \in Refs \cup {NoRef} /\ handler.nr \in 0..Batch
    BY DEF TypeInv, TableTypeOK
  <2>. QED  BY <1>3, <2>1, NextTurnTyped DEF HandlerFrees, DeferredHasTimer
<1>4. CASE HandlerPutsBack
  <2>1. handler.entry \in Refs /\ handler.page \in BOOLEAN
        /\ handler.first \in Refs \cup {NoRef} /\ handler.nr \in 0..Batch
    BY <1>4 DEF HandlerPutsBack, TypeInv, TableTypeOK
  <2>2. Append(deferred, [ref |-> handler.entry, page |-> handler.page])
          \in Seq([ref : Refs, page : BOOLEAN])
    BY <2>1 DEF TypeInv, TableTypeOK
  <2>. QED  BY <1>4, <2>1, <2>2, NextTurnTyped DEF HandlerPutsBack, DeferredHasTimer
<1>5. CASE UNCHANGED <<deferred, timer, handler>>
  BY <1>5 DEF DeferredHasTimer
<1>6. ASSUME NEW c \in Clients, ClientNext(c), ~AddDeferred(c) PROVE DeferredHasTimer'
  BY <1>5, <1>6 DEF ClientNext, Alloc, AllocFails, RequestFreeCallback, RestartQueue, KickQueue,
       CancelFreeCallback, FreePrivate, EndPutFreeEntry, LeakDeferred, Claim,
       GrantForeignAccess, GrantForeignAccessRef, GrantForeignTransferRef,
       EndAccessAndRelease, EndForeignTransfer, EndForeignAccess, deferVars
<1>7. CASE RemoteNext \/ UNCHANGED tableVars
  BY <1>5, <1>7 DEF RemoteNext, RemoteMap, RemoteUnmap, RemoteCommit, RemoteComplete, Remote,
       Restore, tableVars, deferVars
<1>. QED  BY <1>1, <1>2, <1>3, <1>4, <1>6, <1>7 DEF TableNext, HandlerNext

(* The deferred list never holds an entry that no timer and no running     *)
(* handler will look at, however many are added while the handler runs.    *)
THEOREM DeferredNeverStranded == TableSpec => []DeferredHasTimer
<1>1. TableInit => DeferredHasTimer
  BY DEF TableInit, DeferredHasTimer
<1>. QED  BY TypeInit, TypeStep, <1>1, TimerStep, PTL DEF TableSpec

(* Whoever waits has something coming: the three together. *)
THEOREM WakeupsCome == TableSpec => []WakeupsComing
<1>1. NoLostWakeup /\ CallbacksUnmet /\ DeferredHasTimer => WakeupsComing
  BY DEF WakeupsComing
<1>. QED  BY WakeupsKept, CallbacksPrompt, DeferredNeverStranded, <1>1, PTL

--------------------------------------------------------------------------------
(* Who has the references: none is lost, none is in two hands, the count   *)
(* is exact, and what is given away again is out of the back end's reach.  *)

(* A reference r is in one hand: of kind k and, where the kind has one     *)
(* hand for each client, of client c.                                      *)
PerClient == {"private", "held", "ending"}
Kinds     == PerClient \cup {"free", "deferred", "handler", "leaked"}
Who       == Clients \cup {NoRef}

Has(r, k, c) ==
    \/ k = "free" /\ r \in free
    \/ k = "private" /\ c \in Clients /\ r \in private[c]
    \/ k = "held" /\ c \in Clients /\ r \in held[c]
    \/ k = "ending" /\ c \in Clients /\ ending[c].ref = r
    \/ k = "deferred" /\ r \in InDeferred
    \/ k = "handler" /\ handler.entry = r
    \/ k = "leaked" /\ r \in leaked

OneHand ==
    \A r \in Refs :
        /\ r \in Usable <=> \E k \in Kinds, c \in Who : Has(r, k, c)
        /\ \A k, l \in Kinds, c, d \in Who :
              Has(r, k, c) /\ Has(r, l, d) => k = l /\ (k \in PerClient => c = d)

Distinct(entries) ==
    \A i, j \in 1..Len(entries) : entries[i].ref = entries[j].ref => i = j

OwnInv ==
    /\ OneHand /\ Distinct(deferred)
    /\ ~handler.running => handler.entry = NoRef
    /\ \A c \in Clients : ending[c].ref = NoRef => ending[c] = NotEnding

--------------------------------------------------------------------------------
(* A step gives each reference of M to the hand K and C say, and leaves    *)
(* the others where they are; references it adds to the table are in M.    *)
Moved(M, K, C) ==
    /\ M \in SUBSET Refs /\ K \in [Refs -> Kinds] /\ C \in [Refs -> Who]
    /\ \A q \in M : K[q] \in PerClient => C[q] \in Clients
    /\ M \subseteq Usable' /\ Usable \subseteq Usable' /\ Usable' \subseteq Usable \cup M
    /\ \A q \in Refs, l \in Kinds, d \in Who :
          Has(q, l, d)' <=> IF q \in M THEN l = K[q] /\ (l \in PerClient => d = C[q])
                                        ELSE Has(q, l, d)

LEMMA Reassign ==
  ASSUME OneHand, NEW M, NEW K, NEW C, Moved(M, K, C)
  PROVE  OneHand'
<1>. USE DEF Moved
<1>. SUFFICES ASSUME NEW r \in Refs
              PROVE  /\ r \in Usable' <=> \E k \in Kinds, c \in Who : Has(r, k, c)'
                     /\ \A k, l \in Kinds, c, d \in Who :
                           Has(r, k, c)' /\ Has(r, l, d)' => k = l /\ (k \in PerClient => c = d)
  BY DEF OneHand, Refs, Kinds, PerClient, Who
<1>1. CASE r \in M
  <2>1. K[r] \in Kinds /\ C[r] \in Who /\ Has(r, K[r], C[r])'
    BY <1>1
  <2>. QED  BY <1>1, <2>1
<1>2. CASE r \notin M
  BY <1>2 DEF OneHand
<1>. QED  BY <1>1, <1>2

(* The frame the table grows by is new. *)
LEMMA NewFrame ==
  ASSUME TypeInv, nr_grant_frames + 1 <= MaxFrames, nr_grant_frames' = nr_grant_frames + 1
  PROVE  /\ Usable' = Usable \cup Frame[nr_grant_frames + 1]
         /\ Usable \cap Frame[nr_grant_frames + 1] = {}
         /\ Frame[nr_grant_frames + 1] \subseteq Refs
<1>1. MaxFrames \in Nat /\ nr_grant_frames \in 1..MaxFrames /\ nr_grant_frames + 1 \in 1..MaxFrames
  BY MaxFramesNat DEF TypeInv, TableTypeOK
<1>2. 1..(nr_grant_frames + 1) = (1..nr_grant_frames) \cup {nr_grant_frames + 1}
  BY <1>1
<1>3. \A i \in 1..nr_grant_frames :
         i \in 1..MaxFrames /\ Frame[i] \cap Frame[nr_grant_frames + 1] = {}
  BY <1>1, PoolAssumption
<1>. QED  BY <1>1, <1>2, <1>3 DEF Usable, Refs

(* Taking references off the list, which may grow before.                  *)
LEMMA Taken ==
  ASSUME TypeInv, OneHand, NEW n \in 1..MaxRequest, NEW S, GetFreeEntries(n, S)
  PROVE  \E G \in SUBSET Refs :
            /\ S \subseteq free \cup G /\ free' = (free \cup G) \ S
            /\ Usable' = Usable \cup G /\ Usable \cap G = {}
            /\ FreeFor(n) = free \cup G
            /\ CountFor(n) = free_count + Cardinality(G)
<1>0. MaxFrames \in Nat /\ nr_grant_frames \in 1..MaxFrames /\ free_count \in Nat
  BY MaxFramesNat DEF TypeInv, TableTypeOK
<1>1. CASE Short(n)
  <2>1. /\ nr_grant_frames + 1 <= MaxFrames /\ nr_grant_frames' = nr_grant_frames + 1
        /\ FreeFor(n) = free \cup Frame[nr_grant_frames + 1]
        /\ S \subseteq FreeFor(n) /\ free' = FreeFor(n) \ S
        /\ CountFor(n) = free_count + FrameEntries
    BY <1>1 DEF GetFreeEntries, CanGet, FreeFor, FramesFor, CountFor
  <2>2. /\ Usable' = Usable \cup Frame[nr_grant_frames + 1]
        /\ Usable \cap Frame[nr_grant_frames + 1] = {}
        /\ Frame[nr_grant_frames + 1] \in SUBSET Refs
    BY <2>1, NewFrame
  <2>3. Cardinality(Frame[nr_grant_frames + 1]) = FrameEntries
    BY <1>0, <2>1, PoolAssumption
  <2>. USE <2>2
  <2>. WITNESS Frame[nr_grant_frames + 1] \in SUBSET Refs
  <2>. QED  BY <2>1, <2>3
<1>2. CASE ~Short(n)
  <2>1. FreeFor(n) = free /\ S \subseteq free /\ free' = free \ S /\ Usable' = Usable
        /\ CountFor(n) = free_count
    BY <1>2 DEF GetFreeEntries, FreeFor, FramesFor, CountFor, Usable
  <2>2. {} \in SUBSET Refs /\ Cardinality({}) = 0
    BY FS_EmptySet
  <2>. USE <2>2
  <2>. WITNESS {} \in SUBSET Refs
  <2>. QED  BY <1>0, <2>1
<1>. QED  BY <1>1, <1>2

LEMMA SameUsable ==
  ASSUME nr_grant_frames' = nr_grant_frames
  PROVE  Usable' = Usable
  BY DEF Usable

(* The list the handler is to go on with is split into what stays on the   *)
(* list and the entry in its hand.                                         *)
RefsOf(entries) == {entries[i].ref : i \in 1..Len(entries)}

LEMMA Turn ==
  ASSUME NEW entries \in Seq([ref : Refs, page : BOOLEAN]), Distinct(entries),
         NEW first, NEW nr,
         \/ NextTurn(entries, first, nr)
         \/ entries # <<>> /\ TakeEntry(entries, first, nr)
  PROVE  /\ Distinct(deferred)'
         /\ ~handler'.running => handler'.entry = NoRef
         /\ handler'.entry # NoRef => handler'.entry \in RefsOf(entries)
         /\ \A q \in Refs : q \in InDeferred' <=> q \in RefsOf(entries) /\ q # handler'.entry
<1>1. CASE deferred' = entries /\ handler' = Idle
  BY <1>1, TableAssumption DEF Idle, Distinct, InDeferred, RefsOf
<1>2. CASE entries # <<>> /\ TakeEntry(entries, first, nr)
  <2>1. /\ deferred' = Tail(entries) /\ handler'.running /\ handler'.entry = entries[1].ref
        /\ Len(entries) \in Nat \ {0} /\ Len(Tail(entries)) = Len(entries) - 1
        /\ \A i \in 1..Len(Tail(entries)) : Tail(entries)[i] = entries[i + 1]
    BY <1>2 DEF TakeEntry
  <2>2. Distinct(deferred)'
    BY <2>1 DEF Distinct
  <2>3. handler'.entry \in RefsOf(entries)
    BY <2>1 DEF RefsOf
  <2>4. ASSUME NEW q \in Refs
        PROVE  q \in InDeferred' <=> q \in RefsOf(entries) /\ q # handler'.entry
    <3>1. ASSUME q \in InDeferred' PROVE q \in RefsOf(entries) /\ q # handler'.entry
      <4>1. PICK i \in 1..Len(Tail(entries)) : q = Tail(entries)[i].ref
        BY <2>1, <3>1 DEF InDeferred
      <4>2. i + 1 \in 1..Len(entries) /\ q = entries[i + 1].ref /\ 1 \in 1..Len(entries)
            /\ i + 1 # 1
        BY <2>1, <4>1
      <4>. QED  BY <2>1, <4>2 DEF Distinct, RefsOf
    <3>2. ASSUME q \in RefsOf(entries), q # handler'.entry PROVE q \in InDeferred'
      <4>1. PICK i \in 1..Len(entries) : q = entries[i].ref
        BY <3>2 DEF RefsOf
      <4>2. i - 1 \in 1..Len(Tail(entries)) /\ Tail(entries)[i - 1] = entries[i]
        BY <2>1, <3>2, <4>1
      <4>. QED  BY <2>1, <4>1, <4>2 DEF InDeferred
    <3>. QED  BY <3>1, <3>2
  <2>. QED  BY <2>1, <2>2, <2>3, <2>4
<1>. QED  BY <1>1, <1>2 DEF NextTurn

(* An entry put at the end of a list that does not have it.                *)
LEMMA Appended ==
  ASSUME NEW entries \in Seq([ref : Refs, page : BOOLEAN]), Distinct(entries),
         NEW e \in [ref : Refs, page : BOOLEAN], e.ref \notin RefsOf(entries)
  PROVE  /\ Append(entries, e) \in Seq([ref : Refs, page : BOOLEAN])
         /\ Distinct(Append(entries, e))
         /\ RefsOf(Append(entries, e)) = RefsOf(entries) \cup {e.ref}
<1>1. /\ Len(entries) \in Nat /\ Len(Append(entries, e)) = Len(entries) + 1
      /\ Append(entries, e)[Len(entries) + 1] = e
      /\ \A i \in 1..Len(entries) : Append(entries, e)[i] = entries[i]
  OBVIOUS
<1>2. \A i \in 1..(Len(entries) + 1) : i \in 1..Len(entries) \/ i = Len(entries) + 1
  BY <1>1
<1>3. \A i \in 1..Len(entries) : i \in 1..(Len(entries) + 1) /\ entries[i].ref # e.ref
  BY <1>1 DEF RefsOf
<1>. QED  BY <1>1, <1>2, <1>3 DEF Distinct, RefsOf

LEMMA DeferredRefs ==
  ASSUME TypeInv
  PROVE  /\ deferred \in Seq([ref : Refs, page : BOOLEAN])
         /\ InDeferred \subseteq Refs /\ RefsOf(deferred) = InDeferred
<1>1. deferred \in Seq([ref : Refs, page : BOOLEAN])
  BY DEF TypeInv, TableTypeOK
<1>2. \A i \in 1..Len(deferred) : deferred[i] \in [ref : Refs, page : BOOLEAN]
  BY <1>1, ElementOfSeq
<1>. QED  BY <1>1, <1>2 DEF InDeferred, RefsOf

LEMMA Only ==
  ASSUME OneHand, NEW r \in Refs, NEW k \in Kinds, NEW c \in Who, Has(r, k, c)
  PROVE  /\ r \in Usable
         /\ \A l \in Kinds, d \in Who : Has(r, l, d) => l = k /\ (k \in PerClient => d = c)
  BY DEF OneHand

LEMMA Fresh ==
  ASSUME OneHand, NEW r \in Refs, r \notin Usable
  PROVE  \A l \in Kinds, d \in Who : ~Has(r, l, d)
  BY DEF OneHand

LEMMA DeferredOnly ==
  ASSUME TypeInv, OneHand, NEW q \in InDeferred
  PROVE  q \in Usable /\ \A l \in Kinds, d \in Who : Has(q, l, d) => l = "deferred"
<1>1. q \in Refs /\ Has(q, "deferred", NoRef) /\ "deferred" \in Kinds /\ NoRef \in Who
  BY DeferredRefs DEF Has, Kinds, Who
<1>. QED  BY <1>1, Only

--------------------------------------------------------------------------------
LEMMA OwnInit == TableInit => OwnInv
<1>. SUFFICES ASSUME TableInit PROVE OwnInv
  OBVIOUS
<1>1. NoRef \notin Refs /\ InDeferred = {} /\ deferred = <<>>
  BY TableAssumption DEF TableInit, InDeferred
<1>2. Usable = Frame[1] /\ free = Frame[1]
  <2>1. 1..1 = {1}
    OBVIOUS
  <2>. QED  BY <2>1 DEF TableInit, PoolInit, Usable
<1>3. \A r \in Refs, k \in Kinds, c \in Who : Has(r, k, c) <=> k = "free" /\ r \in free
  BY <1>1 DEF TableInit, PoolInit, Idle, NotEnding, Has, Kinds, PerClient, Who
<1>4. NoRef \in Who /\ "free" \in Kinds /\ "free" \notin PerClient
  BY DEF Who, Kinds, PerClient
<1>5. OneHand
  BY <1>2, <1>3, <1>4 DEF OneHand
<1>. QED  BY <1>1, <1>5 DEF OwnInv, Distinct, TableInit, Idle

LEMMA OwnStep == TypeInv /\ OwnInv /\ [TableNext]_tableVars => OwnInv'
<1>. SUFFICES ASSUME TypeInv, OwnInv, [TableNext]_tableVars PROVE OwnInv'
  OBVIOUS
<1>. USE DEF poolVars, grantVars, callbackVars, deferVars
<1>0. OneHand /\ NoRef \notin Refs
  BY TableAssumption DEF OwnInv
<1>1. ASSUME NEW c \in Clients, NEW n \in 1..MaxRequest, Alloc(c, n) PROVE OwnInv'
  <2>1. PICK S : /\ GetFreeEntries(n, S) /\ private' = [private EXCEPT ![c] = S]
                 /\ private[c] = {} /\ UNCHANGED <<held, ending, deferVars>>
    BY <1>1 DEF Alloc, AllocGrantReferences
  <2>2. PICK G \in SUBSET Refs :
           /\ S \subseteq free \cup G /\ free' = (free \cup G) \ S
           /\ Usable' = Usable \cup G /\ Usable \cap G = {}
    BY <1>0, <2>1, Taken
  <2>3. \A r \in free : \A l \in Kinds, d \in Who : Has(r, l, d) => l = "free"
    BY <1>0, Only DEF Has, Kinds, Who, TypeInv, TableTypeOK
  <2>4. \A r \in G : \A l \in Kinds, d \in Who : ~Has(r, l, d)
    BY <1>0, <2>2, Fresh
  <2>5. \A r \in free : r \in Usable
    BY <1>0, Only DEF Has, Kinds, Who, TypeInv, TableTypeOK
  <2>6. Moved(S \cup G, [q \in Refs |-> IF q \in S THEN "private" ELSE "free"],
              [q \in Refs |-> c])
    BY <1>0, <2>1, <2>2, <2>3, <2>4, <2>5
      
       DEF Moved, Has, Kinds, PerClient, Who, TypeInv, TableTypeOK, InDeferred
  <2>. QED  BY <1>0, <2>1, <2>6, Reassign DEF OwnInv, Distinct
<1>2. ASSUME NEW c \in Clients, NEW r \in Refs, Claim(c, r) PROVE OwnInv'
  <2>1. /\ r \in private[c]
        /\ private' = [private EXCEPT ![c] = @ \ {r}] /\ held' = [held EXCEPT ![c] = @ \cup {r}]
        /\ UNCHANGED <<free, ending, deferVars>> /\ Usable' = Usable
    BY <1>2, SameUsable DEF Claim, ClaimGrantReference
  <2>2. r \in Usable /\ \A l \in Kinds, d \in Who : Has(r, l, d) => l = "private" /\ d = c
    BY <1>0, <2>1, Only DEF Has, Kinds, PerClient, Who
  <2>3. Moved({r}, [q \in Refs |-> "held"], [q \in Refs |-> c])
    BY <1>0, <2>1, <2>2
       DEF Moved, Has, Kinds, PerClient, Who, TypeInv, TableTypeOK, InDeferred
  <2>. QED  BY <1>0, <2>1, <2>2, <2>3, Reassign DEF OwnInv, Distinct
<1>3. ASSUME NEW c \in Clients, NEW r \in Refs, EndAccessAndRelease(c, r) PROVE OwnInv'
  <2>1. /\ r \in held[c]
        /\ held' = [held EXCEPT ![c] = @ \ {r}] /\ private' = [private EXCEPT ![c] = @ \cup {r}]
        /\ UNCHANGED <<free, ending, deferVars>> /\ Usable' = Usable
    BY <1>3, SameUsable DEF EndAccessAndRelease, ReleaseGrantReference
  <2>2. r \in Usable /\ \A l \in Kinds, d \in Who : Has(r, l, d) => l = "held" /\ d = c
    BY <1>0, <2>1, Only DEF Has, Kinds, PerClient, Who
  <2>3. Moved({r}, [q \in Refs |-> "private"], [q \in Refs |-> c])
    BY <1>0, <2>1, <2>2
       DEF Moved, Has, Kinds, PerClient, Who, TypeInv, TableTypeOK, InDeferred
  <2>. QED  BY <1>0, <2>1, <2>2, <2>3, Reassign DEF OwnInv, Distinct
<1>4. ASSUME NEW c \in Clients, NEW r \in Refs, NEW p \in BOOLEAN, EndForeignAccess(c, r, p)
     PROVE OwnInv'
  <2>1. /\ r \in held[c] /\ ending[c].ref = NoRef
        /\ held' = [held EXCEPT ![c] = @ \ {r}]
        /\ ending' = [ending EXCEPT ![c] = [ref |-> r, page |-> p, ended |-> shared[r] # "mapped"]]
        /\ UNCHANGED <<private, free, deferVars>> /\ Usable' = Usable
    BY <1>4, SameUsable DEF EndForeignAccess, NotEnding
  <2>2. r \in Usable /\ \A l \in Kinds, d \in Who : Has(r, l, d) => l = "held" /\ d = c
    BY <1>0, <2>1, Only DEF Has, Kinds, PerClient, Who
  <2>3. \A d \in Clients : ending'[d].ref = IF d = c THEN r ELSE ending[d].ref
    BY <2>1 DEF TypeInv, TableTypeOK
  <2>4. \A d \in Clients : ending'[d].ref = NoRef => ending'[d] = NotEnding
    BY <1>0, <2>1, <2>3 DEF OwnInv, TypeInv, TableTypeOK
  <2>5. Moved({r}, [q \in Refs |-> "ending"], [q \in Refs |-> c])
    BY <1>0, <2>1, <2>2, <2>3, <2>4
       DEF Moved, Has, Kinds, PerClient, Who, TypeInv, TableTypeOK, InDeferred
  <2>. QED  BY <1>0, <2>1, <2>2, <2>3, <2>4, <2>5, Reassign DEF OwnInv, Distinct
<1>5. ASSUME NEW c \in Clients, NEW r \in Refs, EndForeignTransfer(c, r) PROVE OwnInv'
  <2>1. /\ r \in held[c] /\ held' = [held EXCEPT ![c] = @ \ {r}] /\ free' = free \cup {r}
        /\ UNCHANGED <<private, ending, deferVars>> /\ Usable' = Usable
    BY <1>5, SameUsable DEF EndForeignTransfer, FreeGrantReference, PutFreeEntries
  <2>2. r \in Usable /\ \A l \in Kinds, d \in Who : Has(r, l, d) => l = "held" /\ d = c
    BY <1>0, <2>1, Only DEF Has, Kinds, PerClient, Who
  <2>3. Moved({r}, [q \in Refs |-> "free"], [q \in Refs |-> c])
    BY <1>0, <2>1, <2>2
       DEF Moved, Has, Kinds, PerClient, Who, TypeInv, TableTypeOK, InDeferred
  <2>. QED  BY <1>0, <2>1, <2>2, <2>3, Reassign DEF OwnInv, Distinct
<1>6. ASSUME NEW c \in Clients, FreePrivate(c) PROVE OwnInv'
  <2>1. /\ free' = free \cup private[c] /\ private' = [private EXCEPT ![c] = {}]
        /\ private[c] \subseteq Refs
        /\ UNCHANGED <<held, ending, deferVars>> /\ Usable' = Usable
    BY <1>6, SameUsable DEF FreePrivate, FreeGrantReferences, PutFreeEntries,
                            TypeInv, TableTypeOK
  <2>2. \A r \in private[c] :
           r \in Usable /\ \A l \in Kinds, d \in Who : Has(r, l, d) => l = "private" /\ d = c
    BY <1>0, <2>1, Only DEF Has, Kinds, PerClient, Who
  <2>3. Moved(private[c], [q \in Refs |-> "free"], [q \in Refs |-> c])
    BY <1>0, <2>1, <2>2
       DEF Moved, Has, Kinds, PerClient, Who, TypeInv, TableTypeOK, InDeferred
  <2>. QED  BY <1>0, <2>1, <2>2, <2>3, Reassign DEF OwnInv, Distinct
<1>7. ASSUME NEW c \in Clients, NEW r \in Refs, r = ending[c].ref, EndPutFreeEntry(c) PROVE OwnInv'
  <2>1. /\ ending' = [ending EXCEPT ![c] = NotEnding] /\ Usable' = Usable
        /\ free' = free \cup {r} /\ UNCHANGED <<private, held, deferVars>>
    BY <1>7, SameUsable DEF EndPutFreeEntry, PutFreeEntries
  <2>2. r \in Usable /\ \A l \in Kinds, d \in Who : Has(r, l, d) => l = "ending" /\ d = c
    BY <1>0, <1>7, Only DEF Has, Kinds, PerClient, Who
  <2>3. \A d \in Clients : ending'[d].ref = IF d = c THEN NoRef ELSE ending[d].ref
    BY <2>1 DEF NotEnding, TypeInv, TableTypeOK
  <2>4. \A d \in Clients : ending'[d].ref = NoRef => ending'[d] = NotEnding
    BY <2>1, <2>3 DEF OwnInv, TypeInv, TableTypeOK
  <2>5. Moved({r}, [q \in Refs |-> "free"], [q \in Refs |-> c])
    BY <1>0, <1>7, <2>1, <2>2, <2>3, <2>4
       DEF Moved, Has, Kinds, PerClient, Who, TypeInv, TableTypeOK, InDeferred
  <2>. QED  BY <1>0, <2>1, <2>2, <2>3, <2>4, <2>5, Reassign DEF OwnInv, Distinct
<1>8. ASSUME NEW c \in Clients, NEW r \in Refs, r = ending[c].ref, LeakDeferred(c) PROVE OwnInv'
  <2>1. /\ ending' = [ending EXCEPT ![c] = NotEnding] /\ Usable' = Usable
        /\ leaked' = leaked \cup {r} /\ UNCHANGED <<free, private, held, deferred, timer, handler>>
    BY <1>8, SameUsable DEF LeakDeferred
  <2>2. r \in Usable /\ \A l \in Kinds, d \in Who : Has(r, l, d) => l = "ending" /\ d = c
    BY <1>0, <1>8, Only DEF Has, Kinds, PerClient, Who
  <2>3. \A d \in Clients : ending'[d].ref = IF d = c THEN NoRef ELSE ending[d].ref
    BY <2>1 DEF NotEnding, TypeInv, TableTypeOK
  <2>4. \A d \in Clients : ending'[d].ref = NoRef => ending'[d] = NotEnding
    BY <2>1, <2>3 DEF OwnInv, TypeInv, TableTypeOK
  <2>5. Moved({r}, [q \in Refs |-> "leaked"], [q \in Refs |-> c])
    BY <1>0, <1>8, <2>1, <2>2, <2>3, <2>4
       DEF Moved, Has, Kinds, PerClient, Who, TypeInv, TableTypeOK, InDeferred
  <2>. QED  BY <1>0, <2>1, <2>2, <2>3, <2>4, <2>5, Reassign DEF OwnInv, Distinct
<1>9. ASSUME NEW c \in Clients, NEW r \in Refs, r = ending[c].ref, AddDeferred(c) PROVE OwnInv'
  <2> DEFINE e == [ref |-> r, page |-> ending[c].page]
  <2>1. /\ ending' = [ending EXCEPT ![c] = NotEnding] /\ Usable' = Usable
        /\ deferred' = Append(deferred, e)
        /\ UNCHANGED <<free, private, held, handler, leaked>>
    BY <1>9, SameUsable DEF AddDeferred
  <2>2. r \in Usable /\ \A l \in Kinds, d \in Who : Has(r, l, d) => l = "ending" /\ d = c
    BY <1>0, <1>9, Only DEF Has, Kinds, PerClient, Who
  <2>3. \A d \in Clients : ending'[d].ref = IF d = c THEN NoRef ELSE ending[d].ref
    BY <2>1 DEF NotEnding, TypeInv, TableTypeOK
  <2>4. \A d \in Clients : ending'[d].ref = NoRef => ending'[d] = NotEnding
    BY <2>1, <2>3 DEF OwnInv, TypeInv, TableTypeOK
  <2>5. /\ deferred \in Seq([ref : Refs, page : BOOLEAN]) /\ Distinct(deferred)
        /\ e \in [ref : Refs, page : BOOLEAN] /\ e.ref \notin RefsOf(deferred)
    BY <2>2 DEF OwnInv, TypeInv, TableTypeOK, Has, Kinds, PerClient, Who, InDeferred, RefsOf
  <2>6. Distinct(Append(deferred, e)) /\ RefsOf(Append(deferred, e)) = RefsOf(deferred) \cup {r}
    BY <2>5, Appended
  <2>7. Distinct(deferred)' /\ InDeferred' = InDeferred \cup {r}
    BY <2>1, <2>6 DEF InDeferred, RefsOf, Distinct
  <2>8. Moved({r}, [q \in Refs |-> "deferred"], [q \in Refs |-> c])
    BY <1>0, <1>9, <2>1, <2>2, <2>3, <2>7 DEF Moved, Has, Kinds, PerClient, Who
  <2>. QED  BY <1>0, <2>1, <2>4, <2>7, <2>8, Reassign DEF OwnInv
<1>10. CASE TimerFires
  <2>1. deferred \in Seq([ref : Refs, page : BOOLEAN]) /\ Distinct(deferred)
        /\ handler.entry = NoRef /\ InDeferred \subseteq Refs /\ RefsOf(deferred) = InDeferred
    BY <1>10, DeferredRefs DEF TimerFires, OwnInv
  <2>2. Usable' = Usable /\ UNCHANGED <<free, private, held, ending, leaked>>
    BY <1>10, SameUsable DEF TimerFires
  <2>3. CASE deferred = <<>>
    <3>1. deferred' = deferred /\ handler' = handler
      BY <1>10, <2>3 DEF TimerFires
    <3>2. Moved({}, [q \in Refs |-> "free"], [q \in Refs |-> NoRef])
      BY <2>2, <3>1 DEF Moved, Has, Kinds, PerClient, Who, InDeferred
    <3>. QED  BY <1>0, <2>2, <3>1, <3>2, Reassign DEF OwnInv, Distinct
  <2>4. CASE deferred # <<>>
    <3>1. TakeEntry(deferred, NoRef, Batch)
      BY <1>10, <2>4 DEF TimerFires
    <3>2. /\ Distinct(deferred)'
          /\ ~handler'.running => handler'.entry = NoRef
          /\ handler'.entry # NoRef => handler'.entry \in InDeferred
          /\ \A q \in Refs : q \in InDeferred' <=> q \in InDeferred /\ q # handler'.entry
      BY <2>1, <2>4, <3>1, Turn
    <3>3. \A q \in InDeferred :
             q \in Usable /\ \A l \in Kinds, d \in Who : Has(q, l, d) => l = "deferred"
      BY <1>0, DeferredOnly
    <3>4. handler'.entry # NoRef => handler'.entry \in Refs /\ handler'.entry \in Usable
      BY <2>1, <3>2, <3>3
    <3>5. \A q \in Refs, l \in Kinds, d \in Who :
             Has(q, l, d)' <=> IF q = handler'.entry THEN l = "handler" ELSE Has(q, l, d)
      <4>. SUFFICES ASSUME NEW q \in Refs, NEW l \in Kinds, NEW d \in Who
                    PROVE  Has(q, l, d)' <=> IF q = handler'.entry THEN l = "handler"
                                             ELSE Has(q, l, d)
        OBVIOUS
      <4>1. CASE q = handler'.entry
        BY <1>0, <2>2, <3>2, <3>3, <4>1 DEF Has, Kinds, PerClient, Who
      <4>2. CASE q # handler'.entry
        BY <1>0, <2>1, <2>2, <3>2, <4>2 DEF Has, Kinds, PerClient, Who
      <4>. QED  BY <4>1, <4>2
    <3>6. Moved({handler'.entry} \ {NoRef}, [q \in Refs |-> "handler"], [q \in Refs |-> NoRef])
      BY <1>0, <2>2, <3>4, <3>5 DEF Moved, Kinds, PerClient, Who
    <3>. QED  BY <1>0, <2>2, <3>2, <3>6, Reassign DEF OwnInv
  <2>. QED  BY <2>3, <2>4
<1>11. ASSUME NEW r \in Refs, r = handler.entry, HandlerFrees PROVE OwnInv'
  <2>1. /\ deferred \in Seq([ref : Refs, page : BOOLEAN]) /\ Distinct(deferred)
        /\ InDeferred \subseteq Refs /\ RefsOf(deferred) = InDeferred
    BY DeferredRefs DEF OwnInv
  <2>2. /\ free' = free \cup {r} /\ Usable' = Usable /\ UNCHANGED <<private, held, ending, leaked>>
        /\ NextTurn(deferred, handler.first, handler.nr)
    BY <1>11, SameUsable DEF HandlerFrees, PutFreeEntries
  <2>3. /\ Distinct(deferred)'
        /\ ~handler'.running => handler'.entry = NoRef
        /\ handler'.entry # NoRef => handler'.entry \in InDeferred
        /\ \A q \in Refs : q \in InDeferred' <=> q \in InDeferred /\ q # handler'.entry
    BY <2>1, <2>2, Turn
  <2>4. r \in Usable /\ \A l \in Kinds, d \in Who : Has(r, l, d) => l = "handler"
    BY <1>0, <1>11, Only DEF Has, Kinds, PerClient, Who
  <2>5. \A q \in InDeferred :
           q \in Usable /\ \A l \in Kinds, d \in Who : Has(q, l, d) => l = "deferred"
    BY <1>0, DeferredOnly
  <2>6. r \notin InDeferred
    BY <2>4 DEF Has, Kinds, PerClient, Who
  <2>7. handler'.entry # NoRef => handler'.entry \in Refs /\ handler'.entry \in Usable
                                 /\ handler'.entry # r
    BY <2>1, <2>3, <2>5, <2>6
  <2>8. \A q \in Refs, l \in Kinds, d \in Who :
           Has(q, l, d)' <=> IF q = handler'.entry THEN l = "handler"
                             ELSE IF q = r THEN l = "free" ELSE Has(q, l, d)
    BY <1>0, <1>11, <2>1, <2>2, <2>3, <2>4, <2>5, <2>6 DEF Has, Kinds, PerClient, Who
  <2>9. Moved({r} \cup ({handler'.entry} \ {NoRef}),
              [q \in Refs |-> IF q = handler'.entry THEN "handler" ELSE "free"],
              [q \in Refs |-> NoRef])
    BY <1>0, <2>2, <2>4, <2>7, <2>8 DEF Moved, Kinds, PerClient, Who
  <2>. QED  BY <1>0, <2>2, <2>3, <2>9, Reassign DEF OwnInv
<1>12. ASSUME NEW r \in Refs, r = handler.entry, HandlerPutsBack PROVE OwnInv'
  <2> DEFINE e == [ref |-> r, page |-> handler.page]
             entries == Append(deferred, e)
  <2>1. r \in Usable /\ \A l \in Kinds, d \in Who : Has(r, l, d) => l = "handler"
    BY <1>0, <1>12, Only DEF Has, Kinds, PerClient, Who
  <2>2. /\ deferred \in Seq([ref : Refs, page : BOOLEAN]) /\ Distinct(deferred)
        /\ InDeferred \subseteq Refs /\ RefsOf(deferred) = InDeferred
        /\ e \in [ref : Refs, page : BOOLEAN] /\ e.ref \notin RefsOf(deferred)
    BY <2>1, DeferredRefs DEF OwnInv, TypeInv, TableTypeOK, Has, Kinds, PerClient, Who
  <2>3. /\ entries \in Seq([ref : Refs, page : BOOLEAN]) /\ Distinct(entries)
        /\ RefsOf(entries) = InDeferred \cup {r}
    BY <2>2, Appended
  <2>4. PICK first : NextTurn(entries, first, handler.nr)
    BY <1>12 DEF HandlerPutsBack
  <2>5. Usable' = Usable /\ UNCHANGED <<free, private, held, ending, leaked>>
    BY <1>12, SameUsable DEF HandlerPutsBack
  <2>6. /\ Distinct(deferred)'
        /\ ~handler'.running => handler'.entry = NoRef
        /\ handler'.entry # NoRef => handler'.entry \in InDeferred \cup {r}
        /\ \A q \in Refs : q \in InDeferred' <=> q \in InDeferred \cup {r} /\ q # handler'.entry
    <3>. HIDE DEF entries
    <3>. QED  BY <2>3, <2>4, Turn
  <2>7. \A q \in InDeferred :
           q \in Usable /\ \A l \in Kinds, d \in Who : Has(q, l, d) => l = "deferred"
    BY <1>0, DeferredOnly
  <2>8. handler'.entry # NoRef => handler'.entry \in Refs /\ handler'.entry \in Usable
    BY <2>1, <2>2, <2>6, <2>7
  <2>9. \A q \in Refs, l \in Kinds, d \in Who :
           Has(q, l, d)' <=> IF q = handler'.entry THEN l = "handler"
                             ELSE IF q = r THEN l = "deferred" ELSE Has(q, l, d)
    <3>. SUFFICES ASSUME NEW q \in Refs, NEW l \in Kinds, NEW d \in Who
                  PROVE  Has(q, l, d)' <=> IF q = handler'.entry THEN l = "handler"
                                           ELSE IF q = r THEN l = "deferred" ELSE Has(q, l, d)
      OBVIOUS
    <3>1. CASE q = handler'.entry
      BY <1>0, <2>1, <2>5, <2>6, <2>7, <3>1 DEF Has, Kinds, PerClient, Who
    <3>2. CASE q # handler'.entry /\ q = r
      BY <1>0, <1>12, <2>1, <2>5, <2>6, <3>2 DEF Has, Kinds, PerClient, Who
    <3>3. CASE q # handler'.entry /\ q # r
      BY <1>0, <1>12, <2>5, <2>6, <3>3 DEF Has, Kinds, PerClient, Who
    <3>. QED  BY <3>1, <3>2, <3>3
  <2>10. Moved({r} \cup ({handler'.entry} \ {NoRef}),
               [q \in Refs |-> IF q = handler'.entry THEN "handler" ELSE "deferred"],
               [q \in Refs |-> NoRef])
    BY <1>0, <2>1, <2>5, <2>8, <2>9 DEF Moved, Kinds, PerClient, Who
  <2>. QED  BY <1>0, <2>5, <2>6, <2>10, Reassign DEF OwnInv
<1>13. ASSUME NEW c \in Clients, NEW r \in Refs, GrantForeignAccess(c, r) PROVE OwnInv'
  <2>1. /\ GetFreeEntries(1, {r}) /\ held' = [held EXCEPT ![c] = @ \cup {r}]
        /\ UNCHANGED <<private, ending, deferVars>> /\ 1 \in 1..MaxRequest
    BY <1>13, PoolAssumption DEF GrantForeignAccess, GetFreeEntry
  <2>2. PICK G \in SUBSET Refs :
           /\ {r} \subseteq free \cup G /\ free' = (free \cup G) \ {r}
           /\ Usable' = Usable \cup G /\ Usable \cap G = {}
    BY <1>0, <2>1, Taken
  <2>3. \A q \in free : q \in Usable /\ \A l \in Kinds, d \in Who : Has(q, l, d) => l = "free"
    BY <1>0, Only DEF Has, Kinds, Who, TypeInv, TableTypeOK
  <2>4. \A q \in G : \A l \in Kinds, d \in Who : ~Has(q, l, d)
    BY <1>0, <2>2, Fresh
  <2>5. Moved({r} \cup G, [q \in Refs |-> IF q = r THEN "held" ELSE "free"], [q \in Refs |-> c])
    BY <1>0, <2>1, <2>2, <2>3, <2>4
      
       DEF Moved, Has, Kinds, PerClient, Who, TypeInv, TableTypeOK, InDeferred
  <2>. QED  BY <1>0, <2>1, <2>5, Reassign DEF OwnInv, Distinct
<1>14. CASE UNCHANGED <<poolVars, ending, deferred, handler, leaked>>
  <2>1. Usable' = Usable
    BY <1>14, SameUsable
  <2>2. Moved({}, [q \in Refs |-> "free"], [q \in Refs |-> NoRef])
    BY <1>14, <2>1 DEF Moved, Has, Kinds, PerClient, Who, InDeferred
  <2>. QED  BY <1>0, <1>14, <2>2, Reassign DEF OwnInv, Distinct
<1>15. ASSUME NEW c \in Clients,
              \/ \E n \in 1..MaxRequest : AllocFails(c, n)
              \/ RequestFreeCallback(c)
              \/ RestartQueue(c)
              \/ KickQueue(c)
              \/ CancelFreeCallback(c)
              \/ \E r \in Refs : GrantForeignAccessRef(c, r) \/ GrantForeignTransferRef(c, r)
       PROVE OwnInv'
  BY <1>14, <1>15 DEF AllocFails, RequestFreeCallback, RestartQueue, KickQueue,
                      CancelFreeCallback, GrantForeignAccessRef, GrantForeignTransferRef
<1>16. CASE RemoteNext \/ UNCHANGED tableVars
  BY <1>14, <1>16 DEF RemoteNext, RemoteMap, RemoteUnmap, RemoteCommit, RemoteComplete, Remote,
                      Restore, tableVars
<1>17. ASSUME NEW c \in Clients, EndPutFreeEntry(c) \/ LeakDeferred(c) \/ AddDeferred(c)
       PROVE  OwnInv'
  <2>1. ending[c].ref \in Refs
    BY <1>17 DEF EndPutFreeEntry, LeakDeferred, AddDeferred, TypeInv
  <2>. QED  BY <1>7, <1>8, <1>9, <1>17, <2>1
<1>18. CASE HandlerFrees \/ HandlerPutsBack
  <2>1. handler.entry \in Refs
    BY <1>18 DEF HandlerFrees, HandlerPutsBack, TypeInv
  <2>. QED  BY <1>11, <1>12, <1>18, <2>1
<1>. QED
  BY <1>1, <1>2, <1>3, <1>4, <1>5, <1>6, <1>10, <1>13, <1>15, <1>16, <1>17, <1>18
     DEF TableNext, ClientNext, HandlerNext

(* One hand for each reference is what the set equations say.              *)
LEMMA OwnConserved == TypeInv /\ OwnInv => RefsConserved
<1>. SUFFICES ASSUME TypeInv, OwnInv PROVE RefsConserved
  OBVIOUS
<1>0. OneHand /\ NoRef \notin Refs
  BY TableAssumption DEF OwnInv
<1>1. /\ free \subseteq Refs /\ leaked \subseteq Refs /\ InDeferred \subseteq Refs
      /\ InEnding \subseteq Refs /\ InHandler \subseteq Refs
      /\ \A c \in Clients : private[c] \subseteq Refs /\ held[c] \subseteq Refs
  BY DeferredRefs DEF TypeInv, TableTypeOK, InEnding, InHandler
<1>2. Usable \subseteq Refs
  <2>1. 1..nr_grant_frames \subseteq 1..MaxFrames
    BY MaxFramesNat DEF TypeInv, TableTypeOK
  <2>. QED  BY <2>1 DEF Usable, Refs
<1> DEFINE P == UNION {private[c] : c \in Clients}
           H == UNION {held[c] : c \in Clients}
           All == free \cup P \cup H \cup InEnding \cup InDeferred \cup InHandler \cup leaked
<1>3. ASSUME NEW r \in Refs PROVE r \in All <=> \E k \in Kinds, c \in Who : Has(r, k, c)
  <2>1. ASSUME r \in free PROVE \E k \in Kinds, d \in Who : Has(r, k, d)
    <3>1. Has(r, "free", NoRef) /\ "free" \in Kinds /\ NoRef \in Who
      BY <2>1 DEF Has, Kinds, Who
    <3>. QED  BY <3>1
  <2>2. ASSUME NEW c \in Clients, r \in private[c]
        PROVE  \E k \in Kinds, d \in Who : Has(r, k, d)
    <3>1. Has(r, "private", c) /\ "private" \in Kinds /\ c \in Who
      BY <2>2 DEF Has, Kinds, PerClient, Who
    <3>. QED  BY <3>1
  <2>3. ASSUME NEW c \in Clients, r \in held[c]
        PROVE  \E k \in Kinds, d \in Who : Has(r, k, d)
    <3>1. Has(r, "held", c) /\ "held" \in Kinds /\ c \in Who
      BY <2>3 DEF Has, Kinds, PerClient, Who
    <3>. QED  BY <3>1
  <2>4. ASSUME NEW c \in Clients, r = ending[c].ref
        PROVE  \E k \in Kinds, d \in Who : Has(r, k, d)
    <3>1. Has(r, "ending", c) /\ "ending" \in Kinds /\ c \in Who
      BY <2>4 DEF Has, Kinds, PerClient, Who
    <3>. QED  BY <3>1
  <2>5. ASSUME r \in InDeferred PROVE \E k \in Kinds, d \in Who : Has(r, k, d)
    <3>1. Has(r, "deferred", NoRef) /\ "deferred" \in Kinds /\ NoRef \in Who
      BY <2>5 DEF Has, Kinds, Who
    <3>. QED  BY <3>1
  <2>6. ASSUME r \in InHandler PROVE \E k \in Kinds, d \in Who : Has(r, k, d)
    <3>1. Has(r, "handler", NoRef) /\ "handler" \in Kinds /\ NoRef \in Who
      BY <2>6 DEF Has, Kinds, Who, InHandler
    <3>. QED  BY <3>1
  <2>7. ASSUME r \in leaked PROVE \E k \in Kinds, d \in Who : Has(r, k, d)
    <3>1. Has(r, "leaked", NoRef) /\ "leaked" \in Kinds /\ NoRef \in Who
      BY <2>7 DEF Has, Kinds, Who
    <3>. QED  BY <3>1
  <2>8. r \in All <=> \/ r \in free \/ r \in InDeferred \/ r \in InHandler \/ r \in leaked
                      \/ \E c \in Clients : r \in private[c]
                      \/ \E c \in Clients : r \in held[c]
                      \/ \E c \in Clients : r = ending[c].ref
    <3>1. /\ r \in P <=> \E c \in Clients : r \in private[c]
          /\ r \in H <=> \E c \in Clients : r \in held[c]
      OBVIOUS
    <3>2. r \in InEnding <=> \E c \in Clients : r = ending[c].ref
      BY <1>0 DEF InEnding
    <3>. HIDE DEF P, H
    <3>. QED  BY <3>1, <3>2
  <2>9. ASSUME NEW k \in Kinds, NEW c \in Who, Has(r, k, c) PROVE r \in All
    <3>. HIDE DEF All
    <3>1. r \in InHandler <=> handler.entry = r
      BY <1>0 DEF InHandler
    <3>. QED  BY <2>8, <2>9, <3>1 DEF Has
  <2>. HIDE DEF All
  <2>. QED  BY <2>1, <2>2, <2>3, <2>4, <2>5, <2>6, <2>7, <2>8, <2>9
<1>4. NothingLost
  <2>1. All \subseteq Refs
    <3>1. P \subseteq Refs /\ H \subseteq Refs
      BY <1>1
    <3>. HIDE DEF P, H
    <3>. QED  BY <1>1, <3>1
  <2>2. \A r \in Refs : r \in Usable <=> r \in All
    BY <1>0, <1>3 DEF OneHand
  <2>3. Usable = All
    <3>. HIDE DEF All
    <3>. QED  BY <1>2, <2>1, <2>2
  <2>. QED  BY <2>3 DEF NothingLost
<1>5. ASSUME NEW r \in Refs
      PROVE  \A k, l \in Kinds, c, d \in Who :
                Has(r, k, c) /\ Has(r, l, d) => k = l /\ (k \in PerClient => c = d)
  BY <1>0 DEF OneHand
<1>6. ASSUME NEW c \in Clients, NEW d \in Clients
      PROVE  /\ c # d => private[c] \cap private[d] = {} /\ held[c] \cap held[d] = {}
             /\ c # d /\ ending[c].ref = ending[d].ref => ending[c].ref = NoRef
             /\ private[c] \cap held[d] = {}
             /\ (private[c] \cup held[c]) \cap
                   (free \cup InEnding \cup InDeferred \cup InHandler \cup leaked) = {}
  <2>1. ending[c].ref # NoRef => ending[c].ref \in Refs
    BY DEF TypeInv, TableTypeOK
  <2>. QED  BY <1>0, <1>1, <1>5, <2>1 DEF Has, Kinds, PerClient, Who, InEnding, InHandler
<1>7. /\ free \cap (InEnding \cup InDeferred \cup InHandler \cup leaked) = {}
      /\ InEnding \cap (InDeferred \cup InHandler \cup leaked) = {}
      /\ InDeferred \cap (InHandler \cup leaked) = {}
      /\ InHandler \cap leaked = {}
  BY <1>0, <1>1, <1>5 DEF Has, Kinds, PerClient, Who, InEnding, InHandler
<1>. QED  BY <1>4, <1>6, <1>7 DEF RefsConserved, NothingTwice, OwnInv, Distinct

(* No reference is lost but by a failed kmalloc, and none is in two hands, *)
(* through growths of the table, failed allocations, operations cut in two *)
(* by the lock, and the timer's retries.                                   *)
THEOREM RefsKept == TableSpec => []RefsConserved
BY TypeInit, TypeStep, OwnInit, OwnStep, OwnConserved, PTL DEF TableSpec

--------------------------------------------------------------------------------
(* Nothing is in a driver's or the handler's hand and on the free list, so *)
(* what goes back adds to the count.                                       *)
LEMMA CountPut ==
  ASSUME TypeInv, CountExact, NEW S \in SUBSET Refs, S \cap free = {}, PutFreeEntries(S)
  PROVE  CountExact'
<1>1. IsFiniteSet(S) /\ IsFiniteSet(free) /\ Cardinality(free) \in Nat /\ Cardinality(S) \in Nat
  BY SubsetFinite DEF TypeInv, TableTypeOK
<1>2. IsFiniteSet(free \cup S)
      /\ Cardinality(free \cup S) = Cardinality(free) + Cardinality(S) - Cardinality(free \cap S)
  BY <1>1, FS_Union
<1>3. Cardinality(free \cap S) = 0
  BY FS_EmptySet
<1>. QED  BY <1>1, <1>2, <1>3 DEF CountExact, PutFreeEntries

LEMMA CountGet ==
  ASSUME TypeInv, OwnInv, CountExact, NEW n \in 1..MaxRequest, NEW S, GetFreeEntries(n, S)
  PROVE  CountExact'
<1>1. PICK G \in SUBSET Refs :
         /\ S \subseteq free \cup G /\ free' = (free \cup G) \ S
         /\ Usable \cap G = {} /\ CountFor(n) = free_count + Cardinality(G)
  BY Taken DEF OwnInv
<1>2. free \subseteq Usable
  BY Only DEF OwnInv, Has, Kinds, Who, TypeInv, TableTypeOK
<1>3. /\ IsFiniteSet(free) /\ IsFiniteSet(G) /\ Cardinality(free) \in Nat
      /\ Cardinality(G) \in Nat
  BY SubsetFinite DEF TypeInv, TableTypeOK
<1>4. IsFiniteSet(free \cup G)
      /\ Cardinality(free \cup G) = Cardinality(free) + Cardinality(G) - Cardinality(free \cap G)
  BY <1>3, FS_Union
<1>5. Cardinality(free \cap G) = 0
  <2>1. free \cap G = {}
    BY <1>1, <1>2
  <2>. QED  BY <2>1, FS_EmptySet
<1>6. Cardinality(free \cup G) = free_count + Cardinality(G)
  BY <1>3, <1>4, <1>5 DEF CountExact
<1>7. IsFiniteSet(S) /\ Cardinality(S) = n /\ free_count' = CountFor(n) - n
  BY <1>1, <1>4, FS_Subset DEF GetFreeEntries
<1>8. IsFiniteSet(free')
      /\ Cardinality(free') = Cardinality(free \cup G) - Cardinality((free \cup G) \cap S)
  BY <1>1, <1>4, <1>7, FS_Difference
<1>9. (free \cup G) \cap S = S
  BY <1>1
<1>. QED  BY <1>1, <1>6, <1>7, <1>8, <1>9 DEF CountExact

LEMMA CountStep == TypeInv /\ OwnInv /\ CountExact /\ [TableNext]_tableVars => CountExact'
<1>. SUFFICES ASSUME TypeInv, OwnInv, CountExact, [TableNext]_tableVars PROVE CountExact'
  OBVIOUS
<1>. USE DEF poolVars, grantVars, callbackVars, deferVars
<1>0. 1 \in 1..MaxRequest /\ RefsConserved
  BY PoolAssumption, OwnConserved
<1>1. ASSUME NEW c \in Clients, NEW n \in 1..MaxRequest, Alloc(c, n) PROVE CountExact'
  BY <1>1, CountGet DEF Alloc, AllocGrantReferences
<1>2. ASSUME NEW c \in Clients, NEW r \in Refs, GrantForeignAccess(c, r) PROVE CountExact'
  BY <1>0, <1>2, CountGet DEF GrantForeignAccess, GetFreeEntry
<1>3. ASSUME NEW c \in Clients, FreePrivate(c) PROVE CountExact'
  <2>1. private[c] \in SUBSET Refs /\ private[c] \cap free = {}
    BY <1>0 DEF RefsConserved, NothingTwice, TypeInv, TableTypeOK
  <2>. QED  BY <1>3, <2>1, CountPut DEF FreePrivate, FreeGrantReferences
<1>4. ASSUME NEW c \in Clients, EndPutFreeEntry(c) PROVE CountExact'
  <2>1. ending[c].ref \in Refs /\ NoRef \notin Refs
    BY <1>4, TableAssumption DEF EndPutFreeEntry, TypeInv
  <2>2. {ending[c].ref} \cap free = {}
    BY <1>0, <2>1 DEF RefsConserved, NothingTwice, InEnding
  <2>. QED  BY <1>4, <2>1, <2>2, CountPut DEF EndPutFreeEntry
<1>5. ASSUME NEW c \in Clients, NEW r \in Refs, EndForeignTransfer(c, r) PROVE CountExact'
  <2>1. {r} \cap free = {}
    BY <1>0, <1>5 DEF RefsConserved, NothingTwice, EndForeignTransfer, FreeGrantReference
  <2>. QED  BY <1>5, <2>1, CountPut DEF EndForeignTransfer, FreeGrantReference
<1>6. CASE HandlerFrees
  <2>1. handler.entry \in Refs /\ NoRef \notin Refs
    BY <1>6, TableAssumption DEF HandlerFrees, TypeInv
  <2>2. {handler.entry} \cap free = {}
    BY <1>0, <2>1 DEF RefsConserved, NothingTwice, InHandler
  <2>. QED  BY <1>6, <2>1, <2>2, CountPut DEF HandlerFrees
<1>7. CASE UNCHANGED <<free, free_count>>
  BY <1>7 DEF CountExact
<1>8. ASSUME NEW c \in Clients,
             \/ \E n \in 1..MaxRequest : AllocFails(c, n)
             \/ RequestFreeCallback(c)
             \/ RestartQueue(c)
             \/ KickQueue(c)
             \/ CancelFreeCallback(c)
             \/ AddDeferred(c)
             \/ LeakDeferred(c)
      PROVE CountExact'
  BY <1>7, <1>8 DEF AllocFails, RequestFreeCallback, RestartQueue, KickQueue,
                    CancelFreeCallback, AddDeferred, LeakDeferred
<1>9. ASSUME NEW c \in Clients, NEW r \in Refs,
             \/ Claim(c, r)
             \/ GrantForeignAccessRef(c, r)
             \/ GrantForeignTransferRef(c, r)
             \/ EndAccessAndRelease(c, r)
             \/ \E p \in BOOLEAN : EndForeignAccess(c, r, p)
      PROVE CountExact'
  BY <1>7, <1>9 DEF Claim, ClaimGrantReference, GrantForeignAccessRef, GrantForeignTransferRef,
                    EndAccessAndRelease, ReleaseGrantReference, EndForeignAccess
<1>10. CASE TimerFires \/ HandlerPutsBack \/ RemoteNext \/ UNCHANGED tableVars
  BY <1>7, <1>10 DEF TimerFires, HandlerPutsBack, RemoteNext, RemoteMap, RemoteUnmap,
                     RemoteCommit, RemoteComplete, Remote, Restore, tableVars
<1>. QED
  BY <1>1, <1>2, <1>3, <1>4, <1>5, <1>6, <1>8, <1>9, <1>10 DEF TableNext, ClientNext, HandlerNext

(* gnttab_free_count is the length of the free list, whoever puts          *)
(* references back and however often the table grows: allocations that     *)
(* trust it never walk off the end of the list.                            *)
THEOREM CountKept == TableSpec => []CountExact
<1>1. TableInit => CountExact
  <2>1. 1 \in 1..MaxFrames
    BY MaxFramesNat
  <2>. QED  BY <2>1, PoolAssumption DEF TableInit, PoolInit, CountExact
<1>. QED  BY TypeInit, TypeStep, OwnInit, OwnStep, <1>1, CountStep, PTL DEF TableSpec

--------------------------------------------------------------------------------
(* What is out of the back end's reach: besides the free references and    *)
(* the freed pages, the entries of frames not mapped yet, which join the   *)
(* free list when the table grows, and a reference whose access has ended  *)
(* and that is on its way back, between the two critical sections.         *)
Blank == {"unused", "completed"}

ReachInv ==
    /\ \A r \in free : shared[r] \in Blank
    /\ \A c \in Clients : \A r \in private[c] : shared[r] \in Blank
    /\ \A r \in freed : shared[r] \notin {"permit", "mapped"}
    /\ \A r \in Refs : r \notin Usable => shared[r] = "unused"
    /\ \A c \in Clients : ending[c].ref # NoRef /\ ending[c].ended
                               => shared[ending[c].ref] = "unused"

LEMMA ReachImplies == ReachInv => NothingReachable
<1>. SUFFICES ASSUME ReachInv PROVE NothingReachable
  OBVIOUS
<1>1. \A r \in UNION {private[c] : c \in Clients} : \E c \in Clients : r \in private[c]
  OBVIOUS
<1>. QED  BY <1>1 DEF ReachInv, NothingReachable, FreeNotGranted, FreedPageUnreachable, Blank

LEMMA ReachInit == TableInit => ReachInv
<1>. SUFFICES ASSUME TableInit PROVE ReachInv
  OBVIOUS
<1>1. free \subseteq Refs
  BY MaxFramesNat DEF TableInit, PoolInit, Refs
<1>. QED  BY <1>1 DEF TableInit, PoolInit, NotEnding, ReachInv, Blank

(* A reference in somebody's hand is none of the others. *)
LEMMA HeldOnly ==
  ASSUME TypeInv, OwnInv, NEW c \in Clients, NEW r \in held[c]
  PROVE  /\ r \in Refs /\ r \in Usable /\ r \notin free
         /\ \A d \in Clients : r \notin private[d] /\ ending[d].ref # r
<1>1. r \in Refs /\ Has(r, "held", c) /\ "held" \in Kinds /\ c \in Who
  BY DEF TypeInv, TableTypeOK, Has, Kinds, PerClient, Who
<1>2. r \in Usable /\ \A l \in Kinds, d \in Who : Has(r, l, d) => l = "held"
  BY <1>1, Only DEF OwnInv
<1>. QED  BY <1>1, <1>2 DEF Has, Kinds, PerClient, Who

LEMMA FreeOnly ==
  ASSUME TypeInv, OwnInv, NEW r \in free
  PROVE  r \in Usable /\ \A d \in Clients : r \notin private[d] /\ ending[d].ref # r
<1>1. r \in Refs /\ Has(r, "free", NoRef) /\ "free" \in Kinds /\ NoRef \in Who
  BY DEF TypeInv, TableTypeOK, Has, Kinds, Who
<1>2. r \in Usable /\ \A l \in Kinds, d \in Who : Has(r, l, d) => l = "free"
  BY <1>1, Only DEF OwnInv
<1>. QED  BY <1>1, <1>2 DEF Has, Kinds, PerClient, Who

LEMMA NewOnly ==
  ASSUME TypeInv, OwnInv, NEW r \in Refs, r \notin Usable
  PROVE  r \notin free /\ \A d \in Clients : r \notin private[d] /\ ending[d].ref # r
BY Fresh DEF OwnInv, Has, Kinds, PerClient, Who

LEMMA ReachStep == TypeInv /\ OwnInv /\ ReachInv /\ [TableNext]_tableVars => ReachInv'
<1>. SUFFICES ASSUME TypeInv, OwnInv, ReachInv, [TableNext]_tableVars PROVE ReachInv'
  OBVIOUS
<1>. USE DEF poolVars, grantVars, callbackVars, deferVars
<1>0. OneHand /\ NoRef \notin Refs /\ 1 \in 1..MaxRequest
  BY TableAssumption, PoolAssumption DEF OwnInv
<1>1. ASSUME NEW c \in Clients, NEW n \in 1..MaxRequest, Alloc(c, n) PROVE ReachInv'
  <2>1. PICK S : /\ GetFreeEntries(n, S) /\ private' = [private EXCEPT ![c] = S]
                 /\ UNCHANGED <<ending, grantVars>>
    BY <1>1 DEF Alloc, AllocGrantReferences
  <2>2. PICK G \in SUBSET Refs :
           /\ S \subseteq free \cup G /\ free' = (free \cup G) \ S
           /\ Usable' = Usable \cup G /\ Usable \cap G = {}
    BY <1>0, <2>1, Taken
  <2>3. \A r \in free \cup G : shared[r] \in Blank
    BY <2>2 DEF ReachInv, Blank
  <2>. QED  BY <2>1, <2>2, <2>3 DEF ReachInv, TypeInv, TableTypeOK
<1>2. ASSUME NEW c \in Clients, NEW r \in Refs, GrantForeignAccess(c, r) PROVE ReachInv'
  <2>1. /\ GetFreeEntries(1, {r}) /\ shared' = [shared EXCEPT ![r] = "permit"]
        /\ freed' = freed \ {r} /\ UNCHANGED <<private, ending>>
    BY <1>2 DEF GrantForeignAccess, GetFreeEntry
  <2>2. PICK G \in SUBSET Refs :
           /\ r \in free \cup G /\ free' = (free \cup G) \ {r}
           /\ Usable' = Usable \cup G /\ Usable \cap G = {}
    BY <1>0, <2>1, Taken
  <2>3. \A q \in free \cup G : shared[q] \in Blank
    BY <2>2 DEF ReachInv, Blank
  <2>4. r \in Usable' /\ \A d \in Clients : r \notin private[d] /\ ending[d].ref # r
    BY <2>2, FreeOnly, NewOnly
  <2>. QED  BY <1>0, <2>1, <2>2, <2>3, <2>4 DEF ReachInv, TypeInv, TableTypeOK
<1>3. ASSUME NEW c \in Clients, FreePrivate(c) PROVE ReachInv'
  <2>1. /\ free' = free \cup private[c] /\ private' = [private EXCEPT ![c] = {}]
        /\ UNCHANGED <<ending, grantVars>> /\ Usable' = Usable
    BY <1>3, SameUsable DEF FreePrivate, FreeGrantReferences, PutFreeEntries
  <2>. QED  BY <2>1 DEF ReachInv, TypeInv, TableTypeOK
<1>4. ASSUME NEW c \in Clients, EndPutFreeEntry(c) PROVE ReachInv'
  <2>1. /\ free' = free \cup {ending[c].ref} /\ ending[c].ended /\ ending[c].ref \in Refs
        /\ freed' \subseteq freed \cup {ending[c].ref} /\ Usable' = Usable
        /\ ending' = [ending EXCEPT ![c] = NotEnding] /\ UNCHANGED <<private, shared>>
    BY <1>4, SameUsable DEF EndPutFreeEntry, PutFreeEntries, PageAfter, TypeInv
  <2>2. shared[ending[c].ref] = "unused"
    BY <1>0, <2>1 DEF ReachInv
  <2>. QED  BY <2>1, <2>2 DEF ReachInv, Blank, NotEnding, TypeInv, TableTypeOK
<1>5. ASSUME NEW c \in Clients, NEW r \in Refs, Claim(c, r) PROVE ReachInv'
  <2>1. /\ private' = [private EXCEPT ![c] = @ \ {r}]
        /\ UNCHANGED <<free, ending, grantVars>> /\ Usable' = Usable
    BY <1>5, SameUsable DEF Claim, ClaimGrantReference
  <2>. QED  BY <2>1 DEF ReachInv, TypeInv, TableTypeOK
<1>6. ASSUME NEW c \in Clients, NEW r \in Refs,
             GrantForeignAccessRef(c, r) \/ GrantForeignTransferRef(c, r)
      PROVE ReachInv'
  <2>1. /\ r \in held[c] /\ UNCHANGED <<free, private, ending>> /\ Usable' = Usable
        /\ \/ shared' = [shared EXCEPT ![r] = "permit"] /\ freed' = freed \ {r}
           \/ shared' = [shared EXCEPT ![r] = "accept"] /\ freed' = freed
    BY <1>6, SameUsable DEF GrantForeignAccessRef, GrantForeignTransferRef
  <2>2. r \in Usable /\ r \notin free
        /\ \A d \in Clients : r \notin private[d] /\ ending[d].ref # r
    BY <2>1, HeldOnly
  <2>3. CASE shared' = [shared EXCEPT ![r] = "permit"] /\ freed' = freed \ {r}
    BY <2>1, <2>2, <2>3 DEF ReachInv, TypeInv, TableTypeOK
  <2>4. CASE shared' = [shared EXCEPT ![r] = "accept"] /\ freed' = freed
    BY <2>1, <2>2, <2>4 DEF ReachInv, TypeInv, TableTypeOK
  <2>. QED  BY <2>1, <2>3, <2>4
<1>7. ASSUME NEW c \in Clients, NEW r \in Refs, EndAccessAndRelease(c, r) PROVE ReachInv'
  <2>1. /\ shared' = [shared EXCEPT ![r] = "unused"] /\ freed' = freed /\ Usable' = Usable
        /\ private' = [private EXCEPT ![c] = @ \cup {r}] /\ UNCHANGED <<free, ending>>
    BY <1>7, SameUsable DEF EndAccessAndRelease, ReleaseGrantReference
  <2>. QED  BY <2>1 DEF ReachInv, Blank, TypeInv, TableTypeOK
<1>8. ASSUME NEW c \in Clients, NEW r \in Refs, EndForeignTransfer(c, r) PROVE ReachInv'
  <2>1. /\ shared[r] \in {"accept", "completed"}
        /\ shared' = [shared EXCEPT ![r] = IF @ = "accept" THEN "unused" ELSE @]
        /\ free' = free \cup {r} /\ UNCHANGED <<freed, private, ending>> /\ Usable' = Usable
    BY <1>8, SameUsable DEF EndForeignTransfer, FreeGrantReference, PutFreeEntries
  <2>. QED  BY <2>1 DEF ReachInv, Blank, TypeInv, TableTypeOK
<1>9. ASSUME NEW c \in Clients, NEW r \in Refs, NEW p \in BOOLEAN, EndForeignAccess(c, r, p)
      PROVE ReachInv'
  <2>1. /\ shared' = [shared EXCEPT ![r] = IF @ = "mapped" THEN @ ELSE "unused"]
        /\ ending' = [ending EXCEPT ![c] =
                         [ref |-> r, page |-> p, ended |-> shared[r] # "mapped"]]
        /\ UNCHANGED <<free, private, freed>> /\ Usable' = Usable
    BY <1>9, SameUsable DEF EndForeignAccess
  <2>2. \A q \in Refs : shared'[q] = shared[q] \/ shared'[q] = "unused"
    BY <2>1 DEF TypeInv, TableTypeOK
  <2>3. shared[r] # "mapped" => shared'[r] = "unused"
    BY <2>1 DEF TypeInv, TableTypeOK
  <2>4. \A d \in Clients : IF d = c
                           THEN ending'[d].ref = r /\ ending'[d].ended = (shared[r] # "mapped")
                           ELSE ending'[d] = ending[d]
    BY <2>1 DEF TypeInv, TableTypeOK
  <2>5. \A d \in Clients : ending[d].ref # NoRef => ending[d].ref \in Refs
    BY DEF TypeInv, TableTypeOK
  <2>6. \A d \in Clients : ending'[d].ref # NoRef /\ ending'[d].ended
                             => shared'[ending'[d].ref] = "unused"
    BY <2>2, <2>3, <2>4, <2>5 DEF ReachInv
  <2>. QED  BY <2>1, <2>2, <2>6 DEF ReachInv, Blank, TypeInv, TableTypeOK
<1>10. ASSUME NEW c \in Clients, AddDeferred(c) \/ LeakDeferred(c) PROVE ReachInv'
  <2>1. /\ ending' = [ending EXCEPT ![c] = NotEnding] /\ Usable' = Usable
        /\ UNCHANGED <<free, private, grantVars>>
    BY <1>10, SameUsable DEF AddDeferred, LeakDeferred
  <2>. QED  BY <2>1 DEF ReachInv, NotEnding, TypeInv, TableTypeOK
<1>11. CASE HandlerFrees
  <2>1. /\ handler.entry \in Refs /\ shared' = [shared EXCEPT ![handler.entry] = "unused"]
        /\ free' = free \cup {handler.entry} /\ freed' \subseteq freed \cup {handler.entry}
        /\ UNCHANGED <<private, ending>> /\ Usable' = Usable
    BY <1>11, SameUsable DEF HandlerFrees, PutFreeEntries, PageAfter, TypeInv
  <2>. QED  BY <2>1 DEF ReachInv, Blank, TypeInv, TableTypeOK
<1>12. ASSUME NEW r \in Refs, NEW from \in Flags, NEW to \in Flags, Remote(r, from, to),
              from \notin Blank, to \in {"permit", "mapped"} => from \in {"permit", "mapped"}
       PROVE ReachInv'
  <2>1. /\ shared[r] = from /\ shared' = [shared EXCEPT ![r] = to]
        /\ UNCHANGED <<free, private, freed, ending>> /\ Usable' = Usable
    BY <1>12, SameUsable DEF Remote
  <2>. QED  BY <1>12, <2>1 DEF ReachInv, Blank, TypeInv, TableTypeOK
<1>13. CASE Restore
  <2>1. /\ shared' = [r \in Refs |-> "unused"] /\ Usable' = Usable
        /\ UNCHANGED <<free, private, freed, ending>>
    BY <1>13, SameUsable DEF Restore
  <2>. QED  BY <2>1 DEF ReachInv, Blank, TypeInv, TableTypeOK
<1>14. CASE RemoteNext
  BY <1>12, <1>13, <1>14
     DEF RemoteNext, RemoteMap, RemoteUnmap, RemoteCommit, RemoteComplete, Flags, Blank
<1>15. CASE UNCHANGED <<poolVars, grantVars, ending>>
  BY <1>15, SameUsable DEF ReachInv
<1>16. ASSUME NEW c \in Clients,
              \/ \E n \in 1..MaxRequest : AllocFails(c, n)
              \/ RequestFreeCallback(c)
              \/ RestartQueue(c)
              \/ KickQueue(c)
              \/ CancelFreeCallback(c)
       PROVE ReachInv'
  BY <1>15, <1>16 DEF AllocFails, RequestFreeCallback, RestartQueue, KickQueue, CancelFreeCallback
<1>17. CASE TimerFires \/ HandlerPutsBack \/ UNCHANGED tableVars
  BY <1>15, <1>17 DEF TimerFires, HandlerPutsBack, tableVars
<1>. QED
  BY <1>1, <1>2, <1>3, <1>4, <1>5, <1>6, <1>7, <1>8, <1>9, <1>10, <1>11, <1>14, <1>16, <1>17
     DEF TableNext, ClientNext, HandlerNext

(* A reference on a free list is not one the hypervisor honours, and a     *)
(* freed page is not one the back end can map, although the back end maps  *)
(* and unmaps when it likes, also between the end of access and the return *)
(* of the reference, and although a reference taken for free may come from *)
(* a frame the table has just grown by.                                    *)
THEOREM OutOfReach == TableSpec => []NothingReachable
BY TypeInit, TypeStep, OwnInit, OwnStep, ReachInit, ReachStep, ReachImplies, PTL DEF TableSpec

--------------------------------------------------------------------------------
(* BlkUnplug. *)

Typed ==
    /\ left \in [openers : Nat, unplugs : Nat, migrations : Nat,
                 may : SUBSET {"sudden", "force", "cross", "twice", "late", "fail",
                               "refuse", "hasty"}]
    /\ info \in {"live", "freed"}
    /\ drvdata \in BOOLEAN /\ private_data \in BOOLEAN /\ gd \in BOOLEAN /\ xbdev \in BOOLEAN
    /\ device \in {"bound", "leaving", "bdev", "gone"}
    /\ state \in {"Initialising", "Initialised", "Connected", "Closing", "Closed"}
    /\ back \in {"Initialising", "InitWait", "Connected", "Closing", "Closed", "Deleted"}
    /\ connected \in {"disconnected", "connected", "suspended"}
    /\ events \in Nat /\ users \in Nat /\ openers \in Nat /\ found \in {0, 1}
    /\ rel \in {"none", "mutex", "gone"}
    /\ pc \in [Threads -> {"idle", "start", "wait", "state", "lock", "bdev"}]
    /\ late \in [Threads -> BOOLEAN]

(* Who can be where. *)
Placed ==
    /\ xbdev <=> device \in {"bound", "leaving"}
    /\ back = "Deleted" <=> device # "bound"
    /\ \A t \in Threads :
         /\ pc[t] # "idle" => device = "bound" /\ "late" \notin left.may
         /\ pc[t] \in {"lock", "bdev"} => back \in {"Closing", "Closed"}
    /\ "fail" \in left.may => Quiet \/ back \in {"Closing", "Closed"}
    /\ back \in {"Closing", "Closed"} => "late" \notin left.may
    /\ found > 0 => "late" \in left.may
    /\ back = "Closed" => state = "Closed"
    /\ state = "Closed" => back # "Connected"

(* The first connection has been given up and info freed at once.          *)
GivenUp ==
    /\ device = "bound" /\ back = "InitWait" /\ state = "Closing"
    /\ ~InfoLive /\ ~private_data /\ ~gd /\ openers = 0 /\ rel = "none" /\ found = 0
    /\ "fail" \in left.may

(* While the device is there, info is; a failing talk_to_blkback is met    *)
(* only before there is a disk.                                            *)
Held ==
    /\ drvdata \/ GivenUp
    /\ xbdev /\ drvdata => InfoLive
    /\ "fail" \in left.may /\ state = "Initialising" =>
         ~private_data /\ ~gd /\ openers = 0 /\ rel = "none" /\ found = 0 /\ connected = "disconnected"

(* What the disk's state says of its users, and of the connection.         *)
DiskKept ==
    /\ users = openers /\ openers <= left.openers
    /\ rel # "none" => openers < left.openers
    /\ gd => private_data
    /\ xbdev /\ (openers > 0 \/ found > 0 \/ rel # "none") => gd
    /\ rel = "mutex" => InfoLive
    /\ rel = "gone" => ~xbdev /\ InfoLive
    /\ state = "Closed" /\ xbdev => ~gd
    /\ xbdev /\ gd /\ state = "Closing" =>
         /\ "refuse" \in left.may /\ back \in {"InitWait", "Deleted"}
         /\ connected = "disconnected"
    /\ xbdev /\ gd /\ connected = "disconnected" => state = "Closing"
    /\ connected = "suspended" => back \in {"Initialising", "InitWait", "Deleted"}
    /\ connected = "suspended" /\ device = "bound" => state = "Initialising"
    /\ back \in {"Initialising", "InitWait", "Connected"} /\ connected # "disconnected" => gd

(* After remove the disk alone holds info, and the last release frees it.  *)
Removed ==
    /\ device # "bound" /\ gd => left.openers <= 1
    /\ state = "Closed" => ~gd
    /\ ~xbdev /\ InfoLive => gd
    /\ ~xbdev /\ ~InfoLive => ~gd /\ openers = 0 /\ rel = "none" /\ (found > 0 => ~private_data)
    /\ device = "bdev" => gd /\ rel = "none"
    /\ device = "gone" /\ InfoLive => openers > 0 \/ rel # "none"

UInv == Typed /\ Orderly(left) /\ bug = FALSE /\ Placed /\ Held /\ DiskKept /\ Removed

--------------------------------------------------------------------------------
(* A device that has just been probed satisfies the invariant.             *)
LEMMA UInit ==
  ASSUME \A c \in Cases : Orderly(c), Init
  PROVE  UInv
  <1>. USE UnplugAssumption DEF Init, InfoLive, Quiet
  <1>1. Typed /\ Orderly(left) /\ bug = FALSE
    BY DEF Typed
  <1>2. Placed /\ Held
    BY DEF Placed, Held
  <1>3. DiskKept /\ Removed
    BY <1>1 DEF Typed, DiskKept, Removed
  <1>. QED BY <1>1, <1>2, <1>3 DEF UInv

(* Every handler of xenwatch, every call of the block layer, every step of *)
(* an unplug thread and of the tools keeps the invariant.                  *)
LEMMA UStep == UInv /\ [Next]_vars => UInv'
  <1>. SUFFICES ASSUME UInv, [Next]_vars PROVE UInv'
    OBVIOUS
  <1>. USE DEF UInv, dev, disk, peer, threads, Uses, InfoLive, Quiet
  <1>1. CASE BackInitWait
    <2>. USE <1>1 DEF BackInitWait, Watch, May
    <2>1. Typed'
      <3>1. state' \in {"Initialising", "Initialised", "Connected", "Closing", "Closed"}
        BY DEF Typed
      <3>2. events' \in Nat
        BY DEF Typed
      <3>3. drvdata' \in BOOLEAN /\ info' \in {"live", "freed"}
        BY DEF Typed
      <3>4. connected' \in {"disconnected", "connected", "suspended"}
        BY DEF Typed
      <3>. QED BY <3>1, <3>2, <3>3, <3>4 DEF Typed
    <2>2. Orderly(left)'
      BY DEF Typed, Orderly
    <2>3. bug' = FALSE
      BY DEF Typed, Placed, Held, GivenUp, DiskKept, Removed
    <2>4. Placed'
      BY DEF Typed, Placed, Held, GivenUp, DiskKept
    <2>5. Held'
      BY DEF Typed, Placed, Held, GivenUp, DiskKept, Orderly
    <2>6. DiskKept'
      BY DEF Typed, Orderly, Placed, Held, GivenUp, DiskKept, Removed
    <2>7. Removed'
      BY DEF Typed, Orderly, Placed, Held, GivenUp, DiskKept, Removed
    <2>. QED BY <2>1, <2>2, <2>3, <2>4, <2>5, <2>6, <2>7
  <1>2. CASE BackConnected
    <2>. USE <1>2 DEF BackConnected, Watch
    <2>1. Typed'
      <3>1. gd' \in BOOLEAN /\ private_data' \in BOOLEAN
        BY Zenon DEF Typed
      <3>2. events' \in Nat
        BY DEF Typed
      <3>. QED BY <3>1, <3>2 DEF Typed
    <2>2. Orderly(left)'
      BY DEF Typed, Orderly
    <2>3. bug' = FALSE
      BY DEF Typed, Placed, Held, GivenUp, DiskKept, Removed
    <2>4. Placed'
      BY DEF Typed, Placed, Held, GivenUp, DiskKept
    <2>5. Held'
      BY DEF Typed, Placed, Held, GivenUp, DiskKept, Orderly
    <2>6. DiskKept'
      <3>1. /\ device = "bound" /\ xbdev /\ back = "Connected" /\ state # "Closed"
            /\ connected \in {"disconnected", "connected"} /\ (gd => private_data)
            /\ gd <=> connected = "connected"
            /\ gd => state # "Closing"
        BY DEF Typed, Placed, DiskKept
      <3>2. /\ gd' <=> connected' = "connected"
            /\ gd' => private_data' /\ state' # "Closing"
            /\ gd => gd'
            /\ state' # "Closed" /\ connected' # "suspended"
        <4>1. CASE connected = "connected"
          <5>1. gd' /\ private_data'
            BY <3>1, <4>1, Zenon
          <5>2. connected' = "connected" /\ state' = state
            BY <3>1, <4>1
          <5>. QED BY <3>1, <4>1, <5>1, <5>2
        <4>2. CASE connected = "disconnected" /\ connected' = "connected"
          <5>1. gd' /\ private_data'
            BY <4>2, Zenon
          <5>2. state' = "Connected"
            BY <4>2
          <5>. QED BY <3>1, <4>2, <5>1, <5>2
        <4>3. CASE connected = "disconnected" /\ connected' # "connected"
          BY <3>1, <4>3
        <4>. QED BY <3>1, <4>1, <4>2, <4>3
      <3>. QED BY <3>1, <3>2 DEF Typed, DiskKept
    <2>7. Removed'
      BY DEF Typed, Orderly, Placed, Held, GivenUp, DiskKept, Removed
    <2>. QED BY <2>1, <2>2, <2>3, <2>4, <2>5, <2>6, <2>7
  <1>3. CASE BackClosing
    <2>. USE <1>3 DEF BackClosing, Watch
    <2>1. Typed'
      BY DEF Typed, DiskKept
    <2>2. Orderly(left)'
      BY DEF Typed, Orderly
    <2>3. bug' = FALSE
      BY DEF Typed, Placed, Held, GivenUp, DiskKept, Removed
    <2>4. Placed'
      BY DEF Typed, Placed, Held, GivenUp, DiskKept
    <2>5. Held'
      BY DEF Typed, Placed, Held, GivenUp, DiskKept, Orderly
    <2>6. DiskKept'
      BY DEF Typed, Orderly, Placed, Held, GivenUp, DiskKept, Removed
    <2>7. Removed'
      BY DEF Typed, Orderly, Placed, Held, GivenUp, DiskKept, Removed
    <2>. QED BY <2>1, <2>2, <2>3, <2>4, <2>5, <2>6, <2>7
  <1>4. CASE BackOther
    BY <1>4 DEF BackOther, Watch, Typed, Orderly, Placed, Held, GivenUp, DiskKept, Removed
  <1>5. CASE Remove
    <2>. USE <1>5 DEF Remove, May
    <2>1. Typed'
      BY DEF Typed, DiskKept
    <2>2. Orderly(left)'
      BY DEF Typed, Orderly
    <2>3. bug' = FALSE
      BY DEF Typed, Placed, Held, GivenUp, DiskKept, Removed
    <2>4. Placed'
      BY DEF Typed, Placed, Held, GivenUp, DiskKept
    <2>5. Held'
      BY DEF Typed, Placed, Held, GivenUp, DiskKept, Orderly
    <2>6. DiskKept'
      BY DEF Typed, Orderly, Placed, Held, GivenUp, DiskKept, Removed
    <2>7. Removed'
      BY DEF Typed, Orderly, Placed, Held, GivenUp, DiskKept, Removed
    <2>. QED BY <2>1, <2>2, <2>3, <2>4, <2>5, <2>6, <2>7
  <1>6. CASE RemoveDisk
    <2>. USE <1>6 DEF RemoveDisk, ReleaseGendisk, DiskThere
    <2>1. Typed'
      <3>1. gd' \in BOOLEAN /\ private_data' \in BOOLEAN /\ info' \in {"live", "freed"}
        BY DEF Typed
      <3>. QED BY <3>1 DEF Typed
    <2>2. Orderly(left)'
      BY DEF Typed, Orderly
    <2>3. bug' = FALSE
      BY DEF Typed, Placed, Held, GivenUp, DiskKept, Removed
    <2>4. Placed'
      BY DEF Typed, Placed, Held, GivenUp, DiskKept
    <2>5. Held'
      BY DEF Typed, Placed, Held, GivenUp, DiskKept, Orderly
    <2>6. DiskKept'
      BY DEF Typed, Orderly, Placed, Held, GivenUp, DiskKept, Removed
    <2>7. Removed'
      <3>1. gd /\ private_data /\ InfoLive /\ rel = "none" /\ ~xbdev /\ device' = "gone"
        BY DEF Placed, DiskKept, Removed
      <3>2. CASE openers = 0
        <4>1. ~gd' /\ ~private_data' /\ info' = "freed"
          BY <3>1, <3>2
        <4>. QED BY <3>1, <3>2, <4>1 DEF Removed
      <3>3. CASE openers # 0
        <4>1. UNCHANGED <<gd, private_data, info>> /\ openers > 0
          BY <3>3 DEF Typed
        <4>. QED BY <3>1, <4>1 DEF Removed
      <3>. QED BY <3>2, <3>3
    <2>. QED BY <2>1, <2>2, <2>3, <2>4, <2>5, <2>6, <2>7
  <1>7. CASE Find
    BY <1>7 DEF Find, May, Typed, Orderly, Placed, Held, GivenUp, DiskKept, Removed
  <1>8. CASE Open
    <2>. USE <1>8 DEF Open
    <2>1. Typed'
      BY DEF Typed, DiskKept
    <2>2. Orderly(left)'
      BY DEF Typed, Orderly
    <2>3. bug' = FALSE
      BY DEF Typed, Placed, Held, GivenUp, DiskKept, Removed
    <2>4. Placed'
      BY DEF Typed, Placed, Held, GivenUp, DiskKept
    <2>5. Held'
      BY DEF Typed, Placed, Held, GivenUp, DiskKept, Orderly
    <2>6. DiskKept'
      BY DEF Typed, Orderly, Placed, Held, GivenUp, DiskKept, Removed
    <2>7. Removed'
      BY DEF Typed, Orderly, Placed, Held, GivenUp, DiskKept, Removed
    <2>. QED BY <2>1, <2>2, <2>3, <2>4, <2>5, <2>6, <2>7
  <1>9. CASE Release
    <2>. USE <1>9 DEF Release, May
    <2>1. Typed'
      BY DEF Typed, DiskKept
    <2>2. Orderly(left)'
      BY DEF Typed, Orderly
    <2>3. bug' = FALSE
      <3>1. info = "live"
        BY DEF Typed, Placed, Held, GivenUp, DiskKept, Removed
      <3>. QED BY <3>1
    <2>4. Placed'
      BY DEF Typed, Placed, Held, GivenUp, DiskKept
    <2>5. Held'
      BY DEF Typed, Placed, Held, GivenUp, DiskKept, Orderly
    <2>6. DiskKept'
      BY DEF Typed, Orderly, Placed, Held, GivenUp, DiskKept, Removed
    <2>7. Removed'
      BY DEF Typed, Orderly, Placed, Held, GivenUp, DiskKept, Removed
    <2>. QED BY <2>1, <2>2, <2>3, <2>4, <2>5, <2>6, <2>7
  <1>10. CASE ReleaseMutex
    <2>. USE <1>10 DEF ReleaseMutex, ReleaseGendisk, DeviceThere
    <2>1. Typed'
      <3>1. gd' \in BOOLEAN /\ rel' \in {"none", "mutex", "gone"}
        BY DEF Typed
      <3>2. state' \in {"Initialising", "Initialised", "Connected", "Closing", "Closed"}
        BY DEF Typed
      <3>. QED BY <3>1, <3>2 DEF Typed
    <2>2. Orderly(left)'
      BY DEF Typed, Orderly
    <2>3. bug' = FALSE
      BY DEF Typed, Placed, Held, GivenUp, DiskKept, Removed
    <2>4. Placed'
      BY DEF Typed, Placed, Held, GivenUp, DiskKept
    <2>5. Held'
      BY DEF Typed, Placed, Held, GivenUp, DiskKept, Orderly
    <2>6. DiskKept'
      BY DEF Typed, Orderly, Placed, Held, GivenUp, DiskKept, Removed
    <2>7. Removed'
      BY DEF Typed, Orderly, Placed, Held, GivenUp, DiskKept, Removed
    <2>. QED BY <2>1, <2>2, <2>3, <2>4, <2>5, <2>6, <2>7
  <1>11. CASE ReleaseGone
    <2>. USE <1>11 DEF ReleaseGone, ReleaseGendisk
    <2>1. Typed'
      <3>1. gd' \in BOOLEAN /\ private_data' \in BOOLEAN /\ rel' \in {"none", "mutex", "gone"}
        OBVIOUS
      <3>2. info' \in {"live", "freed"}
        BY DEF Typed
      <3>. QED  BY <3>1, <3>2 DEF Typed
    <2>2. Orderly(left)'
      BY DEF Typed, Orderly
    <2>3. bug' = FALSE
      BY DEF Typed, Placed, Held, GivenUp, DiskKept, Removed
    <2>4. Placed'
      BY DEF Typed, Placed, Held, GivenUp, DiskKept
    <2>5. Held'
      BY DEF Typed, Placed, Held, GivenUp, DiskKept, Orderly
    <2>6. DiskKept'
      BY DEF Typed, Orderly, Placed, Held, GivenUp, DiskKept, Removed
    <2>7. Removed'
      BY DEF Typed, Orderly, Placed, Held, GivenUp, DiskKept, Removed
    <2>. QED BY <2>1, <2>2, <2>3, <2>4, <2>5, <2>6, <2>7
  <1>12. ASSUME NEW t \in Threads, ClosingStart(t) PROVE UInv'
    <2>. USE <1>12 DEF ClosingStart, At, Go, DeviceThere
    <2>1. Typed'
      BY DEF Typed, DiskKept
    <2>2. Orderly(left)'
      BY DEF Typed, Orderly
    <2>3. bug' = FALSE
      BY DEF Typed, Placed, Held, GivenUp, DiskKept, Removed
    <2>4. Placed'
      BY DEF Typed, Placed, Held, GivenUp, DiskKept
    <2>5. Held'
      BY DEF Typed, Placed, Held, GivenUp, DiskKept, Orderly
    <2>6. DiskKept'
      BY DEF Typed, Orderly, Placed, Held, GivenUp, DiskKept, Removed
    <2>7. Removed'
      BY DEF Typed, Orderly, Placed, Held, GivenUp, DiskKept, Removed
    <2>. QED BY <2>1, <2>2, <2>3, <2>4, <2>5, <2>6, <2>7
  <1>13. ASSUME NEW t \in Threads, ClosingWait(t) PROVE UInv'
    <2>. USE <1>13 DEF ClosingWait, At, Go
    <2>1. Typed'
      BY DEF Typed, DiskKept
    <2>2. Orderly(left)'
      BY DEF Typed, Orderly
    <2>3. bug' = FALSE
      BY DEF Typed, Placed, Held, GivenUp, DiskKept, Removed
    <2>4. Placed'
      BY DEF Typed, Placed, Held, GivenUp, DiskKept
    <2>5. Held'
      BY DEF Typed, Placed, Held, GivenUp, DiskKept, Orderly
    <2>6. DiskKept'
      BY DEF Typed, Orderly, Placed, Held, GivenUp, DiskKept, Removed
    <2>7. Removed'
      BY DEF Typed, Orderly, Placed, Held, GivenUp, DiskKept, Removed
    <2>. QED BY <2>1, <2>2, <2>3, <2>4, <2>5, <2>6, <2>7
  <1>14. ASSUME NEW t \in Threads, ClosingState(t) PROVE UInv'
    <2>. USE <1>14 DEF ClosingState, At, Go, DeviceThere
    <2>1. Typed'
      BY DEF Typed, DiskKept
    <2>2. Orderly(left)'
      BY DEF Typed, Orderly
    <2>3. bug' = FALSE
      BY DEF Typed, Placed, Held, GivenUp, DiskKept, Removed
    <2>4. Placed'
      BY DEF Typed, Placed, Held, GivenUp, DiskKept
    <2>5. Held'
      BY DEF Typed, Placed, Held, GivenUp, DiskKept, Orderly
    <2>6. DiskKept'
      BY DEF Typed, Orderly, Placed, Held, GivenUp, DiskKept, Removed
    <2>7. Removed'
      BY DEF Typed, Orderly, Placed, Held, GivenUp, DiskKept, Removed
    <2>. QED BY <2>1, <2>2, <2>3, <2>4, <2>5, <2>6, <2>7
  <1>15. ASSUME NEW t \in Threads, ClosingLock(t) PROVE UInv'
    <2>. USE <1>15 DEF ClosingLock, At, Go, DeviceThere
    <2>1. Typed'
      BY DEF Typed, DiskKept
    <2>2. Orderly(left)'
      BY DEF Typed, Orderly
    <2>3. bug' = FALSE
      BY DEF Typed, Placed, Held, GivenUp, DiskKept, Removed
    <2>4. Placed'
      BY DEF Typed, Placed, Held, GivenUp, DiskKept
    <2>5. Held'
      BY DEF Typed, Placed, Held, GivenUp, DiskKept, Orderly
    <2>6. DiskKept'
      BY DEF Typed, Orderly, Placed, Held, GivenUp, DiskKept, Removed
    <2>7. Removed'
      BY DEF Typed, Orderly, Placed, Held, GivenUp, DiskKept, Removed
    <2>. QED BY <2>1, <2>2, <2>3, <2>4, <2>5, <2>6, <2>7
  <1>16. ASSUME NEW t \in Threads, ClosingDisk(t) PROVE UInv'
    <2>. USE <1>16 DEF ClosingDisk, At, Go, ReleaseGendisk, DeviceThere
    <2>1. Typed'
      <3>1. gd' \in BOOLEAN
        BY DEF Typed
      <3>2. state' \in {"Initialising", "Initialised", "Connected", "Closing", "Closed"}
        BY DEF Typed
      <3>. QED BY <3>1, <3>2 DEF Typed
    <2>2. Orderly(left)'
      BY DEF Typed, Orderly
    <2>3. bug' = FALSE
      BY DEF Typed, Placed, Held, GivenUp, DiskKept, Removed
    <2>4. Placed'
      BY DEF Typed, Placed, Held, GivenUp, DiskKept
    <2>5. Held'
      BY DEF Typed, Placed, Held, GivenUp, DiskKept, Orderly
    <2>6. DiskKept'
      BY DEF Typed, Orderly, Placed, Held, GivenUp, DiskKept, Removed
    <2>7. Removed'
      BY DEF Typed, Orderly, Placed, Held, GivenUp, DiskKept, Removed
    <2>. QED BY <2>1, <2>2, <2>3, <2>4, <2>5, <2>6, <2>7
  <1>17. CASE BackendReady
    BY <1>17 DEF BackendReady, Tell, Host, Typed, Orderly, Placed, Held, GivenUp, DiskKept, Removed
  <1>18. CASE BackendConnect
    BY <1>18 DEF BackendConnect, Tell, Host, Typed, Orderly, Placed, Held, GivenUp, DiskKept, Removed
  <1>19. CASE Unplug
    BY <1>19 DEF Unplug, Tell, Host, May, Typed, Orderly, Placed, Held, GivenUp, DiskKept, Removed
  <1>20. CASE BackendClosed
    BY <1>20 DEF BackendClosed, Tell, Host, Typed, Orderly, Placed, Held, GivenUp, DiskKept, Removed
  <1>21. CASE Delete
    BY <1>21 DEF Delete, May, Typed, Orderly, Placed, Held, GivenUp, DiskKept, Removed
  <1>22. CASE Migrate
    <2>. USE <1>22 DEF Migrate, Settled, Suspended, May
    <2>1. Typed'
      BY DEF Typed, DiskKept
    <2>2. Orderly(left)'
      BY DEF Typed, Orderly
    <2>3. bug' = FALSE
      <3>1. drvdata /\ xbdev /\ InfoLive
        BY DEF Typed, Orderly, Placed, Held, GivenUp
      <3>2. Settled /\ (Suspended = "suspended" => gd)
        BY DEF Orderly
      <3>. QED BY <3>1, <3>2
    <2>4. Placed'
      <3>1. \A t \in Threads : pc[t] \notin {"lock", "bdev"}
        BY DEF Orderly
      <3>2. "fail" \notin left.may /\ left'.may = left.may
        BY DEF Typed, Orderly
      <3>3. state' # "Closed" /\ back' \in {"Initialising", "InitWait"}
        OBVIOUS
      <3>. QED BY <3>1, <3>2, <3>3 DEF Placed
    <2>5. Held'
      BY DEF Typed, Placed, Held, GivenUp, DiskKept, Orderly
    <2>6. DiskKept'
      BY DEF Typed, Orderly, Placed, Held, GivenUp, DiskKept, Removed
    <2>7. Removed'
      BY DEF Typed, Orderly, Placed, Held, GivenUp, DiskKept, Removed
    <2>. QED BY <2>1, <2>2, <2>3, <2>4, <2>5, <2>6, <2>7
  <1>23. CASE ResumeInPlace
    <2>. USE <1>23 DEF ResumeInPlace
    <2>1. Typed'
      BY DEF Typed, DiskKept
    <2>2. Orderly(left)'
      BY DEF Typed, Orderly
    <2>3. bug' = FALSE
      BY DEF Typed, Placed, Held, GivenUp, DiskKept, Removed
    <2>4. Placed'
      BY DEF Typed, Placed, Held, GivenUp, DiskKept
    <2>5. Held'
      BY DEF Typed, Placed, Held, GivenUp, DiskKept, Orderly
    <2>6. DiskKept'
      BY DEF Typed, Orderly, Placed, Held, GivenUp, DiskKept, Removed
    <2>7. Removed'
      BY DEF Typed, Orderly, Placed, Held, GivenUp, DiskKept, Removed
    <2>. QED BY <2>1, <2>2, <2>3, <2>4, <2>5, <2>6, <2>7
  <1>24. CASE UNCHANGED vars
    BY <1>24 DEF vars, Typed, Orderly, Placed, Held, GivenUp, DiskKept, Removed
  <1>. QED
    BY <1>1, <1>2, <1>3, <1>4, <1>5, <1>6, <1>7, <1>8, <1>9, <1>10, <1>11, <1>12, <1>13, <1>14, <1>15, <1>16, <1>17, <1>18, <1>19, <1>20, <1>21, <1>22, <1>23, <1>24 DEF Next, Xenwatch, BlockLayer, Closing, Tools

--------------------------------------------------------------------------------
(* The invariant holds of every state of an orderly environment.           *)
LEMMA UInvariant ==
  ASSUME \A c \in Cases : Orderly(c)
  PROVE  Spec => []UInv
  <1>1. Init => UInv
    BY UInit
  <1>. QED BY <1>1, UStep, PTL DEF Spec

(* In an orderly environment blkfront_closing, blkfront_remove, blkif_open *)
(* and blkif_release never work on an info or a device that is gone, and   *)
(* nothing leads to a freed info, whatever the order of the threads.       *)
THEOREM NothingUsedAfterFree ==
  ASSUME \A c \in Cases : Orderly(c)
  PROVE  Spec => []NothingStale
  <1>1. UInv => NothingStale
    <2>. SUFFICES ASSUME UInv PROVE NothingStale
      OBVIOUS
    <2>. USE DEF UInv, InfoLive, Quiet
    <2>1. TypeOK
      <3>1. {drvdata, private_data, gd, xbdev, bug} \subseteq BOOLEAN
        BY Zenon DEF Typed
      <3>. QED BY <3>1 DEF Typed, TypeOK
    <2>2. CASE info = "live"
      BY <2>1, <2>2 DEF NothingStale, InfoReachable
    <2>3. CASE info # "live"
      <3>1. CASE GivenUp
        <4>1. ~drvdata \/ device \in {"bdev", "gone"}
          BY <2>3, <3>1 DEF Typed, Placed, Held, GivenUp
        <4>2. Quiet
          BY <3>1 DEF Placed, GivenUp
        <4>. QED BY <2>1, <3>1, <4>1, <4>2 DEF NothingStale, InfoReachable, GivenUp
      <3>2. CASE ~GivenUp
        <4>1. ~xbdev /\ device \in {"bdev", "gone"}
          BY <2>3, <3>2 DEF Typed, Placed, Held
        <4>2. Quiet
          BY <4>1 DEF Placed
        <4>. QED BY <2>1, <2>3, <4>1, <4>2 DEF NothingStale, InfoReachable, Removed
      <3>. QED BY <3>1, <3>2
    <2>. QED BY <2>2, <2>3
  <1>. QED BY UInvariant, <1>1, PTL

(* blkfront_closing takes no disk away that somebody has open, and the     *)
(* front end says Closed only without one.                                 *)
THEOREM DiskKeptWhileOpen ==
  ASSUME \A c \in Cases : Orderly(c)
  PROVE  Spec => []ClosedUnused
  <1>1. UInv => ClosedUnused
    BY DEF UInv, ClosedUnused, Typed, DiskKept, Removed
  <1>. QED BY UInvariant, <1>1, PTL

(* Between blkfront_remove and the last blkif_release, one of the two      *)
(* frees info and the disk.                                                *)
THEOREM NothingKept ==
  ASSUME \A c \in Cases : Orderly(c)
  PROVE  Spec => []NothingLeaks
  <1>1. UInv => NothingLeaks
    BY DEF UInv, NothingLeaks, Placed, Removed
  <1>. QED BY UInvariant, <1>1, PTL
================================================================================
