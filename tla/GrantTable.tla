------------------------------- MODULE GrantTable ------------------------------
(***************************************************************************)
(* The grant table of xen-platform-pci/gnttab.c as the front-end drivers   *)
(* use it: references come from the pool, are granted to the back end,     *)
(* mapped and unmapped by it at any time, and taken back.  A reference     *)
(* the back end still maps cannot be taken back; it goes on the deferred   *)
(* list, which a timer works through.  A driver that finds too few         *)
(* references stops its queue and asks to be called when there are enough. *)
(*                                                                         *)
(* Interleaving: each critical section of gnttab_list_lock and each        *)
(* compare-and-swap on a grant entry is one step.                          *)
(***************************************************************************)
EXTENDS GrantPool, Sequences

CONSTANTS Batch,      \* entries one run of gnttab_handle_deferred looks at (10)
          NoRef       \* GRANT_INVALID_REF, a null entry pointer

ASSUME TableAssumption == Batch \in Nat \ {0} /\ NoRef \notin Refs

VARIABLES shared,     \* shared[r]: what the flags word of entry r says
          freed,      \* entries whose page has been freed since the grant
          queue,      \* queue[c]: state of c's request queue
          need,       \* need[c]: what c's failed allocation asked for
          callbacks,  \* callbacks[c]: 0, or the count of c's queued callback
          restart,    \* clients whose restart work is scheduled
          ending,     \* ending[c]: c's unfinished gnttab_end_foreign_access
          deferred,   \* deferred_list
          leaked,     \* references lost by a failed kmalloc
          timer,      \* deferred_timer is pending
          handler,    \* gnttab_handle_deferred's locals, and whether it runs
          fault       \* the handler took an entry off an empty list

grantVars    == <<shared, freed>>
callbackVars == <<queue, need, callbacks, restart>>
deferVars    == <<deferred, timer, handler, leaked, fault>>
tableVars    == <<poolVars, grantVars, callbackVars, ending, deferVars>>

(* flags word: unused; GTF_permit_access; the same with GTF_reading or     *)
(* GTF_writing; GTF_accept_transfer; GTF_transfer_committed, _completed.   *)
Flags == {"unused", "permit", "mapped", "accept", "committed", "completed"}

Idle == [running |-> FALSE, entry |-> NoRef, page |-> FALSE, first |-> NoRef, nr |-> 0]
NotEnding == [ref |-> NoRef, page |-> FALSE, ended |-> FALSE]

TableInit ==
    /\ PoolInit
    /\ shared = [r \in Refs |-> "unused"]
    /\ freed = {}
    /\ queue = [c \in Clients |-> "running"]
    /\ need = [c \in Clients |-> 0]
    /\ callbacks = [c \in Clients |-> 0]
    /\ restart = {}
    /\ ending = [c \in Clients |-> NotEnding]
    /\ deferred = <<>>
    /\ leaked = {}
    /\ timer = FALSE
    /\ handler = Idle
    /\ fault = FALSE

--------------------------------------------------------------------------------
(* Seeded fault: callbacks that are not met are dropped with the others.   *)
DoFreeCallbacksDropsUnmet(count) ==
    LET met == {c \in Clients : callbacks[c] > 0 /\ count >= callbacks[c]}
    IN  /\ callbacks' = [c \in Clients |-> 0]
        /\ restart' = restart \cup met

(* do_free_callbacks: every queued callback whose count is now met is      *)
(* dequeued and called; the callback schedules the driver's restart work.  *)
DoFreeCallbacks(count) ==
    LET met == {c \in Clients : callbacks[c] > 0 /\ count >= callbacks[c]}
    IN  /\ callbacks' = [c \in Clients |-> IF c \in met THEN 0 ELSE callbacks[c]]
        /\ restart' = restart \cup met

(* Taking references: only growing the table runs the callbacks. *)
CallbacksOnGet(n) ==
    IF Short(n) THEN DoFreeCallbacks(CountFor(n)) ELSE UNCHANGED <<callbacks, restart>>
CallbacksOnPut(S) == DoFreeCallbacks(free_count + Cardinality(S))

(* gnttab_alloc_grant_references by a running queue *)
Alloc(c, n) ==
    /\ queue[c] = "running"
    /\ AllocGrantReferences(c, n)
    /\ CallbacksOnGet(n)
    /\ UNCHANGED <<grantVars, queue, need, ending, deferVars>>

(* It fails when the table cannot grow: no frame left, or no memory. *)
AllocFails(c, n) ==
    /\ queue[c] = "running" /\ private[c] = {}
    /\ Short(n)
    /\ queue' = [queue EXCEPT ![c] = "starved"]
    /\ need' = [need EXCEPT ![c] = n]
    /\ UNCHANGED <<poolVars, grantVars, callbacks, restart, ending, deferVars>>

(* gnttab_request_free_callback, after which the driver stops its queue.   *)
(* References may have come back since the allocation failed: the list is  *)
(* looked at again at once.  A callback that is queued keeps its count.    *)
RequestFreeCallback(c) ==
    /\ queue[c] = "starved"
    /\ queue' = [queue EXCEPT ![c] = "stopped"]
    /\ IF callbacks[c] > 0 THEN UNCHANGED <<callbacks, restart>>
       ELSE IF free_count >= need[c]
       THEN /\ restart' = restart \cup {c}
            /\ UNCHANGED callbacks
       ELSE /\ callbacks' = [callbacks EXCEPT ![c] = need[c]]
            /\ UNCHANGED restart
    /\ need' = [need EXCEPT ![c] = 0]
    /\ UNCHANGED <<poolVars, grantVars, ending, deferVars>>

(* The scheduled work restarts the queue. *)
RestartQueue(c) ==
    /\ c \in restart
    /\ restart' = restart \ {c}
    /\ queue' = [queue EXCEPT ![c] = IF @ = "stopped" THEN "running" ELSE @]
    /\ UNCHANGED <<poolVars, grantVars, need, callbacks, ending, deferVars>>

(* The driver's interrupt handler restarts the queue as well. *)
KickQueue(c) ==
    /\ queue[c] = "stopped"
    /\ queue' = [queue EXCEPT ![c] = "running"]
    /\ UNCHANGED <<poolVars, grantVars, need, callbacks, restart, ending, deferVars>>

(* Tearing the device down: gnttab_cancel_free_callback, then the work is  *)
(* flushed. *)
CancelFreeCallback(c) ==
    /\ queue[c] = "stopped"
    /\ callbacks' = [callbacks EXCEPT ![c] = 0]
    /\ restart' = restart \ {c}
    /\ queue' = [queue EXCEPT ![c] = "running"]
    /\ UNCHANGED <<poolVars, grantVars, need, ending, deferVars>>

--------------------------------------------------------------------------------
Claim(c, r) ==
    /\ ClaimGrantReference(c, r)
    /\ UNCHANGED <<grantVars, callbackVars, ending, deferVars>>

FreePrivate(c) ==
    /\ FreeGrantReferences(c)
    /\ CallbacksOnPut(private[c])
    /\ UNCHANGED <<grantVars, queue, need, ending, deferVars>>

(* gnttab_grant_foreign_access: a reference of its own, granted at once. *)
GrantForeignAccess(c, r) ==
    /\ GetFreeEntry(c, r)
    /\ CallbacksOnGet(1)
    /\ shared' = [shared EXCEPT ![r] = "permit"]
    /\ freed' = freed \ {r}
    /\ UNCHANGED <<queue, need, ending, deferVars>>

(* gnttab_grant_foreign_access_ref on a claimed reference that is not      *)
(* granted. *)
GrantForeignAccessRef(c, r) ==
    /\ r \in held[c]
    /\ shared[r] \in {"unused", "completed"}
    /\ shared' = [shared EXCEPT ![r] = "permit"]
    /\ freed' = freed \ {r}
    /\ UNCHANGED <<poolVars, callbackVars, ending, deferVars>>

GrantForeignTransferRef(c, r) ==
    /\ r \in held[c]
    /\ shared[r] \in {"unused", "completed"}
    /\ shared' = [shared EXCEPT ![r] = "accept"]
    /\ UNCHANGED <<freed, poolVars, callbackVars, ending, deferVars>>

(* gnttab_end_foreign_access_ref succeeding, and the reference going back  *)
(* on the driver's own list. *)
EndAccessAndRelease(c, r) ==
    /\ shared[r] \in {"unused", "permit"}
    /\ ReleaseGrantReference(c, r)
    /\ shared' = [shared EXCEPT ![r] = "unused"]
    /\ UNCHANGED <<freed, callbackVars, ending, deferVars>>

(* Seeded fault: the page is freed whether or not access could be ended.   *)
EndForeignAccessUnchecked(c, r, withPage) ==
    /\ ending[c] = NotEnding
    /\ r \in held[c]
    /\ shared[r] \in {"unused", "permit", "mapped"}
    /\ held' = [held EXCEPT ![c] = @ \ {r}]
    /\ shared' = [shared EXCEPT ![r] = IF @ = "mapped" THEN @ ELSE "unused"]
    /\ ending' = [ending EXCEPT ![c] = [ref |-> r, page |-> withPage, ended |-> TRUE]]
    /\ UNCHANGED <<nr_grant_frames, free, free_count, private, freed,
                   callbackVars, deferVars>>

(* gnttab_end_foreign_access and each turn of gnttab_multi_end_foreign_-   *)
(* access.  First the compare-and-swap: it clears the flags unless the     *)
(* back end has the page mapped.  withPage: the page is freed as well.     *)
EndForeignAccess(c, r, withPage) ==
    /\ ending[c] = NotEnding
    /\ r \in held[c]
    /\ shared[r] \in {"unused", "permit", "mapped"}
    /\ held' = [held EXCEPT ![c] = @ \ {r}]
    /\ shared' = [shared EXCEPT ![r] = IF @ = "mapped" THEN @ ELSE "unused"]
    /\ ending' = [ending EXCEPT ![c] =
                     [ref |-> r, page |-> withPage, ended |-> shared[r] # "mapped"]]
    /\ UNCHANGED <<nr_grant_frames, free, free_count, private, freed,
                   callbackVars, deferVars>>

PageAfter(r, withPage) ==
    freed' = IF withPage THEN freed \cup {r} ELSE freed

(* Access has ended: put_free_entry, free_page. *)
EndPutFreeEntry(c) ==
    LET e == ending[c]
    IN  /\ e # NotEnding /\ e.ended
        /\ PutFreeEntries({e.ref})
        /\ CallbacksOnPut({e.ref})
        /\ PageAfter(e.ref, e.page)
        /\ ending' = [ending EXCEPT ![c] = NotEnding]
        /\ UNCHANGED <<private, held, shared, queue, need, deferVars>>

(* The back end has it mapped: gnttab_add_deferred. *)
AddDeferred(c) ==
    LET e == ending[c]
    IN  /\ e # NotEnding /\ ~e.ended
        /\ deferred' = Append(deferred, [ref |-> e.ref, page |-> e.page])
        /\ timer' = TRUE
        /\ ending' = [ending EXCEPT ![c] = NotEnding]
        /\ UNCHANGED <<poolVars, grantVars, callbackVars, handler, leaked, fault>>

(* No memory for the entry: the reference and the page are never reused. *)
LeakDeferred(c) ==
    LET e == ending[c]
    IN  /\ e # NotEnding /\ ~e.ended
        /\ leaked' = leaked \cup {e.ref}
        /\ ending' = [ending EXCEPT ![c] = NotEnding]
        /\ UNCHANGED <<poolVars, grantVars, callbackVars, deferred, timer,
                       handler, fault>>

(* gnttab_end_foreign_transfer: waits while a transfer is under way; one   *)
(* not begun is withdrawn, of one that is over the flags stay.             *)
EndForeignTransfer(c, r) ==
    /\ shared[r] \in {"accept", "completed"}
    /\ FreeGrantReference(c, r)
    /\ CallbacksOnPut({r})
    /\ shared' = [shared EXCEPT ![r] = IF @ = "accept" THEN "unused" ELSE @]
    /\ UNCHANGED <<freed, queue, need, ending, deferVars>>

--------------------------------------------------------------------------------
(* gnttab_handle_deferred looks at no more than Batch entries.  Each is    *)
(* taken off the list under the lock and tried without it; first is the    *)
(* first one put back, and the run ends when it comes round again.  The    *)
(* lock is held from the end of one turn to the removal of the next entry. *)
TakeEntry(entries, first, nr) ==
    /\ deferred' = Tail(entries)
    /\ handler' = [running |-> TRUE, entry |-> Head(entries).ref,
                   page |-> Head(entries).page, first |-> first, nr |-> nr - 1]

NextTurnDropsList(entries, first, nr) ==     \* seeded fault: stops with the list cut
    IF nr = 0 \/ entries = <<>> \/ Head(entries).ref = first
    THEN /\ deferred' = deferred
         /\ handler' = Idle
         /\ timer' = (timer \/ deferred # <<>>)
    ELSE /\ TakeEntry(entries, first, nr)
         /\ UNCHANGED timer

NextTurnUnbounded(entries, first, nr) ==     \* seeded fault: nr is not looked at
    IF entries = <<>> \/ Head(entries).ref = first
    THEN /\ deferred' = entries
         /\ handler' = Idle
         /\ timer' = (timer \/ entries # <<>>)
    ELSE /\ TakeEntry(entries, first, nr)
         /\ UNCHANGED timer

NextTurn(entries, first, nr) ==
    IF nr = 0 \/ entries = <<>> \/ Head(entries).ref = first
    THEN /\ deferred' = entries
         /\ handler' = Idle
         /\ timer' = (timer \/ entries # <<>>)
    ELSE /\ TakeEntry(entries, first, nr)
         /\ UNCHANGED timer

(* The timer expires; a timer function never runs twice at a time.  It     *)
(* does not look whether the list is empty before it takes the first       *)
(* entry: on an empty list it takes the list head for an entry.            *)
TimerFires ==
    /\ timer /\ ~handler.running
    /\ timer' = FALSE
    /\ IF deferred = <<>>
       THEN fault' = TRUE /\ UNCHANGED <<deferred, handler>>
       ELSE TakeEntry(deferred, NoRef, Batch) /\ UNCHANGED fault
    /\ UNCHANGED <<poolVars, grantVars, callbackVars, ending, leaked>>

(* The entry's access can be ended: the reference and the page are freed. *)
HandlerFrees ==
    LET r == handler.entry
    IN  /\ handler.running /\ shared[r] # "mapped"
        /\ shared' = [shared EXCEPT ![r] = "unused"]
        /\ PutFreeEntries({r})
        /\ CallbacksOnPut({r})
        /\ PageAfter(r, handler.page)
        /\ NextTurn(deferred, handler.first, handler.nr)
        /\ UNCHANGED <<private, held, queue, need, ending, leaked, fault>>

(* Seeded fault: list_add for list_add_tail.                               *)
HandlerPutsBackFirst ==
    LET r == handler.entry
    IN  /\ handler.running /\ shared[r] = "mapped"
        /\ NextTurn(<<[ref |-> r, page |-> handler.page]>> \o deferred,
                    IF handler.first = NoRef THEN r ELSE handler.first,
                    handler.nr)
        /\ UNCHANGED <<poolVars, grantVars, callbackVars, ending, leaked, fault>>

(* It cannot: the entry goes to the end of the list. *)
HandlerPutsBack ==
    LET r == handler.entry
    IN  /\ handler.running /\ shared[r] = "mapped"
        /\ NextTurn(Append(deferred, [ref |-> r, page |-> handler.page]),
                    IF handler.first = NoRef THEN r ELSE handler.first,
                    handler.nr)
        /\ UNCHANGED <<poolVars, grantVars, callbackVars, ending, leaked, fault>>

--------------------------------------------------------------------------------
(* The back end, through the hypervisor: maps and unmaps a granted page,   *)
(* commits to a transfer and completes it.                                 *)
Remote(r, from, to) ==
    /\ shared[r] = from
    /\ shared' = [shared EXCEPT ![r] = to]
    /\ UNCHANGED <<poolVars, freed, callbackVars, ending, deferVars>>

RemoteMap(r)      == Remote(r, "permit", "mapped")
RemoteUnmap(r)    == Remote(r, "mapped", "permit")
RemoteCommit(r)   == Remote(r, "accept", "committed")
RemoteComplete(r) == Remote(r, "committed", "completed")

(* Save and restore: gnttab_resume maps the grant frames of the new        *)
(* domain, which are blank; the lists of this driver are as they were.     *)
Restore ==
    /\ shared' = [r \in Refs |-> "unused"]
    /\ UNCHANGED <<poolVars, freed, callbackVars, ending, deferVars>>

ClientNext(c) ==
    \/ \E n \in 1..MaxRequest : Alloc(c, n) \/ AllocFails(c, n)
    \/ RequestFreeCallback(c)
    \/ RestartQueue(c)
    \/ KickQueue(c)
    \/ CancelFreeCallback(c)
    \/ FreePrivate(c)
    \/ EndPutFreeEntry(c)
    \/ AddDeferred(c)
    \/ LeakDeferred(c)
    \/ \E r \in Refs : \/ Claim(c, r)
                       \/ GrantForeignAccess(c, r)
                       \/ GrantForeignAccessRef(c, r)
                       \/ GrantForeignTransferRef(c, r)
                       \/ EndAccessAndRelease(c, r)
                       \/ EndForeignTransfer(c, r)
                       \/ \E p \in BOOLEAN : EndForeignAccess(c, r, p)

HandlerNext == TimerFires \/ HandlerFrees \/ HandlerPutsBack

RemoteNext ==
    \/ \E r \in Refs : RemoteMap(r) \/ RemoteUnmap(r) \/ RemoteCommit(r) \/ RemoteComplete(r)
    \/ Restore

(* After the fault the handler works on whatever lies behind the list      *)
(* head; nothing is said of that. *)
TableNext == ~fault /\ ((\E c \in Clients : ClientNext(c)) \/ HandlerNext \/ RemoteNext)

TableSpec == TableInit /\ [][TableNext]_tableVars

(* Timers expire and the timer function runs on; scheduled work runs; the  *)
(* operations the drivers have begun go on. *)
TableFairness ==
    /\ WF_tableVars(~fault /\ HandlerNext)
    /\ \A c \in Clients :
          WF_tableVars(~fault /\ (RequestFreeCallback(c) \/ RestartQueue(c)
                                   \/ EndPutFreeEntry(c) \/ AddDeferred(c)))

FairTableSpec == TableSpec /\ TableFairness

--------------------------------------------------------------------------------
(* Every variable has its type. *)
TableTypeOK ==
    /\ nr_grant_frames \in 1..MaxFrames
    /\ free \subseteq Refs /\ free_count \in Nat
    /\ private \in [Clients -> SUBSET Refs]
    /\ held \in [Clients -> SUBSET Refs]
    /\ shared \in [Refs -> Flags]
    /\ freed \subseteq Refs
    /\ queue \in [Clients -> {"running", "starved", "stopped"}]
    /\ need \in [Clients -> 0..MaxRequest]
    /\ callbacks \in [Clients -> 0..MaxRequest]
    /\ restart \subseteq Clients
    /\ ending \in [Clients -> [ref : Refs \cup {NoRef}, page : BOOLEAN, ended : BOOLEAN]]
    /\ deferred \in Seq([ref : Refs, page : BOOLEAN])
    /\ leaked \subseteq Refs
    /\ timer \in BOOLEAN
    /\ handler \in [running : BOOLEAN, entry : Refs \cup {NoRef}, page : BOOLEAN,
                    first : Refs \cup {NoRef}, nr : 0..Batch]
    /\ fault \in BOOLEAN

InEnding   == {ending[c].ref : c \in Clients} \ {NoRef}
InDeferred == {deferred[i].ref : i \in 1..Len(deferred)}
InHandler  == {handler.entry} \ {NoRef}

(* gnttab_free_count is the number of free references, however often the   *)
(* table has grown and references have come back by way of the timer.      *)
CountExact == IsFiniteSet(free) /\ free_count = Cardinality(free)

(* A reference the hypervisor still honours is never on a free list: the   *)
(* next driver to draw it would grant its page to the old back end, or     *)
(* find its own grant overwritten. *)
FreeNotGranted ==
    \A r \in free \cup UNION {private[c] : c \in Clients} :
        shared[r] \in {"unused", "completed"}

(* A page handed over with its reference is not freed while the back end   *)
(* can reach it. *)
FreedPageUnreachable ==
    \A r \in freed : shared[r] \notin {"permit", "mapped"}

(* What is given away again, a reference or the page behind it, is out of  *)
(* the back end's reach, although the back end unmaps when it likes.       *)
NothingReachable == FreeNotGranted /\ FreedPageUnreachable

(* No reference is lost but by the failed kmalloc, and none is in two      *)
(* hands: free list, private lists, drivers, operations under way, the     *)
(* deferred list, the handler. *)
NothingLost ==
    Usable = free \cup (UNION {private[c] : c \in Clients})
                  \cup (UNION {held[c] : c \in Clients})
                  \cup InEnding \cup InDeferred \cup InHandler \cup leaked
NothingTwice ==
    /\ \A c, d \in Clients :
          /\ c # d => private[c] \cap private[d] = {} /\ held[c] \cap held[d] = {}
          /\ c # d /\ ending[c].ref = ending[d].ref => ending[c].ref = NoRef
          /\ private[c] \cap held[d] = {}
          /\ (private[c] \cup held[c]) \cap
                (free \cup InEnding \cup InDeferred \cup InHandler \cup leaked) = {}
    /\ free \cap (InEnding \cup InDeferred \cup InHandler \cup leaked) = {}
    /\ InEnding \cap (InDeferred \cup InHandler \cup leaked) = {}
    /\ InDeferred \cap (InHandler \cup leaked) = {}
    /\ InHandler \cap leaked = {}
    /\ \A i, j \in 1..Len(deferred) : deferred[i].ref = deferred[j].ref => i = j

(* Each reference is in one place, through failed allocations, retries by  *)
(* the timer and growths of the table. *)
RefsConserved == NothingLost /\ NothingTwice

(* A driver that stopped its queue for want of references has a wake-up    *)
(* coming: its callback is queued or its restart work scheduled.  The      *)
(* failed allocation and the request for the callback are two critical     *)
(* sections, and references come back between them.                        *)
NoLostWakeup ==
    \A c \in Clients : queue[c] = "stopped" => callbacks[c] > 0 \/ c \in restart

(* No callback stays queued once as many references are free as it asked   *)
(* for. *)
CallbacksUnmet == \A c \in Clients : callbacks[c] > 0 => free_count < callbacks[c]

(* A deferred reference is never forgotten: the timer is armed or the      *)
(* handler is at work and will look at the list again.                     *)
DeferredHasTimer == deferred # <<>> => timer \/ handler.running

(* Whatever waits has something coming that ends its wait: a stopped queue *)
(* its wake-up, a callback the references it asked for, a deferred         *)
(* reference the timer or the handler at work.                             *)
WakeupsComing == NoLostWakeup /\ CallbacksUnmet /\ DeferredHasTimer

(* What the test at line 258 (else if (list_empty(&deferred_list)) break;) *)
(* takes care of inside the loop: no entry is taken off an empty list.     *)
HandlerFindsEntry == ~fault

(* A reference on the deferred list that the back end lets go of for good  *)
(* leaves the list. *)
DeferredReclaimed ==
    \A r \in Refs :
        [](r \in InDeferred /\ [](shared[r] # "mapped") => <>(r \notin InDeferred \/ fault))
================================================================================
