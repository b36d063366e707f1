-------------------------------- MODULE BlkFront -------------------------------
(***************************************************************************)
(* The block front end xen-vbd/xen-blkfront.c between the block layer and  *)
(* a back end that may be replaced under it by a live migration.  Bios     *)
(* become requests on the queue, requests on the shared ring with one      *)
(* grant per segment and, if there are more than fit into a slot of the    *)
(* ring, one for the frame the segments are listed in; responses,          *)
(* completions.  After a migration the driver takes its ring down, keeps   *)
(* what was in flight, waits for the new back end and submits everything   *)
(* again.                                                                  *)
(*                                                                         *)
(* Interleaving: each critical section of blkif_io_lock is one step (the   *)
(* request function, the interrupt, the restart work, the first half of    *)
(* blkif_free).  The xenwatch thread runs the resume and the watch on the  *)
(* back end's state, one at a time; its steps are separated by pc.         *)
(***************************************************************************)
EXTENDS Integers, FiniteSets, Sequences, SequencesExt

CONSTANTS Bios,           \* bound: bios the block layer submits
          RingSize,       \* RING_SIZE
          Direct,         \* BLKIF_MAX_SEGMENTS_PER_REQUEST
          Hosts,          \* what back ends offer: [persistent, segs]
          MaxMigrations,  \* bound: migrations
          MaxShortages,   \* bound: failed allocations of grant references
          Patient,        \* no migration while the disk is not yet connected
          Uniform,        \* migrations between hosts that offer the same
          MemoryLasts     \* blkif_recover is given the memory to split a bio

Segs == {h.segs : h \in Hosts} \cup {Direct}
MaxSegs == CHOOSE n \in Segs : \A k \in Segs : k <= n

ASSUME BlkAssumption ==
    /\ RingSize \in Nat \ {0} /\ Direct \in Nat \ {0}
    /\ Patient \in BOOLEAN /\ Uniform \in BOOLEAN /\ MemoryLasts \in BOOLEAN
    /\ MaxMigrations \in Nat /\ MaxShortages \in Nat
    /\ Hosts \subseteq [persistent : BOOLEAN, segs : {n \in Nat : n >= Direct}]
    /\ \E n \in Segs : \A k \in Segs : k <= n  \* what hosts offer is bounded
    /\ Bios \cap {"bounce", "frame", "none"} = {}

(* INDIRECT_GREFS, of as many segments as the driver takes at most (256 of *)
(* the 512 that one frame lists).                                          *)
Frames(n) == IF n > Direct THEN 1 ELSE 0
Need(n) == n + Frames(n)

Ids  == 0..RingSize - 1
Refs == 1..RingSize * (MaxSegs + 1)
NoRef == 0                                   \* GRANT_INVALID_REF

(* The page of a grant: the bio's own, one kept to copy to and from, or    *)
(* one of indirect_pages.                                                  *)
Pages == Bios \cup {"bounce", "frame", "none"}
Grants == [gref : Refs \cup {NoRef}, page : Pages]
Requests == [bio : Bios, n : 1..MaxSegs]
NoRequest == [bio |-> "none", n |-> 0]       \* shadow.request = NULL
Idle == [req |-> NoRequest, used |-> <<>>]

VARIABLES connected, state, gd, feature_persistent, max_segments,
          rq, stopped, callback, work,            \* request queue, restart
          shadow_free, shadow, ring, taken, answers, irq,
          grants, persistent_gnts_c, granted, mapped,
          indirect_pages,                         \* how many there are
          pc, bio_list,                           \* xenwatch: blkif_recover
          backend, host, watch, migrations, shortages,
          size, pending, answered,                \* of a bio: pages, requests, pages answered
          bug                                     \* a BUG_ON was reached

features == <<feature_persistent, max_segments>>
queueVars == <<rq, stopped, callback, work>>
ringVars == <<shadow_free, shadow, ring, taken, answers, irq>>
grantVars == <<grants, persistent_gnts_c, granted, mapped, indirect_pages>>
watchVars == <<pc, bio_list>>
envVars == <<backend, host, watch, migrations, shortages>>
bioVars == <<size, pending, answered>>
devVars == <<connected, state, gd>>
vars == <<devVars, features, queueVars, ringVars, grantVars, watchVars,
          envVars, bioVars, bug>>

(* The states of the xenbus device from Initialised on. *)
AtLeastInitialised == {"Initialised", "Connected"}

(* shadow_init: every id is free. *)
ShadowInit == [i \in 1..RingSize |-> i - 1]

Init ==
    /\ connected = "disconnected" /\ state = "Initialising" /\ gd = FALSE
    /\ feature_persistent = FALSE /\ max_segments = Direct
    /\ rq = <<>> /\ stopped = FALSE /\ callback = FALSE /\ work = FALSE
    /\ shadow_free = <<>> /\ shadow = [id \in Ids |-> Idle]
    /\ ring = <<>> /\ taken = {} /\ answers = <<>> /\ irq = FALSE
    /\ grants = <<>> /\ persistent_gnts_c = 0 /\ granted = {} /\ mapped = {}
    /\ indirect_pages = 0
    /\ pc = "idle" /\ bio_list = <<>>
    /\ backend = "Initialising" /\ host \in Hosts /\ watch = TRUE
    /\ migrations = 0 /\ shortages = 0
    /\ size = [b \in Bios |-> 0] /\ pending = size /\ answered = size
    /\ bug = FALSE

--------------------------------------------------------------------------------
InFlight == {id \in Ids : shadow[id] # Idle}
RefsIn(entries) == {entries[i].gref : i \in 1..Len(entries)} \ {NoRef}
Valid(entries) == Cardinality({i \in 1..Len(entries) : entries[i].gref # NoRef})

(* The part of the state the request function and the interrupt work on.   *)
Driver == [rq |-> rq, free |-> shadow_free, shadow |-> shadow, ring |-> ring,
           answers |-> answers, grants |-> grants, count |-> persistent_gnts_c,
           granted |-> granted, pages |-> indirect_pages,
           pending |-> pending, answered |-> answered, bug |-> FALSE]

(* Worked out once and stored.                                             *)
SetDriver(new) == \E d \in {new} :
    /\ rq' = d.rq /\ shadow_free' = d.free /\ shadow' = d.shadow
    /\ ring' = d.ring /\ answers' = d.answers
    /\ grants' = d.grants /\ persistent_gnts_c' = d.count /\ granted' = d.granted
    /\ indirect_pages' = d.pages
    /\ pending' = d.pending /\ answered' = d.answered /\ bug' = d.bug

(* gnttab_claim_grant_reference: one of the references not granted.        *)
Unused(d) == CHOOSE r \in Refs \ d.granted : \A q \in Refs \ d.granted : r <= q

(* The request in shadow[id] takes the first grant of the list: as it is,  *)
(* if it has a reference, else with a new one, and that page.  The last of *)
(* those it has already stay behind it.                                    *)
TakeGrant(d, id, page, last) ==
    LET g    == Head(d.grants)
        kept == g.gref # NoRef
        used == IF kept THEN g ELSE [gref |-> Unused(d), page |-> page]
    IN  [d EXCEPT !.grants = Tail(@),
                  !.shadow[id].used = InsertAt(@, Len(@) + 1 - last, used),
                  !.count = IF kept THEN @ - 1 ELSE @,
                  !.granted = @ \cup {used.gref}]

(* Seeded fault: the grant keeps the page it was last used with.           *)
GetGrantOldPage(d, id, page, last) == TakeGrant(d, id, Head(d.grants).page, last)

(* get_grant: a grant whose reference the back end still maps is used as   *)
(* it is; another gets a reference and, unless pages are copied, the page  *)
(* it is for.                                                              *)
GetGrant(d, id, page, last) ==
    TakeGrant(d, id, IF feature_persistent THEN Head(d.grants).page ELSE page, last)

(* An id, its shadow and a slot of the ring for the next request.          *)
Place(d) ==
    LET id == Head(d.free)
    IN  [d EXCEPT !.rq = Tail(@), !.free = Tail(@), !.ring = Append(@, id),
                  !.shadow[id] = [req |-> Head(d.rq), used |-> <<>>]]

(* A large request takes the grant of its frame before any other.  It is   *)
(* kept behind those of the pages: shadow.indirect_grants.                 *)
TakeFrame(d, id) ==
    IF d.shadow[id].req.n > Direct
    THEN [GetGrant(d, id, "frame", 0) EXCEPT !.pages = IF feature_persistent THEN @ ELSE @ - 1]
    ELSE d

(* blkif_queue_request: these, and a grant for each page.                  *)
QueueRequest(d) ==
    LET r  == Head(d.rq)
        id == Head(d.free)
        g[i \in 0..r.n] == IF i = 0 THEN TakeFrame(Place(d), id)
                           ELSE GetGrant(g[i - 1], id, r.bio, Frames(r.n))
    IN  g[r.n]

(* What the largest request needs; blkif_queue_request has reserved as     *)
(* many references as persistent_gnts_c falls short of it, and the next    *)
(* request claims one for each of its grants that has none.                *)
MaxGrefs == Need(max_segments)
Reserved(d) == IF d.count < MaxGrefs THEN MaxGrefs - d.count ELSE 0
Claims(d) == Cardinality({i \in 1..Need(Head(d.rq).n) : d.grants[i].gref = NoRef})

(* The BUG_ONs of blkif_queue_request and what it calls: no id, more       *)
(* segments than the limit, no grant, no reference, no page for a frame.   *)
CanQueue(d) ==
    LET n == Head(d.rq).n
    IN  /\ d.free # <<>>
        /\ n <= max_segments
        /\ Len(d.grants) >= Need(n)
        /\ Claims(d) <= Reserved(d)
        /\ n > Direct /\ ~feature_persistent => d.pages > 0

QueueMany(d, k) ==
    LET q[i \in 0..k] ==
          IF i = 0 THEN d
          ELSE IF q[i - 1].bug \/ ~CanQueue(q[i - 1]) THEN [q[i - 1] EXCEPT !.bug = TRUE]
          ELSE QueueRequest(q[i - 1])
    IN  q[k]

(* do_blkif_request, on a connected device: requests are queued until none *)
(* is left or the ring is full, and then the queue is stopped, or until    *)
(* the grant table has not as many references as the largest request may   *)
(* need, and then a callback is asked for as well.                         *)
DoRequests(d, room) ==
    LET most == IF Len(d.rq) < room THEN Len(d.rq) ELSE room
    IN  \/ LET q == QueueMany(d, most)
           IN  /\ SetDriver(q)
               /\ stopped' = (q.rq # <<>>)
               /\ UNCHANGED <<callback, shortages>>
        \/ /\ shortages < MaxShortages
           /\ \E k \in 0..most - 1 :
                  LET q == QueueMany(d, k)
                  IN  /\ q.count < MaxGrefs
                      /\ SetDriver(q)
           /\ stopped' = TRUE
           /\ callback' = TRUE
           /\ shortages' = shortages + 1

(* Seeded fault: the queue is not restarted unless it has requests to push. *)
KickForgetsQueue(d, room) ==
    /\ SetDriver(d)
    /\ UNCHANGED <<stopped, callback, shortages>>

(* kick_pending_request_queues *)
Kick(d, room) ==
    IF room > 0 THEN DoRequests(d, room)
    ELSE SetDriver(d) /\ UNCHANGED <<stopped, callback, shortages>>

RoomLeft == RingSize - Len(ring) - Cardinality(taken) - Len(answers)

--------------------------------------------------------------------------------
(* A bio of n pages arrives: a request on the queue.                       *)
Submit(b, n) ==
    /\ gd /\ size[b] = 0 /\ n <= max_segments
    /\ rq' = Append(rq, [bio |-> b, n |-> n])
    /\ size' = [size EXCEPT ![b] = n]
    /\ pending' = [pending EXCEPT ![b] = 1]
    /\ UNCHANGED <<devVars, features, stopped, callback, work, ringVars, grantVars,
                   watchVars, envVars, answered, bug>>

(* The block layer runs the request function of a queue that is not        *)
(* stopped.  A device that is not connected gets nothing: the request goes *)
(* back and the queue is stopped.                                          *)
RunQueue ==
    /\ rq # <<>> /\ ~stopped
    /\ IF connected = "connected" THEN DoRequests(Driver, RoomLeft)
       ELSE stopped' = TRUE /\ UNCHANGED <<rq, shadow_free, shadow, ring, answers, grants,
                                           persistent_gnts_c, granted, indirect_pages, pending,
                                           answered, bug, callback, shortages>>
    /\ UNCHANGED <<devVars, features, work, taken, irq, mapped, watchVars,
                   backend, host, watch, migrations, size>>

(* blkif_restart_queue_callback, when the grant table has references again *)
CallbackFires ==
    /\ callback
    /\ callback' = FALSE /\ work' = TRUE
    /\ UNCHANGED <<devVars, features, rq, stopped, ringVars, grantVars, watchVars,
                   envVars, bioVars, bug>>

(* blkif_restart_queue *)
RestartQueue ==
    /\ work
    /\ work' = FALSE
    /\ IF connected = "connected" THEN Kick(Driver, RoomLeft)
       ELSE UNCHANGED <<rq, shadow_free, shadow, ring, answers, grants, persistent_gnts_c,
                        granted, indirect_pages, pending, answered, bug, stopped, callback,
                        shortages>>
    /\ UNCHANGED <<devVars, features, taken, irq, mapped, watchVars,
                   backend, host, watch, migrations, size>>

--------------------------------------------------------------------------------
(* Seeded fault: a reference still mapped goes to the end of the list.     *)
ReturnGrantLast(d, id) ==
    LET g == Head(d.shadow[id].used)
        kept == g.gref \in mapped
        frame == Len(d.shadow[id].used) = 1 /\ d.shadow[id].req.n > Direct
    IN  [d EXCEPT !.shadow[id].used = Tail(@),
                  !.grants = Append(@, IF kept THEN g ELSE [g EXCEPT !.gref = NoRef]),
                  !.count = IF kept THEN @ + 1 ELSE @,
                  !.granted = IF kept THEN @ ELSE @ \ {g.gref},
                  !.pages = IF frame /\ ~kept /\ ~feature_persistent THEN @ + 1 ELSE @]

(* The next grant of an answered request: kept, and first to be used       *)
(* again, if the back end still maps it, else its access is ended; a       *)
(* frame, the last of them, then goes back to indirect_pages.              *)
ReturnGrant(d, id) ==
    LET g == Head(d.shadow[id].used)
        kept == g.gref \in mapped
        frame == Len(d.shadow[id].used) = 1 /\ d.shadow[id].req.n > Direct
    IN  [d EXCEPT !.shadow[id].used = Tail(@),
                  !.grants = IF kept THEN <<g>> \o @
                             ELSE Append(@, [gref |-> NoRef, page |-> g.page]),
                  !.count = IF kept THEN @ + 1 ELSE @,
                  !.granted = IF kept THEN @ ELSE @ \ {g.gref},
                  !.pages = IF frame /\ ~kept /\ ~feature_persistent THEN @ + 1 ELSE @]

(* The grants of the request the next response answers: blkif_completion.  *)
ReturnGrants(d) ==
    LET n == Len(d.shadow[Head(d.answers)].used)
        g[i \in 0..n] == IF i = 0 THEN d ELSE ReturnGrant(g[i - 1], Head(d.answers))
    IN  g[n]

(* That request is over: add_id_to_freelist, and __blk_end_request_all,    *)
(* with which split_bio_end counts the pieces of a bio.                    *)
Complete(d) ==
    LET id == Head(d.answers)
        r  == d.shadow[id].req
    IN  [ReturnGrants(d) EXCEPT
           !.answers = Tail(@), !.free = <<id>> \o @,
           !.shadow[id] = Idle,
           !.pending[r.bio] = @ - 1,
           !.answered[r.bio] = @ + r.n]

CompleteAll(d) ==
    LET c[i \in 0..Len(d.answers)] == IF i = 0 THEN d ELSE Complete(c[i - 1])
    IN  c[Len(d.answers)]

(* blkif_interrupt: all responses on the ring, then the queue is kicked.   *)
Interrupt ==
    /\ irq
    /\ irq' = FALSE
    /\ IF connected = "connected"
       THEN Kick(CompleteAll(Driver), RoomLeft + Len(answers))
       ELSE UNCHANGED <<rq, shadow_free, shadow, ring, answers, grants, persistent_gnts_c,
                        granted, indirect_pages, pending, answered, bug, stopped, callback,
                        shortages>>
    /\ UNCHANGED <<devVars, features, work, taken, mapped, watchVars, backend, host,
                   watch, migrations, size>>

--------------------------------------------------------------------------------
(* blkif_free, when the device was connected: the ring is taken down, what *)
(* was in flight stays in the shadows, the list takes their grants, and    *)
(* indirect_pages the frames; the references are stale but stay written in *)
(* the list until blkif_recover.                                           *)
FreeForSuspend ==
    LET g[i \in 0..RingSize] == IF i = 0 THEN grants ELSE g[i - 1] \o shadow[i - 1].used
    IN  /\ connected' = "suspended"
        /\ grants' = g[RingSize]
        /\ persistent_gnts_c' = persistent_gnts_c - Valid(grants)
        /\ indirect_pages' = IF feature_persistent THEN indirect_pages
                             ELSE indirect_pages + Cardinality({id \in Ids : shadow[id].req.n > Direct})
        /\ bug' = (persistent_gnts_c' # 0)
        /\ UNCHANGED shadow

(* blkif_free otherwise: the grants and the pages of frames are freed, and *)
(* the shadows of what was in flight.                                      *)
FreeForGood ==
    /\ connected' = "disconnected"
    /\ grants' = <<>> /\ indirect_pages' = 0
    /\ persistent_gnts_c' = persistent_gnts_c - Valid(grants)
    /\ bug' = (persistent_gnts_c' # 0 \/ (indirect_pages # 0 /\ feature_persistent))
    /\ UNCHANGED shadow

BlkifFree ==
    /\ IF connected = "connected" THEN FreeForSuspend ELSE FreeForGood
    /\ stopped' = (gd \/ stopped)               \* if (info->rq) blk_stop_queue
    /\ callback' = FALSE /\ work' = FALSE
    /\ granted' = {}
    /\ ring' = <<>> /\ answers' = <<>> /\ irq' = FALSE

(* Save, restore on a host with another back end, blkfront_resume: the     *)
(* grant table is new, nothing is mapped any more; the driver goes on at   *)
(* once if the new back end is waiting already.                            *)
Resume(h, b) ==
    /\ pc = "idle" /\ migrations < MaxMigrations
    /\ Patient => connected = "connected"
    /\ Uniform => h = host
    /\ migrations' = migrations + 1
    /\ BlkifFree
    /\ host' = h /\ backend' = b
    /\ mapped' = {} /\ taken' = {}
    /\ state' = "Initialising"
    /\ watch' = TRUE
    /\ pc' = IF b = "InitWait" THEN "talk" ELSE "idle"
    /\ UNCHANGED <<gd, features, rq, shadow_free, bio_list, shortages, bioVars>>

(* Resumed where it was, the back end still maps the ring: blkfront_resume *)
(* leaves everything as it is.                                             *)
ResumeInPlace ==
    /\ pc = "idle" /\ migrations < MaxMigrations
    /\ backend = "Connected" /\ connected = "connected"
    /\ migrations' = migrations + 1
    /\ state' = "Initialising"
    /\ watch' = TRUE
    /\ UNCHANGED <<connected, gd, features, queueVars, ringVars, grantVars, watchVars,
                   backend, host, shortages, bioVars, bug>>

(* talk_to_blkback: a new ring, its references published, Initialised.     *)
TalkToBlkback ==
    /\ pc = "talk"
    /\ IF state \in AtLeastInitialised
       THEN pc' = "idle" /\ UNCHANGED <<state, shadow_free>>
       ELSE /\ state' = "Initialised"
            /\ IF connected = "suspended"
               THEN pc' = "recover" /\ UNCHANGED shadow_free
               ELSE pc' = "idle" /\ shadow_free' = ShadowInit
    /\ UNCHANGED <<connected, gd, features, queueVars, shadow, ring, taken, answers, irq, grantVars,
                   bio_list, envVars, bioVars, bug>>

(* The requests in flight, in the order of their ids. *)
ListInFlight ==
    LET l[i \in 0..RingSize] ==
          IF i = 0 THEN <<>>
          ELSE IF i - 1 \in InFlight THEN Append(l[i - 1], shadow[i - 1].req) ELSE l[i - 1]
    IN  l[RingSize]

(* Segments a request may have: what the back end offers, if it has said   *)
(* so yet.                                                                 *)
Offered == IF backend = "Connected" THEN {host.segs} ELSE {Direct, host.segs}

(* Seeded fault: only what was in flight is submitted again.               *)
RecoverInFlightOnly ==
    /\ pc = "recover"
    /\ pc' = "reconnect"
    /\ bio_list' = ListInFlight
    /\ rq' = <<>>
    /\ shadow' = [id \in Ids |-> Idle] /\ shadow_free' = ShadowInit
    /\ grants' = [i \in 1..Len(grants) |-> [gref |-> NoRef,
                    page |-> IF feature_persistent THEN grants[i].page ELSE "none"]]
    /\ max_segments' \in Offered
    /\ UNCHANGED <<devVars, feature_persistent, stopped, callback, work, ring, taken,
                   answers, irq, persistent_gnts_c, granted, mapped, indirect_pages, envVars,
                   bioVars, bug>>

(* Seeded fault: the stale references stay in the list.                    *)
RecoverKeepsRefs ==
    /\ pc = "recover"
    /\ pc' = "reconnect"
    /\ bio_list' = ListInFlight \o rq
    /\ rq' = <<>>
    /\ shadow' = [id \in Ids |-> Idle] /\ shadow_free' = ShadowInit
    /\ max_segments' \in Offered
    /\ UNCHANGED <<devVars, feature_persistent, stopped, callback, work, ring, taken,
                   answers, irq, grantVars, envVars, bioVars, bug>>

(* blkif_recover: the bios of the shadows and of the queue on one list,    *)
(* their requests ended; the shadows and the references in the list of     *)
(* grants cleared by blkfront_setup_indirect.                              *)
Recover ==
    /\ pc = "recover"
    /\ pc' = "reconnect"
    /\ bio_list' = ListInFlight \o rq
    /\ rq' = <<>>
    /\ shadow' = [id \in Ids |-> Idle] /\ shadow_free' = ShadowInit
    /\ grants' = [i \in 1..Len(grants) |-> [gref |-> NoRef,
                    page |-> IF feature_persistent THEN grants[i].page ELSE "none"]]
    /\ max_segments' \in Offered
    /\ UNCHANGED <<devVars, feature_persistent, stopped, callback, work, ring, taken,
                   answers, irq, persistent_gnts_c, granted, mapped, indirect_pages, envVars,
                   bioVars, bug>>

(* Connected; what was submitted since is sent first.                      *)
Reconnect ==
    /\ pc = "reconnect"
    /\ pc' = "resubmit"
    /\ connected' = "connected" /\ state' = "Connected"
    /\ Kick(Driver, RoomLeft)
    /\ UNCHANGED <<gd, features, work, taken, irq, mapped, bio_list, backend, host,
                   watch, migrations, size>>

(* The next bio of the list, in pieces if it is too long for one request.  *)
(* The memory for them is not to be refused (BUG_ON).                      *)
Resubmit ==
    /\ pc = "resubmit"
    /\ IF bio_list = <<>>
       THEN pc' = "idle" /\ UNCHANGED <<bio_list, rq, pending, bug>>
       ELSE LET r == Head(bio_list)
                pieces == (r.n + max_segments - 1) \div max_segments
                piece(i) == IF i < pieces THEN max_segments ELSE r.n - (pieces - 1) * max_segments
            IN  /\ rq' = rq \o [i \in 1..pieces |-> [bio |-> r.bio, n |-> piece(i)]]
                /\ pending' = [pending EXCEPT ![r.bio] = @ + pieces - 1]
                /\ bio_list' = Tail(bio_list)
                /\ bug' \in {FALSE, pieces > 1 /\ ~MemoryLasts}
                /\ UNCHANGED pc
    /\ UNCHANGED <<devVars, features, stopped, callback, work, ringVars, grantVars, envVars,
                   size, answered>>

(* blkfront_connect: of a new disk; of a suspended one it recovers.        *)
Connect ==
    CASE connected = "connected" ->          \* the capacity may have changed
           UNCHANGED <<devVars, features, queueVars, ringVars, grantVars, pc, shortages,
                       bioVars, bug>>
      [] connected = "suspended" ->
           /\ pc' = "recover"
           /\ UNCHANGED <<devVars, features, queueVars, ringVars, grantVars, shortages,
                          bioVars, bug>>
      [] OTHER ->
           /\ feature_persistent' = host.persistent
           /\ max_segments' = host.segs
           /\ grants' = [i \in 1..RingSize * (host.segs + 1) |->
                           [gref |-> NoRef, page |-> IF host.persistent THEN "bounce" ELSE "none"]]
           /\ LET indirect == ~host.persistent /\ host.segs > Direct
              IN  /\ indirect_pages' = IF indirect THEN RingSize ELSE indirect_pages
                  /\ bug' = (gd \/ (indirect /\ indirect_pages # 0))
           /\ gd' = TRUE
           /\ connected' = "connected" /\ state' = "Connected"
           /\ stopped' = FALSE
           /\ UNCHANGED <<rq, callback, work, ringVars, persistent_gnts_c, granted, mapped,
                          pc, shortages, bioVars>>

(* blkback_changed, run by the xenwatch thread when the watch fires.       *)
BlkbackChanged ==
    /\ pc = "idle" /\ watch
    /\ watch' = FALSE
    /\ CASE backend = "InitWait" ->
              /\ pc' = "talk"
              /\ UNCHANGED <<devVars, features, queueVars, ringVars, grantVars, shortages,
                             bioVars, bug>>
         [] backend = "Connected" -> Connect
         [] OTHER ->
              UNCHANGED <<devVars, features, queueVars, ringVars, grantVars, pc, shortages,
                          bioVars, bug>>
    /\ UNCHANGED <<bio_list, backend, host, migrations>>

--------------------------------------------------------------------------------
(* The back end, as the driver knows it. *)
BackendWaits ==
    /\ backend = "Initialising"
    /\ backend' = "InitWait" /\ watch' = TRUE
    /\ UNCHANGED <<devVars, features, queueVars, ringVars, grantVars, watchVars,
                   host, migrations, shortages, bioVars, bug>>

BackendConnects ==
    /\ backend = "InitWait" /\ state \in AtLeastInitialised
    /\ backend' = "Connected" /\ watch' = TRUE
    /\ UNCHANGED <<devVars, features, queueVars, ringVars, grantVars, watchVars,
                   host, migrations, shortages, bioVars, bug>>

(* It takes the next request and maps its grants. *)
BackendTakes ==
    /\ backend = "Connected" /\ ring # <<>>
    /\ ring' = Tail(ring)
    /\ taken' = taken \cup {Head(ring)}
    /\ mapped' = mapped \cup RefsIn(shadow[Head(ring)].used)
    /\ UNCHANGED <<devVars, features, queueVars, shadow_free, shadow, answers, irq,
                   grants, persistent_gnts_c, granted, indirect_pages, watchVars, envVars, bioVars, bug>>

(* It answers one, in any order.  Only a back end that knows persistent    *)
(* grants may keep them mapped. *)
BackendAnswers(id, keep) ==
    /\ id \in taken
    /\ keep => host.persistent
    /\ taken' = taken \ {id}
    /\ answers' = Append(answers, id)
    /\ irq' = TRUE
    /\ mapped' = IF keep THEN mapped ELSE mapped \ RefsIn(shadow[id].used)
    /\ UNCHANGED <<devVars, features, queueVars, shadow_free, shadow, ring,
                   grants, persistent_gnts_c, granted, indirect_pages, watchVars, envVars, bioVars, bug>>

(* It lets go of the grants it has kept mapped and does not work on:       *)
(* before the driver has looked whether they are, or any time after.       *)
BackendLetsGo ==
    /\ mapped' = mapped \cap UNION {RefsIn(shadow[id].used) : id \in taken}
    /\ mapped' # mapped
    /\ UNCHANGED <<devVars, features, queueVars, ringVars, grants, persistent_gnts_c, granted,
                   indirect_pages, watchVars, envVars, bioVars, bug>>

BlockLayer == (\E b \in Bios, n \in 1..MaxSegs : Submit(b, n)) \/ RunQueue
Restart    == CallbackFires \/ RestartQueue
Xenwatch   == TalkToBlkback \/ Recover \/ Reconnect \/ Resubmit \/ BlkbackChanged
Migration  == ResumeInPlace \/ \E h \in Hosts, b \in {"Initialising", "InitWait"} : Resume(h, b)
Serves     == \/ BackendWaits \/ BackendConnects \/ BackendTakes
              \/ \E id \in Ids, keep \in BOOLEAN : BackendAnswers(id, keep)
Backend    == Serves \/ BackendLetsGo

(* After a BUG_ON the guest is gone. *)
Next == ~bug /\ (BlockLayer \/ Restart \/ Interrupt \/ Xenwatch \/ Migration \/ Backend)

Spec == Init /\ [][Next]_vars

(* The block layer runs a queue that is not stopped, interrupts and work   *)
(* are delivered, the grant table gets references back, the xenwatch       *)
(* thread runs, and a back end serves what it is given.                    *)
Fairness ==
    /\ WF_vars(~bug /\ RunQueue) /\ WF_vars(~bug /\ Interrupt)
    /\ WF_vars(~bug /\ CallbackFires) /\ WF_vars(~bug /\ RestartQueue)
    /\ WF_vars(~bug /\ Xenwatch) /\ WF_vars(~bug /\ Serves)

FairSpec == Spec /\ Fairness

--------------------------------------------------------------------------------
(* Every variable has its type. *)
TypeOK ==
    /\ connected \in {"disconnected", "connected", "suspended"}
    /\ state \in {"Initialising", "Initialised", "Connected"}
    /\ feature_persistent \in BOOLEAN /\ max_segments \in Segs
    /\ rq \in Seq(Requests) /\ bio_list \in Seq(Requests)
    /\ {gd, stopped, callback, work, irq, watch, bug} \subseteq BOOLEAN
    /\ shadow_free \in Seq(Ids) /\ taken \subseteq Ids
    /\ ring \in Seq(Ids) /\ answers \in Seq(Ids)
    /\ \A id \in InFlight : shadow[id].req \in Requests /\ shadow[id].used \in Seq(Grants)
    /\ grants \in Seq(Grants) /\ persistent_gnts_c \in 0..Cardinality(Refs)
    /\ granted \subseteq Refs /\ mapped \subseteq Refs /\ indirect_pages \in Nat
    /\ pc \in {"idle", "talk", "recover", "reconnect", "resubmit"}
    /\ backend \in {"Initialising", "InitWait", "Connected"} /\ host \in Hosts
    /\ migrations \in 0..MaxMigrations /\ shortages \in 0..MaxShortages
    /\ size \in [Bios -> 0..MaxSegs]
    /\ pending \in [Bios -> 0..MaxSegs] /\ answered \in [Bios -> 0..MaxSegs]

(* Of a sequence of requests: the pages, and the requests, of bio b.       *)
Total(f) == LET t[i \in 0..Len(f)] == IF i = 0 THEN 0 ELSE t[i - 1] + f[i] IN t[Len(f)]
PagesOf(b, s)  == Total([i \in 1..Len(s) |-> IF s[i].bio = b THEN s[i].n ELSE 0])
PiecesOf(b, s) == Total([i \in 1..Len(s) |-> IF s[i].bio = b THEN 1 ELSE 0])

Shadowed(sh) == [i \in 1..RingSize |-> sh[i - 1].req]

(* Through migrations, shortages and splits, the pages of a bio that have  *)
(* not been answered are each in exactly one place (the queue, the ring,   *)
(* the list of bios blkif_recover has still to submit), and the bio waits  *)
(* for just as many requests as there are: none is lost, none is answered  *)
(* twice, and a bio ends with the last of its requests and not before.     *)
NothingLost ==
    \A b \in Bios :
        /\ size[b] = answered[b] + PagesOf(b, rq) + PagesOf(b, Shadowed(shadow))
                         + PagesOf(b, bio_list)
        /\ pending[b] = PiecesOf(b, rq) + PiecesOf(b, Shadowed(shadow)) + PiecesOf(b, bio_list)

(* The ids are free or in flight, each once, and those in flight are the   *)
(* ones on the ring: the id of a response is that of its request.          *)
IdsBalanced ==
    connected = "connected" =>
        /\ Len(shadow_free) + Cardinality(InFlight) = RingSize
        /\ {shadow_free[i] : i \in 1..Len(shadow_free)} \cap InFlight = {}
        /\ Len(ring) + Cardinality(taken) + Len(answers) = Cardinality(InFlight)
        /\ {ring[i] : i \in 1..Len(ring)} \cup taken
               \cup {answers[i] : i \in 1..Len(answers)} = InFlight

(* Pages, bios, requests and ids are conserved together.                   *)
RequestsConserved == NothingLost /\ IdsBalanced

(* No reference is in two of these grants.                                 *)
Once(entries) ==
    \A i, j \in 1..Len(entries) :
        entries[i].gref = entries[j].gref /\ i # j => entries[i].gref = NoRef

(* persistent_gnts_c counts the references in the list, which come before  *)
(* the grants without one: blkif_queue_request reserves only as many new   *)
(* references as the count leaves open, and draws from the front.  No      *)
(* reference is in two grants, and none is granted without a grant; one    *)
(* the back end maps has not been given back.                              *)
GrantsAccounted ==
    /\ mapped \subseteq granted
    /\ connected = "connected" =>
        /\ persistent_gnts_c \in 0..Len(grants)
        /\ \A i \in 1..Len(grants) : grants[i].gref # NoRef <=> i <= persistent_gnts_c
        /\ granted = RefsIn(grants) \cup UNION {RefsIn(shadow[id].used) : id \in Ids}
        /\ Once(grants)
        /\ \A id \in Ids :
              /\ Once(shadow[id].used)
              /\ RefsIn(shadow[id].used) \cap RefsIn(grants) = {}
              /\ \A other \in Ids \ {id} :
                    RefsIn(shadow[id].used) \cap RefsIn(shadow[other].used) = {}

(* Without copying, the pages a request hands the back end are its bio's   *)
(* own, and its frame's, at whatever host the request is sent.             *)
OwnPages ==
    \A id \in InFlight : \A i \in 1..Len(shadow[id].used) :
        shadow[id].used[i].page = IF feature_persistent THEN "bounce"
                                  ELSE IF i > shadow[id].req.n THEN "frame" ELSE shadow[id].req.bio

(* The BUG_ONs hold: for each request an id, grants, enough references     *)
(* reserved, a page for its frame, and no more segments than the limit of  *)
(* the moment; no persistent grant left after the list has been emptied,   *)
(* one disk, no pages left over when it is made.                           *)
NoBug == TypeOK /\ ~bug

(* A stopped queue with requests on it is started again by something that  *)
(* is under way: a response, a callback, the restart work, the recovery.   *)
QueueNotStuck ==
    stopped /\ rq # <<>> /\ connected = "connected" =>
        InFlight # {} \/ callback \/ work

(* Every bio submitted is answered, however often the guest migrates.      *)
BiosComplete == \A b \in Bios : size[b] > 0 ~> answered[b] = size[b]
================================================================================
