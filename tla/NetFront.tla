-------------------------------- MODULE NetFront -------------------------------
(***************************************************************************)
(* The network front end xen-vnif/netfront.c between the network stack and *)
(* a back end that may be replaced under it by a live migration: transmit  *)
(* and receive ring, the stack's queue, NAPI polling, the refill timer,    *)
(* open and close, resume and reconnection.                                *)
(*                                                                         *)
(* Interleaving: front end and back end share memory and no lock, so every *)
(* access to an index or an event index of a shared ring is a step of its  *)
(* own; what the driver does in between under tx_lock or rx_lock, to data  *)
(* of its own, is one step.  send and recv are the program counters of     *)
(* whoever holds tx_lock and rx_lock.                                      *)
(***************************************************************************)
EXTENDS RingIndex, FiniteSets, SequencesExt

CONSTANTS MaxFrags,    \* MAX_SKB_FRAGS
          MinTarget,   \* rx_min_target (RX_DFL_MIN_TARGET)
          Budget,      \* packets a poll may deliver (64)
          Messages,    \* what arrives: [data, extra, bad], in slots
          Loads,       \* bounds: [sends, arrivals, migrations, shortages, closes]
          OneCpu       \* interrupts and polling on one CPU

ASSUME NetAssumption ==
    /\ MaxFrags \in Nat /\ MaxFrags + 2 < RingSize /\ Wrap % RingSize = 0 /\ First % RingSize = 0
    /\ MinTarget \in 1..RingSize /\ Budget \in Nat \ {0} /\ OneCpu \in BOOLEAN
    /\ Messages # {}
    /\ \A m \in Messages :
          m.data \in 1..RingSize - 1 /\ m.extra \in 0..1 /\ m.bad \in 0..m.data
    /\ Loads \subseteq [sends : Nat, arrivals : Nat, migrations : Nat, shortages : Nat, closes : Nat]

Ids == 1..RingSize
MaxTarget == RingSize                   \* RX_MAX_TARGET, TX_MAX_TARGET
Slots(m) == m.data + m.extra
MaxSlots == CHOOSE n \in {Slots(m) : m \in Messages} : \A m \in Messages : Slots(m) <= n

VARIABLES tx, rx,      \* rings, shared and private part, and what belongs to their slots
          send, recv,  \* who holds tx_lock, rx_lock, and where
          napi,        \* "off": napi_disable has it; "idle"; "sched": NAPI_STATE_SCHED
          disabling,   \* napi_disable waits
          timer,       \* rx_refill_timer is pending
          running, stopped, rtnl,     \* the stack: device up, queue stopped, rtnl_lock
          carrier, link,              \* the driver's own flag; progress of a reconnection
          irq, bell,   \* event pending for the front end, for the back end
          back,        \* the back end's private part of the rings
          left,        \* what is left of the bounds
          bug          \* a BUG_ON was reached

stackVars == <<running, stopped, rtnl>>
linkVars == <<carrier, link>>
napiVars == <<napi, disabling, timer>>
vars == <<tx, rx, send, recv, napiVars, stackVars, linkVars, irq, bell, back, left, bug>>

Free == [at |-> "free", by |-> "none", old |-> 0, seen |-> 0]
NoPush == Wrap                           \* no index

(* SHARED_RING_INIT and FRONT_RING_INIT. *)
NewRing(t) == [t EXCEPT !.pvt = First, !.cons = First, !.req_prod = First, !.req_event = Plus(First, 1),
                        !.rsp_prod = First, !.rsp_event = Plus(First, 1)]
NoBack == [up |-> FALSE, tx |-> "awake", tx_cons |-> First, tx_old |-> NoPush,
           rx |-> "awake", rx_cons |-> First, rx_old |-> NoPush]

(* create_netdev: all ids free, a grant for each slot, the carrier off. *)
Init ==
    /\ tx = [pvt |-> First, cons |-> First, req_prod |-> First, req_event |-> Plus(First, 1),
             rsp_prod |-> First, rsp_event |-> Plus(First, 1),
             free |-> [i \in Ids |-> i], grefs |-> RingSize, reqs |-> <<>>, taken |-> {}, rsps |-> <<>>]
    /\ rx = [pvt |-> First, cons |-> First, req_prod |-> First, req_event |-> Plus(First, 1),
             rsp_prod |-> First, rsp_event |-> Plus(First, 1),
             skbs |-> {}, grefs |-> RingSize, batch |-> 0, target |-> MinTarget, rsps |-> <<>>]
    /\ send = Free /\ recv = Free
    /\ napi = "off" /\ disabling = FALSE /\ timer = FALSE
    /\ running = FALSE /\ stopped = TRUE /\ rtnl = "free"
    /\ carrier = FALSE /\ link = "resumed"
    /\ irq = FALSE /\ bell = FALSE /\ back = NoBack
    /\ left \in Loads /\ bug = FALSE

--------------------------------------------------------------------------------
Outstanding(t) == Minus(t.pvt, t.cons)
Unconsumed(t) == t.rsp_prod # t.cons

(* netfront_tx_slot_available *)
SlotAvailable(t) == Outstanding(t) < MaxTarget - MaxFrags - 2

(* napi_schedule: nothing happens when it is scheduled or being disabled. *)
Scheduled == IF napi = "idle" /\ ~disabling THEN "sched" ELSE napi

(* xennet_rxidx, of n slots from an index on *)
RxSlots(i, n) == {Plus(i, k) % RingSize : k \in 0..n - 1}

--------------------------------------------------------------------------------
(* Transmit. *)

(* A packet of ids slots with data, and a slot with the GSO data behind    *)
(* the first.                                                              *)
Entries(ids, extra) ==
    [k \in 1..Len(ids) |-> [id |-> ids[k], slots |-> IF k = 1 /\ extra THEN 2 ELSE 1]]

(* network_start_xmit up to RING_PUSH_REQUESTS, with xennet_make_frags.    *)
(* The stack sends to a device that is open, while its queue is not        *)
(* stopped. *)
StartXmit(n, extra) ==
    /\ left.sends > 0 /\ running /\ rtnl # "open" /\ ~stopped /\ send = Free
    /\ left' = [left EXCEPT !.sends = @ - 1]
    /\ IF carrier
       THEN /\ send' = [Free EXCEPT !.at = "push", !.by = "xmit"]
            /\ IF Len(tx.free) < n \/ tx.grefs < n
               THEN bug' = TRUE /\ UNCHANGED tx
               ELSE /\ tx' = [tx EXCEPT
                         !.free = SubSeq(@, n + 1, Len(@)), !.grefs = @ - n,
                         !.reqs = @ \o Entries(SubSeq(tx.free, 1, n), extra),
                         !.pvt = Plus(@, IF extra THEN n + 1 ELSE n)]
                    /\ UNCHANGED bug
       ELSE UNCHANGED <<tx, send, bug>>                      \* dropped
    /\ UNCHANGED <<rx, recv, napiVars, stackVars, linkVars, irq, bell, back>>

(* Seeded fault: the old index is read after the push. *)
XmitPushFirst ==
    /\ send.at = "push"
    /\ send' = [send EXCEPT !.at = "notify", !.old = tx.pvt]
    /\ tx' = [tx EXCEPT !.req_prod = tx.pvt]
    /\ UNCHANGED <<rx, recv, napiVars, stackVars, linkVars, irq, bell, back, left, bug>>

XmitPush ==
    /\ send.at = "push"
    /\ send' = [send EXCEPT !.at = "notify", !.old = tx.req_prod]
    /\ tx' = [tx EXCEPT !.req_prod = tx.pvt]
    /\ UNCHANGED <<rx, recv, napiVars, stackVars, linkVars, irq, bell, back, left, bug>>

XmitNotify ==
    /\ send.at = "notify"
    /\ bell' = (bell \/ CheckNotify(tx.req_prod, tx.req_event, send.old))
    /\ send' = [send EXCEPT !.at = "gc", !.old = 0]
    /\ UNCHANGED <<tx, rx, recv, napiVars, stackVars, linkVars, irq, back, left, bug>>

(* netif_int *)
Interrupt ==
    /\ irq /\ send = Free
    /\ OneCpu => recv.by # "poll" \/ recv.at \in {"push", "notify", "final"}  \* local_irq_save
    /\ irq' = FALSE
    /\ send' = IF carrier THEN [Free EXCEPT !.at = "gc", !.by = "irq"] ELSE send
    /\ UNCHANGED <<tx, rx, recv, napiVars, stackVars, linkVars, bell, back, left, bug>>

(* Seeded fault: the grant is not given back. *)
ReclaimLeaks(t) ==
    [t EXCEPT !.free = Reverse(t.rsps) \o @, !.rsps = <<>>, !.cons = t.rsp_prod]

(* network_tx_buf_gc: each response gives back its id, its grant and its   *)
(* part of the packet.  It is a bug if the back end still maps the page.   *)
Reclaim(t) ==
    [t EXCEPT !.free = Reverse(t.rsps) \o @, !.grefs = @ + Len(t.rsps),
              !.rsps = <<>>, !.cons = t.rsp_prod]

TxBufGc ==
    /\ send.at = "gc"
    /\ tx' = Reclaim(tx)
    /\ send' = [send EXCEPT !.at = "event", !.seen = tx.rsp_prod]
    /\ UNCHANGED <<rx, recv, napiVars, stackVars, linkVars, irq, bell, back, left, bug>>

(* Seeded fault: the event is set two past the middle. *)
TxEventLate(t, seen) == Plus(seen, Minus(t.req_prod, seen) \div 2 + 2)

TxEvent(t, seen) == Plus(seen, Minus(t.req_prod, seen) \div 2 + 1)

TxSetEvent ==
    /\ send.at = "event"
    /\ tx' = [tx EXCEPT !.rsp_event = TxEvent(tx, send.seen)]
    /\ send' = [send EXCEPT !.at = "recheck"]
    /\ UNCHANGED <<rx, recv, napiVars, stackVars, linkVars, irq, bell, back, left, bug>>

(* network_maybe_wake_tx does not wake the queue. *)
StaysStopped == stopped /\ ~(running /\ SlotAvailable(tx))

(* The end of network_tx_buf_gc, and of whoever called it. *)
TxRecheck ==
    /\ send.at = "recheck"
    /\ IF tx.rsp_prod # send.seen
       THEN send' = [send EXCEPT !.at = "gc"] /\ UNCHANGED <<stopped, napi>>
       ELSE /\ send' = Free
            /\ stopped' = (StaysStopped \/ (send.by = "xmit" /\ ~SlotAvailable(tx)))
            /\ napi' = IF send.by = "irq" /\ Unconsumed(rx) THEN Scheduled ELSE napi
    /\ UNCHANGED <<tx, rx, recv, disabling, timer, running, rtnl, linkVars, irq, bell, back, left, bug>>

Transmit ==
    \/ \E n \in 1..MaxFrags + 1, extra \in BOOLEAN : StartXmit(n, extra)
    \/ XmitPush \/ XmitNotify \/ Interrupt \/ TxBufGc \/ TxSetEvent \/ TxRecheck

--------------------------------------------------------------------------------
(* Receive. *)

(* network_alloc_rx_buffers up to the push: buffers join the batch until   *)
(* there are got; with a batch worthwhile, or no more to be had, it goes   *)
(* on the ring.                                                            *)
WantedBuffers(r) == IF r.target - Outstanding(r) > r.batch THEN r.target - Outstanding(r) ELSE r.batch

RaiseTarget(r) ==
    IF Minus(r.pvt, r.rsp_prod) >= r.target \div 4 THEN r.target
    ELSE IF 2 * r.target > MaxTarget THEN MaxTarget ELSE 2 * r.target

PostBatch(r) ==
    [r EXCEPT !.skbs = @ \cup RxSlots(r.pvt, r.batch), !.grefs = @ - r.batch,
              !.pvt = Plus(@, r.batch), !.batch = 0]

(* BUG_ON(np->rx_skbs[id]), BUG_ON((signed short)ref < 0) *)
CannotPost(r) ==
    \/ r.batch > r.grefs \/ r.batch > RingSize
    \/ r.skbs \cap RxSlots(r.pvt, r.batch) # {}

AllocRxBuffers(r, got) ==
    LET b == [r EXCEPT !.batch = got]
        short == got < WantedBuffers(r)
        post == IF short /\ got # 0 THEN b ELSE [b EXCEPT !.target = RaiseTarget(b)]
    IN  IF ~(short /\ got # 0) /\ got < r.target \div 2
        THEN [rx |-> b, push |-> b.pvt > b.req_prod, short |-> short, bug |-> FALSE]
        ELSE [rx |-> PostBatch(post), push |-> TRUE, short |-> short, bug |-> CannotPost(post)]

(* What memory there is, as long as shortages are left. *)
Allocations(r) == r.batch..WantedBuffers(r)
Allowed(a) == a.short => left.shortages > 0
Spend(a) == IF a.short THEN [left EXCEPT !.shortages = @ - 1] ELSE left

(* xennet_get_responses, xennet_get_extras, xennet_move_rx_slot: slots     *)
(* with extra data and refused ones keep their buffer, which goes to the   *)
(* end of the ring; the others give up buffer and grant.                   *)
GetResponses(r, m) ==
    LET moved == m.extra + m.bad
    IN  [r EXCEPT !.cons = Plus(@, Slots(m)), !.pvt = Plus(@, moved),
                  !.skbs = (@ \ RxSlots(r.cons, Slots(m))) \cup RxSlots(r.pvt, moved),
                  !.grefs = @ + m.data - m.bad]

(* BUG_ON(np->rx_skbs[new]) *)
MoveCollides(r, m) ==
    (r.skbs \ RxSlots(r.cons, Slots(m))) \cap RxSlots(r.pvt, m.extra + m.bad) # {}

(* netif_poll's loop: packets in order, up to the budget of good ones. *)
Good(rsps, k) == Cardinality({i \in 1..k : rsps[i].bad = 0})
Polled(rsps) ==
    CHOOSE k \in 0..Len(rsps) :
        /\ k = Len(rsps) \/ Good(rsps, k) = Budget
        /\ \A j \in 0..k - 1 : Good(rsps, j) < Budget
Full(rsps) == Good(rsps, Len(rsps)) >= Budget

AfterMessages(r) ==
    LET k == Polled(r.rsps)
        f[i \in 0..k] == IF i = 0 THEN r ELSE GetResponses(f[i - 1], r.rsps[i])
    IN  [rx |-> [f[k] EXCEPT !.rsps = SubSeq(@, k + 1, Len(@))],
         bug |-> \E i \in 1..k : MoveCollides(f[i - 1], r.rsps[i])]

(* A poll that leaves most of the buffers unused lowers the target.        *)
LowerTarget(r) ==
    IF Minus(r.pvt, r.rsp_prod) > (3 * r.target) \div 4 /\ r.target > MinTarget
    THEN [r EXCEPT !.target = @ - 1] ELSE r

(* netif_poll up to the push of the new buffers.  With the carrier off it  *)
(* returns and stays scheduled.                                            *)
Poll ==
    /\ napi = "sched" /\ recv = Free /\ carrier
    /\ LET m == AfterMessages(rx)
           r == LowerTarget(m.rx)
           full == Full(rx.rsps)
       IN  \E got \in Allocations(r) :
             LET a == AllocRxBuffers(r, got)
             IN  /\ Allowed(a) /\ left' = Spend(a)
                 /\ rx' = a.rx /\ bug' = (bug \/ m.bug \/ a.bug)
                 /\ timer' = (timer \/ a.short)
                 /\ recv' = [Free EXCEPT !.at = IF a.push THEN "push" ELSE "final",
                                         !.by = IF full THEN "full" ELSE "poll"]
    /\ UNCHANGED <<tx, send, napi, disabling, stackVars, linkVars, irq, bell, back>>

RxPush ==
    /\ recv.at = "push"
    /\ recv' = [recv EXCEPT !.at = "notify", !.old = rx.req_prod]
    /\ rx' = [rx EXCEPT !.req_prod = rx.pvt]
    /\ UNCHANGED <<tx, send, napiVars, stackVars, linkVars, irq, bell, back, left, bug>>

RxNotify ==
    /\ recv.at = "notify"
    /\ bell' = (bell \/ CheckNotify(rx.req_prod, rx.req_event, recv.old))
    /\ recv' = [recv EXCEPT !.at = "final", !.old = 0]
    /\ UNCHANGED <<tx, rx, send, napiVars, stackVars, linkVars, irq, back, left, bug>>

(* The budget is used up: NAPI polls again, unless it is to be disabled. *)
PollAgain ==
    /\ recv.at = "final" /\ recv.by = "full"
    /\ recv' = Free
    /\ napi' = IF disabling THEN "idle" ELSE napi
    /\ UNCHANGED <<tx, rx, send, disabling, timer, stackVars, linkVars, irq, bell, back, left, bug>>

(* RING_FINAL_CHECK_FOR_RESPONSES in netif_poll: a look, the event, and a  *)
(* last look.  network_open sets the event without looking first.          *)
PollLook ==
    /\ recv.at = "final" /\ recv.by = "poll"
    /\ recv' = IF Unconsumed(rx) THEN Free ELSE [recv EXCEPT !.at = "event"]
    /\ UNCHANGED <<tx, rx, send, napiVars, stackVars, linkVars, irq, bell, back, left, bug>>

RxSetEvent ==
    /\ recv.at = "event" \/ (recv.at = "final" /\ recv.by = "open")
    /\ rx' = [rx EXCEPT !.rsp_event = Plus(rx.cons, 1)]
    /\ recv' = [recv EXCEPT !.at = "check"]
    /\ UNCHANGED <<tx, send, napiVars, stackVars, linkVars, irq, bell, back, left, bug>>

(* Seeded fault: no last look after the event is set. *)
PollCheckNot ==
    /\ recv.at = "check" /\ recv.by = "poll"
    /\ recv' = [recv EXCEPT !.at = "complete"]
    /\ UNCHANGED <<tx, rx, send, napiVars, stackVars, linkVars, irq, bell, back, left, bug>>

PollCheck ==
    /\ recv.at = "check" /\ recv.by = "poll"
    /\ recv' = IF Unconsumed(rx) THEN Free ELSE [recv EXCEPT !.at = "complete"]
    /\ UNCHANGED <<tx, rx, send, napiVars, stackVars, linkVars, irq, bell, back, left, bug>>

(* __napi_complete *)
PollComplete ==
    /\ recv.at = "complete"
    /\ recv' = Free /\ napi' = "idle"
    /\ UNCHANGED <<tx, rx, send, disabling, timer, stackVars, linkVars, irq, bell, back, left, bug>>

(* rx_refill_timeout.  The timer is that of the CPU that polled last, and  *)
(* its handler, a softirq as the poll is, does not interrupt one.          *)
RefillTimeout ==
    /\ timer
    /\ OneCpu => recv.by \notin {"poll", "full"}
    /\ timer' = FALSE /\ napi' = Scheduled
    /\ UNCHANGED <<tx, rx, send, recv, disabling, stackVars, linkVars, irq, bell, back, left, bug>>

(* On one CPU an interrupt handler comes to its end before polling goes on; *)
(* network_open may run on another.                                         *)
Receive ==
    /\ OneCpu => send.by # "irq" \/ recv.by = "open"
    /\ \/ Poll \/ RxPush \/ RxNotify \/ PollAgain
       \/ PollLook \/ RxSetEvent \/ PollCheck \/ PollComplete \/ RefillTimeout

--------------------------------------------------------------------------------
(* The stack opens and closes the device under rtnl_lock. *)

(* network_open, to the push of the buffers it allocates. *)
Open ==
    /\ rtnl = "free" /\ ~running /\ recv = Free
    /\ rtnl' = "open" /\ running' = TRUE /\ napi' = "idle"
    /\ IF carrier
       THEN \E got \in Allocations(rx) :
              LET a == AllocRxBuffers(rx, got)
              IN  /\ Allowed(a) /\ left' = Spend(a)
                  /\ rx' = a.rx /\ bug' = (bug \/ a.bug) /\ timer' = (timer \/ a.short)
                  /\ recv' = [Free EXCEPT !.at = IF a.push THEN "push" ELSE "final",
                                          !.by = "open"]
       ELSE UNCHANGED <<left, rx, bug, timer, recv>>
    /\ UNCHANGED <<tx, send, disabling, stopped, linkVars, irq, bell, back>>

(* Its last look at the ring. *)
OpenCheck ==
    /\ recv.at = "check" /\ recv.by = "open"
    /\ recv' = Free /\ napi' = IF Unconsumed(rx) THEN Scheduled ELSE napi
    /\ UNCHANGED <<tx, rx, send, disabling, timer, stackVars, linkVars, irq, bell, back, left, bug>>

(* netif_start_queue *)
OpenEnd ==
    /\ rtnl = "open" /\ recv.by # "open"
    /\ rtnl' = "free" /\ stopped' = FALSE
    /\ UNCHANGED <<tx, rx, send, recv, napiVars, running, linkVars, irq, bell, back, left, bug>>

(* The stack takes the device down once no packet is on its way into the   *)
(* driver, and network_close waits in napi_disable until the device is not *)
(* scheduled. *)
Close ==
    /\ rtnl = "free" /\ running /\ send.by # "xmit" /\ left.closes > 0
    /\ left' = [left EXCEPT !.closes = @ - 1]
    /\ rtnl' = "close" /\ running' = FALSE /\ stopped' = TRUE /\ disabling' = TRUE
    /\ UNCHANGED <<tx, rx, send, recv, napi, timer, linkVars, irq, bell, back, bug>>

CloseEnd ==
    /\ rtnl = "close" /\ napi = "idle"
    /\ rtnl' = "free" /\ napi' = "off" /\ disabling' = FALSE
    /\ UNCHANGED <<tx, rx, send, recv, timer, running, stopped, linkVars, irq, bell, back, left, bug>>

Stack == Open \/ OpenCheck \/ OpenEnd \/ Close \/ CloseEnd

--------------------------------------------------------------------------------
(* Migration and reconnection. *)

(* The guest is saved with no lock held (stop_machine) and restored under  *)
(* another host: its back end and the pending events are gone.             *)
Migrate ==
    /\ link = "connected" /\ left.migrations > 0 /\ send = Free /\ recv = Free
    /\ left' = [left EXCEPT !.migrations = @ - 1]
    /\ link' = "lost" /\ irq' = FALSE /\ bell' = FALSE
    /\ back' = [back EXCEPT !.up = FALSE, !.tx_old = NoPush, !.rx_old = NoPush]
    /\ UNCHANGED <<tx, rx, send, recv, napiVars, stackVars, carrier, bug>>

(* netfront_resume: netif_disconnect_backend. *)
Resume ==
    /\ link = "lost" /\ send = Free /\ recv = Free
    /\ link' = "resumed" /\ carrier' = FALSE
    /\ UNCHANGED <<tx, rx, send, recv, napiVars, stackVars, irq, bell, back, left, bug>>

(* The back end is in InitWait.  network_connect: talk_to_backend sets up  *)
(* the rings, and rtnl_lock is needed once to update the features.         *)
UpdateFeatures ==
    /\ link = "resumed" /\ rtnl = "free"
    /\ link' = "ready"
    /\ UNCHANGED <<tx, rx, send, recv, napiVars, stackVars, carrier, irq, bell, back, left, bug>>

(* netif_release_tx_bufs: what was on the ring is dropped, and its ids go  *)
(* to the head of the free list one by one.                                *)
ReleaseTxBufs(t) ==
    LET f[i \in 0..RingSize] ==
          IF i = 0 THEN t.free
          ELSE IF i \in ToSet(t.free) THEN f[i - 1] ELSE <<i>> \o f[i - 1]
    IN  [NewRing(t) EXCEPT !.free = f[RingSize],
                           !.grefs = @ + Cardinality(Ids \ ToSet(t.free)),
                           !.reqs = <<>>, !.taken = {}, !.rsps = <<>>]

(* Seeded fault: the buffers are moved, the producer index is not. *)
RequeueRxBufsOnly(r) ==
    [NewRing(r) EXCEPT !.skbs = RxSlots(First, Cardinality(r.skbs)), !.rsps = <<>>]

(* Step 2 of the recovery: the buffers move to the first slots.            *)
RequeueRxBufs(r) ==
    LET n == Cardinality(r.skbs)
    IN  [NewRing(r) EXCEPT !.skbs = RxSlots(First, n), !.pvt = Plus(First, n), !.rsps = <<>>]

(* The rest of network_connect, under both locks.  The back end does not   *)
(* yet look at the rings.                                                  *)
NetworkConnect ==
    /\ link = "ready" /\ send = Free /\ recv = Free
    /\ link' = "attach" /\ carrier' = TRUE
    /\ LET t == ReleaseTxBufs(tx)
           r == RequeueRxBufs(rx)
       IN  \E got \in Allocations(r) :
             LET a == AllocRxBuffers(r, got)
             IN  /\ Allowed(a) /\ left' = Spend(a)
                 /\ tx' = [t EXCEPT !.rsp_event = TxEvent(t, t.rsp_prod)]
                 /\ rx' = IF a.push THEN [a.rx EXCEPT !.req_prod = a.rx.pvt] ELSE a.rx
                 /\ bug' = (bug \/ a.bug) /\ timer' = (timer \/ a.short)
    /\ stopped' = (stopped /\ ~running) /\ back' = NoBack
    /\ UNCHANGED <<send, recv, napi, disabling, running, rtnl, irq, bell>>

(* The front end is Connected, the back end attaches to the rings.         *)
BackendConnect ==
    /\ link = "attach"
    /\ link' = "connected" /\ back' = [NoBack EXCEPT !.up = TRUE]
    /\ UNCHANGED <<tx, rx, send, recv, napiVars, stackVars, carrier, irq, bell, left, bug>>

Link == Migrate \/ Resume \/ UpdateFeatures \/ NetworkConnect \/ BackendConnect

--------------------------------------------------------------------------------
(* The back end, with the macros of ring.h. *)

BackTake ==
    /\ back.up /\ back.tx = "awake" /\ back.tx_cons # tx.req_prod
    /\ tx' = [tx EXCEPT !.reqs = Tail(@), !.taken = @ \cup {Head(tx.reqs)}]
    /\ back' = [back EXCEPT !.tx_cons = Plus(@, Head(tx.reqs).slots)]
    /\ UNCHANGED <<rx, send, recv, napiVars, stackVars, linkVars, irq, bell, left, bug>>

(* Requests are answered in any order; the GSO slot is answered with       *)
(* XEN_NETIF_RSP_NULL.                                                     *)
BackAnswer ==
    /\ back.up /\ back.tx_old = NoPush
    /\ \E e \in tx.taken :
         tx' = [tx EXCEPT !.taken = @ \ {e}, !.rsps = Append(@, e.id),
                          !.rsp_prod = Plus(@, e.slots)]
    /\ back' = [back EXCEPT !.tx_old = tx.rsp_prod]
    /\ UNCHANGED <<rx, send, recv, napiVars, stackVars, linkVars, irq, bell, left, bug>>

BackNotifyTx ==
    /\ back.tx_old # NoPush
    /\ irq' = (irq \/ CheckNotify(tx.rsp_prod, tx.rsp_event, back.tx_old))
    /\ back' = [back EXCEPT !.tx_old = NoPush]
    /\ UNCHANGED <<tx, rx, send, recv, napiVars, stackVars, linkVars, bell, left, bug>>

BackSleepTx ==
    /\ back.up /\ back.tx = "awake" /\ back.tx_cons = tx.req_prod
    /\ tx' = [tx EXCEPT !.req_event = Plus(back.tx_cons, 1)]
    /\ back' = [back EXCEPT !.tx = "recheck"]
    /\ UNCHANGED <<rx, send, recv, napiVars, stackVars, linkVars, irq, bell, left, bug>>

BackRecheckTx ==
    /\ back.tx = "recheck"
    /\ back' = [back EXCEPT !.tx = IF back.tx_cons # tx.req_prod THEN "awake" ELSE "asleep"]
    /\ UNCHANGED <<tx, rx, send, recv, napiVars, stackVars, linkVars, irq, bell, left, bug>>

(* A packet is put in the next slots of the receive ring.  The back end    *)
(* wants room for the largest before it begins.                            *)
Room == Minus(rx.req_prod, back.rx_cons)

BackDeliver ==
    /\ back.up /\ back.rx = "awake" /\ back.rx_old = NoPush
    /\ left.arrivals > 0 /\ Room >= MaxSlots
    /\ left' = [left EXCEPT !.arrivals = @ - 1]
    /\ \E m \in Messages :
         /\ rx' = [rx EXCEPT !.rsps = Append(@, m), !.rsp_prod = Plus(@, Slots(m))]
         /\ back' = [back EXCEPT !.rx_old = rx.rsp_prod, !.rx_cons = Plus(@, Slots(m))]
    /\ UNCHANGED <<tx, send, recv, napiVars, stackVars, linkVars, irq, bell, bug>>

BackNotifyRx ==
    /\ back.rx_old # NoPush
    /\ irq' = (irq \/ CheckNotify(rx.rsp_prod, rx.rsp_event, back.rx_old))
    /\ back' = [back EXCEPT !.rx_old = NoPush]
    /\ UNCHANGED <<tx, rx, send, recv, napiVars, stackVars, linkVars, bell, left, bug>>

BackSleepRx ==
    /\ back.up /\ back.rx = "awake" /\ Room < MaxSlots
    /\ rx' = [rx EXCEPT !.req_event = Plus(back.rx_cons, MaxSlots)]
    /\ back' = [back EXCEPT !.rx = "recheck"]
    /\ UNCHANGED <<tx, send, recv, napiVars, stackVars, linkVars, irq, bell, left, bug>>

BackRecheckRx ==
    /\ back.rx = "recheck"
    /\ back' = [back EXCEPT !.rx = IF Room >= MaxSlots THEN "awake" ELSE "asleep"]
    /\ UNCHANGED <<tx, rx, send, recv, napiVars, stackVars, linkVars, irq, bell, left, bug>>

BackWake ==
    /\ bell /\ back.up /\ back.tx # "recheck" /\ back.rx # "recheck"
    /\ bell' = FALSE /\ back' = [back EXCEPT !.tx = "awake", !.rx = "awake"]
    /\ UNCHANGED <<tx, rx, send, recv, napiVars, stackVars, linkVars, irq, left, bug>>

Backend ==
    \/ BackTake \/ BackAnswer \/ BackNotifyTx \/ BackSleepTx \/ BackRecheckTx
    \/ BackDeliver \/ BackNotifyRx \/ BackSleepRx \/ BackRecheckRx \/ BackWake

Next == ~bug /\ (Transmit \/ Receive \/ Stack \/ Link \/ Backend)

Spec == Init /\ [][Next]_vars

--------------------------------------------------------------------------------
(* Every variable has its type. *)
TypeOK ==
    /\ {tx.pvt, tx.cons, tx.req_prod, tx.req_event, tx.rsp_prod, tx.rsp_event} \subseteq Index
    /\ {rx.pvt, rx.cons, rx.req_prod, rx.req_event, rx.rsp_prod, rx.rsp_event} \subseteq Index
    /\ rx.skbs \subseteq 0..RingSize - 1 /\ rx.target \in MinTarget..MaxTarget
    /\ send.at \in {"free", "push", "notify", "gc", "event", "recheck"}
    /\ recv.at \in {"free", "push", "notify", "final", "event", "check", "complete"}
    /\ napi \in {"off", "idle", "sched"} /\ rtnl \in {"free", "open", "close"}
    /\ {disabling, timer, running, stopped, carrier, irq, bell, bug} \subseteq BOOLEAN
    /\ link \in {"connected", "lost", "resumed", "ready", "attach"}
    /\ {back.tx, back.rx} \subseteq {"awake", "recheck", "asleep"}

(* No BUG_ON fails: an id and a grant are there for every slot the queue   *)
(* lets through, and a buffer never meets another one in its slot.         *)
NoBug == TypeOK /\ ~bug

(* Every transmit id is free, on the ring, at the back end or answered,    *)
(* once; with each id that is free there is a grant.  The receive buffers  *)
(* are those of the slots in use, one after the other, each with a grant.  *)
SlotsExact ==
    LET reqs == [i \in 1..Len(tx.reqs) |-> tx.reqs[i].id]
        ids == tx.free \o reqs \o tx.rsps \o SetToSeq({e.id : e \in tx.taken})
    IN  /\ ToSet(ids) = Ids /\ Len(ids) = RingSize
        /\ tx.grefs = Len(tx.free) /\ Outstanding(tx) <= RingSize
        /\ rx.skbs = RxSlots(rx.cons, Outstanding(rx))
        /\ rx.grefs + Outstanding(rx) = RingSize
        /\ rx.batch + Outstanding(rx) <= RingSize

Served == carrier /\ link = "connected"

(* The stack's queue stays stopped only while an answer is still to come   *)
(* from a back end that is awake or about to be woken, or while the driver *)
(* is about to look: no wake-up of the queue is lost.                      *)
TxNotStuck ==
    Served /\ running /\ stopped /\ rtnl = "free" /\ send = Free /\ ~irq /\ back.tx_old = NoPush
    => \/ tx.taken # {}
       \/ tx.reqs # <<>> /\ (back.tx # "asleep" \/ bell)

(* Packets that have arrived are polled: the device is scheduled, or the   *)
(* driver is about to look, or an event is under way.                      *)
RxNotStuck ==
    Served /\ running /\ rtnl = "free" /\ Unconsumed(rx) /\ napi = "idle"
    => irq \/ back.rx_old # NoPush \/ send.by = "irq"

(* The back end waits for buffers only while the driver is about to post   *)
(* some: it has packets to poll, is in the middle of posting, or will try  *)
(* to allocate again.                                                      *)
RxFed ==
    Served /\ running /\ rtnl = "free" /\ back.rx = "asleep" /\ ~bell
    => timer \/ Unconsumed(rx) \/ napi = "sched" \/ recv # Free

(* Neither side waits for the other on the receive ring. *)
RxAlive == RxNotStuck /\ RxFed

(* Both rings, in both directions, keep the promise of Ring.               *)
Listening == carrier /\ link \in {"attach", "connected"}
TxRequests == INSTANCE Ring WITH
    prod <- tx.req_prod, cons <- back.tx_cons, event <- tx.req_event, bell <- bell,
    push <- send.at = "notify",
    old <- IF send.at = "notify" THEN send.old ELSE tx.req_prod,
    poll <- IF back.up THEN back.tx ELSE "down"
RxRequests == INSTANCE Ring WITH
    prod <- rx.req_prod, cons <- back.rx_cons, event <- rx.req_event, bell <- bell,
    push <- recv.at = "notify",
    old <- IF recv.at = "notify" THEN recv.old ELSE rx.req_prod,
    poll <- IF back.up THEN back.rx ELSE "down"
TxResponses == INSTANCE Ring WITH
    prod <- tx.rsp_prod, cons <- tx.cons, event <- tx.rsp_event, bell <- irq,
    push <- back.tx_old # NoPush,
    old <- IF back.tx_old # NoPush THEN back.tx_old ELSE tx.rsp_prod,
    poll <- IF ~Listening THEN "down"
            ELSE CASE send.at \in {"gc", "event"} -> "awake"
                   [] send.at = "recheck" -> "recheck"
                   [] OTHER -> "asleep"
RxResponses == INSTANCE Ring WITH
    prod <- rx.rsp_prod, cons <- rx.cons, event <- rx.rsp_event,
    bell <- irq \/ send.by = "irq",
    push <- back.rx_old # NoPush,
    old <- IF back.rx_old # NoPush THEN back.rx_old ELSE rx.rsp_prod,
    poll <- IF ~Listening \/ ~running \/ recv.by = "open" THEN "down"
            ELSE CASE recv.at = "check" -> "recheck"
                   [] napi = "idle" \/ recv.at = "complete" -> "asleep"
                   [] OTHER -> "awake"
ImplementsRing ==
    /\ TxRequests!RingSpec /\ RxRequests!RingSpec
    /\ TxResponses!RingSpec /\ RxResponses!RingSpec
================================================================================
