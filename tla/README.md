# A verification of the UVP Tools guest drivers

UVP Tools runs inside a Xen guest: the Xen front-end drivers (grant tables,
event channels, the xenstore client, block, network, SCSI and balloon) and the
daemon uvp-monitor. This directory models the drivers' core in TLA+, checks
small instances with TLC and proves theorems about every instance with TLAPS.

Every definition is translated from the source, at the lines `PROJECT.json`
gives under `map`. Two trees of drivers are in the repository's main line:

- **C3** is `src/uvp-xenpv/uvp-classic_xen_driver-3.12.xto3.16.x/` (kernels that
  have no Xen support of their own; it brings `xen-platform-pci`);
- **PV** is `src/uvp-xenpv/uvp-pvops_xen_driver-2.6.32to4.0.x/` (kernels with
  their own xenbus and grant tables; it brings the drivers on top).

`src/uvp-xenpv/uvp-classic_xen_driver-2.6.32to3.0.x/` and `src/uvp-xenpv/others/`
hold variants of the same code for older kernels.

## Inventory

| Component | State it keeps | Operations | Hard behaviour | Module |
|---|---|---|---|---|
| Grant tables, C3 `xen-platform-pci/gnttab.c` | the shared entries, the free list threaded through `gnttab_list`, the drivers' private lists, queued free callbacks, the deferred list with its timer | allocate, claim, grant, end access, end transfer, release, grow, call back, defer, retry, restore | the other domain maps and unmaps at any time; allocation and request for a callback are two critical sections; the timer's handler lets go of the lock for every entry | `GrantPool`, `GrantList`, `GrantTable`, `ReleaseProofs`, `GrantListProofs` |
| Block front end, PV `xen-vbd/xen-blkfront.c` | request queue, ring, shadow with its free ids, list of grants and the count of persistent ones, connection state, the bios to submit again | queue requests, interrupt, restart, connect, resume, recover, resubmit; open, release, unplug, remove | migration with requests in flight to a host with other features; a queue stopped for want of references; responses in any order; an unplug thread, xenwatch and users of the disk that share one info | `BlkFront`, `BlkFrontProofs`, `BlkUnplug`, `ReleaseProofs` |
| Xenstore client, C3 `xenbus_xs.c`, `xenbus_dev_frontend.c`, `xenbus_comms.c` | four locks, the count of transactions, lists of watches, events and replies, each open file's transactions and watches | request and reply, transactions, watches, reader and watch threads, suspend, resume, cancel | four locks taken in order by a suspend against every user; replies that carry no name; callbacks against unregistering; watches lost with the old host | `Xenstore`, `XenstoreProofs` |
| Shutdown and suspend, C3 `reboot.c`, `machine_reboot.c` | `shutting_down`, the work item, the suspend or power-off thread | obey `control/shutdown` and the suspend event, suspend, resume, power off | two contexts and a thread that agree through compare-and-exchange alone | `Shutdown`, `ControlProofs` |
| Xenbus devices, C3 `xenbus_probe.c`, `xenbus_client.c` | devices, their cached states, the other end's path and the watch on it | reset and enumerate at boot, probe, follow the other end, remove, suspend, resume all | a state machine with two owners that see each other late; hot plug and migration against the thread that resumes | `Devices`, `DevicesProofs` |
| Shared rings, `ring.h` | producer, consumer and event indices | push and test, final check, initialisation | no lock between the two ends; indices that wrap | `RingIndex`, `Ring`, `RingProofs` |
| Balloon, C3 `balloon.c`, `sysfs.c` | current and target pages, the list of ballooned pages, a flag | set target, worker, timer, report to the host | two setters without a lock against the worker, whose report is heard as a request; partial batches | `Balloon`, `ControlProofs` |
| Network front end, C3 `netfront.c` | transmit and receive slots, ids, grants, the stack's queue, NAPI, a timer | send, reclaim, poll, refill, open, close, reconnect | stopped queue and scheduled poll against events; no memory for buffers; migration with slots in use | `NetFront`, `NetFrontProofs` |
| SCSI front end, `scsifront.c`, `xenbus.c` | shadow table, LUNs | queue, interrupt, LUN hot plug | reset against completion | planned |
| uvp-monitor | flags in xenstore, the last figures, CPU states | event loop, reports, hot plug, migration notices | order of flags against migration | planned |
| virtio drivers, event channels, xen-procfs, older block driver | | | | see `PROJECT.json` |
| Installation scripts, older kernels | | | | not modelled |

**How the components interact.** The drivers take references from the grant
table and are called back by it; `BlkFront` has that interface as two actions
(a shortage, a callback that fires) and `GrantTable` has the other side (a
client whose queue starves, asks for a callback and is restarted). `NetFront`
takes its references once, at probe, and counts them. Both drivers talk to a
back end over shared rings: `NetFront` step by step, and each of its four ring
directions is checked and proved to implement `Ring`. The drivers connect and resume
through xenbus (`Devices`), which talks through the xenstore client: `Xenstore` has the
threads that do so as `Users` and watch callbacks, `Devices` the order in which
callbacks, probes and the resuming thread find the store; the balloon's watch is one of
them, and `Balloon` keeps from xenstore the key and the events not yet heard.
`Shutdown` runs the suspend: its steps `Freeze` and `Thaw` stand for
`xenbus_suspend` and `xenbus_resume`, of which `Xenstore` has the xenstore part
(`xs_suspend`, `xs_resume`), `Devices` the walk along the bus (`Suspend`, `ResumeNext`
and what follows), and `BlkFront`, `BlkUnplug` and `NetFront` the drivers'
parts (`Resume`, `Migrate`, `Resume`).

## Modules

### Grant tables

`GrantPool` is the abstract specification of the allocator: sets of references
and who has them. `GrantList` has the code's links (`gnttab_list`,
`gnttab_free_head`, private heads) and implements `GrantPool`: the instance
`Pool` maps a head to the set of the references that follow it, and
`ImplementsPool` is checked as a property and proved. `GrantTable` extends `GrantPool` by
everything else: entries and their flags, callbacks, deferred freeing.

| Module | Code |
|---|---|
| `Alloc`, `AllocFails`, `RequestFreeCallback`, `KickQueue`, `RestartQueue`, `CancelFreeCallback` | `get_free_entries`, `gnttab_request_free_callback`, `do_free_callbacks`, and how a driver uses them |
| `GrantForeignAccess(Ref)`, `GrantForeignTransferRef`, `EndForeignAccess`, `EndAccessAndRelease`, `EndForeignTransfer` | the functions of the same names; `ending[c]` is what is left to do once the entry's compare-and-swap is done |
| `AddDeferred`, `LeakDeferred`, `TimerFires`, `HandlerFrees`, `HandlerPutsBack` | `gnttab_add_deferred`, `gnttab_handle_deferred` with its locals in `handler` |
| `RemoteMap` ... `RemoteComplete` | the hypervisor and the other domain (external) |
| `Restore` | `gnttab_resume`, which maps the frames and leaves the lists alone |

A critical section of `gnttab_list_lock` is a step, and so is each
compare-and-swap on an entry. After `fault` (the handler takes an entry from an
empty list) nothing more happens: the code then works on memory that is not an
entry.

### Block front end

`BlkFront` has the device from connection to any number of migrations. A bio
is a model value with a number of pages; a request is a bio with a number of
its pages; a grant has a reference and the page it stands for. A critical
section of `blkif_io_lock` is a step; the xenwatch thread's steps are told apart
by `pc`. `Resume` is `blkfront_resume` with the first half of `blkif_free`;
`TalkToBlkback`, `Recover`, `Reconnect` and `Resubmit` are the rest up to
the bios going back to the queue. `ResumeInPlace` is a migration that was
cancelled. What the request function and
the interrupt change in one section is the record `Driver`, which goes from
step to step (`Place`, `TakeFrame`, `GetGrant`, `ReturnGrant`, `Complete`) and is stored by `SetDriver`.

A request of more than `Direct` (`BLKIF_MAX_SEGMENTS_PER_REQUEST`, 11) segments is an indirect one: it takes
one more grant, for the frame its segments are listed in (`Frames`, `INDIRECT_GREFS`), and, unless pages are
copied, a page of `indirect_pages` for it. That grant is claimed first and kept behind those of the pages in
`shadow[id].used`. A host's `segs` is the limit in force: `Direct` for one that offers no indirect requests or
too small ones (2093), else what it offers. One frame is enough for any limit: the driver takes at most 256
segments (the module's parameter `max`, 107) and a frame lists 512 (192). The limit is read again by `blkif_recover`, maybe before the
new back end has written it (1553), and is then `Direct` (`Offered`): bios that were in flight are split, and
requests of either kind follow one another on the ring. A bio is submitted within the limit of the moment; one
that a file system has built for the old limit and submits after it was lowered is left out. The back end answers in any order,
keeps the grants of a request mapped or not if it knows persistent grants, and lets go of what it kept at any time, before or after
`blkif_completion` has asked (`BackendLetsGo`).

`bug` stands for these `BUG_ON`s: no id free (207), no grant (272), no reference left of those reserved (285),
more segments than the limit (460, 462), no page for a frame (506), a disk made twice (818, 819), persistent grants
counted wrong at a suspend (998) or a new start (1018), pages for frames where pages are copied (1034) or left over
(2161), no memory to split a bio (1893, 1901; only with `MemoryLasts = FALSE`). Not in the model are those about what
it leaves out: page frame number 0 (287), flushes (474), a segment that crosses a page (530, 1192), the
operation in a response (1330), no memory for the first grants (261) and minor numbers (339); and two that cannot
fail, of a list that is never filled (1878) and of a condition tested just before (2150).

`BlkUnplug` leaves the ring aside and follows the memory: the driver's `info`, who
leads to it (`drvdata` of the device, `private_data` of the disk, a thread), the disk
`gd`, the device. Xenwatch's calls are one after the other (`Xenwatch`); `Open`, the
steps of `blkif_release` and the last parts of `blkfront_remove` and
`blkfront_closing` exclude each other as `bd_mutex` makes them; `blkfront_closing` runs in
threads of its own, one step per access to what others change. A step states
what it dereferences (`Uses`), and using something that is gone sets `bug`. The gendisk is one of these
things: `blkfront_remove` holds a `block_device`, which holds no reference to it, so it is there only as long as the
driver or a process has it (`DiskThere`). `info->users` is counted by the driver, `openers` (`bd_openers`) by
the block layer. What the host and the guest's processes may do beyond an orderly
unplug is part of the environment, `May(...)`.

`Migrate` is a migration with `blkfront_resume`, whatever the back end of the old host was doing: an unplug thread
that waits for users (or has been started and has done nothing yet) goes on waiting and then looks at the new back end. `ResumeInPlace` is the
early return of `blkfront_resume` (1972), taken when the old back end still has the ring. Either way the watch on the
back end is new and fires once. Three things are kept simple. The resume of this device is one step: the threads run
before and after it. A thread that looks at the back end's state (2036) finds that of the device as it is, never
a path that has ceased to exist between the restore and `resume_dev`'s new look at it. And no resume in place falls
between the front end's Closed and the back end's.

`blkfront_closing` waits for `users` to go and refuses a disk in use, but never
switches the device to Closing. The branch of `blkif_release` for a device that
is Closing ("We will have deferred this request") therefore runs only after
`xenbus_dev_fatal` has made that switch.

### Xenstore client

`Xenstore` has kernel threads, processes with `/proc/xen/xenbus` open and the
xenwatch thread as users, each with one request at a time. The four locks are
variables; `watch_mutex` is an rwsem whose waiting writer stops new readers. The
spin locks and `xenwatch_mutex` (except while a callback runs) are held within
one step. `Send` takes `request_mutex` and puts a request on the wire; it is
held until `GetReply`. `Finish` is what the callers of `xs_talkv` and of
`xenbus_dev_request_and_reply` do with the answer: the list of watches, the
count of transactions, the file's list of holders. The suspend takes one lock
per step; `Resume` has the new host forget every watch.

The comment at C3 `xenbus_xs.c:94` says `response_mutex` is never taken with the
other three; `xs_suspend` (lines 812 to 815) does take all four, in an order that
agrees with every other path, so the model has that order.

### Xenbus devices

`Devices` has each device twice: `store[n]` is the pair of directories, with the
states of both ends, the ring whose keys are written and the one the back end has
mapped; `dev[n]` is `struct xenbus_device`, with where it is in its life (`on`), the
cached state, the other end's path and the watch on it. `gen` tells a directory from one made anew in
its place. A step makes one request to xenstore; a transaction is one.

| Steps | Code |
|---|---|
| `CheckFrontend`, `ResetWrite`, `ResetWait`, `ProbeDevices`, `WatchFrontends` | `xenbus_probe` with `xenbus_reset_state`: `boot` is how far it is |
| `DevChanged`, `ProbeNode`, `ProbeDetails`, `ProbeBind`, `ProbeRefuses`, `ProbeFails` | `frontend_changed` to `xenbus_dev_probe`; `RegisterDriver` goes along the bus the same way |
| `DevRemove`, `DevRemoveClosed` | `xenbus_cleanup_devices`, `xenbus_dev_remove`, `netfront_remove` |
| `OtherendChanged`, `Connect`, `ConnectFails`, `Connected`, `FrontendClosed` | `otherend_changed`, `backend_changed`, `network_connect` |
| `Suspend`, `SuspendCancel`, `Rewatch`, `ResumeNext` to `ResumeWatch` | `xenbus_suspend`, `xenbus_suspend_cancel`, `xenbus_resume` with `resume_dev`: `sus` is how far it is |

`xw` is whoever holds `xenwatch_mutex`, with what it is about to do to which device.
The suspending thread does not hold it, but waits for it in `unregister_xenbus_watch`
(`ResumeWait`), between taking the watch from the list and the device forgetting it
(`"going"`). `netfront_suspend` and `netfront_suspend_cancel` do nothing without an accelerator. `xenwatch`'s
events name a directory (`device`), a key in it (`key`) or a back end's state (`otherend`). Back ends and the
host's tools are external; what the tools may do is part of the environment, `May(...)`.

### Shutdown and suspend

`Shutdown` has the callback of `control/shutdown` with its transaction, the two
contexts of `switch_shutdown_state` step by step (`old`, `new`, the
compare-and-exchange), the work item, and one thread per `Tids`: a power-off
(`Process`, `Leave`) or a suspend (`Pin`, `Freeze`, `Hypercall`, `Thaw`,
`Exchange`). The interrupt comes at any time but during the hypercall, where
interrupts are off. The number of writes, of events and of threads that cannot
be created is bounded.

### Shared rings

`RingIndex` is the arithmetic: `Plus` and `Minus` wrap at `Wrap`, a ring begins at `First`, and `CheckNotify` is the
test of `RING_PUSH_..._AND_CHECK_NOTIFY`. `Ring` is the abstract specification of
one direction of a ring. Each access to a shared index is a step: `Push` publishes,
`Notify` looks at the event; `SetEvent` asks for an event, `Recheck` is the last look
before the consumer sleeps. `Down`, `Up` and `Reset` are a consumer that does not serve
the ring, and a new ring in its place.

### Network front end

`NetFront` has the two rings as records (`tx`, `rx`: the shared indices, the private
ones, and who has the ids, grants and buffers) and two program counters, `send`
and `recv`, of whoever holds `tx_lock` and `rx_lock`. What a holder does to the
driver's own data is one step with the access that leads to it; every access to
a shared index is a step of its own. `napi` is NAPI's state, `disabling` the wait of
`napi_disable`, `rtnl` the holder of `rtnl_lock`. A packet that arrives is a record of its
slots with data, with extra information and refused ones. `Resume`, `UpdateFeatures` and
`NetworkConnect` are the reconnection; the back end, in its upstream shape, has one step per
access (external).

`TxRequests`, `TxResponses`, `RxRequests` and `RxResponses` map it to `Ring`: the transmit
side's consumer of responses sleeps whenever nobody holds `tx_lock` to reclaim, the
receive side's when NAPI is idle or about to be.

### Balloon

`Balloon` is the driver as the module for a fully virtualised guest is built. The
watch and a process run `balloon_set_new_target` as `SetFloor`, `SetTarget`, `SetFlag` and
`Schedule`; the worker is `WorkStart` to `WorkWrite`, with the change of the list
(`Grow`, `Shrink`) and that of `current_pages` (`Account`) apart, since `current_target`
looks without the lock. `build` says whether the retry timer was compiled in
(`OPENSUSE_1302`). `by` only serves the property.

## Runs

| Run | Instance | What it shows |
|---|---|---|
| `grant_list` | 2 clients, 2 frames of 3, 2 reserved, requests up to 3 | every operation on the links keeps the lists finite and moves exactly the references `GrantPool` says, across growth |
| `grant_table` | 2 clients, 1 frame of 2, batch 2 | references and pages against the back end's maps (`NothingReachable`), nothing lost or owned twice (`RefsConserved`), callbacks and timer (`WakeupsComing`) |
| `grant_live` | 1 client, 2 frames of 1, batch 1 | a deferred reference the back end lets go of leaves the list, and growth |
| `blkfront` | 3 bios of 1 or 2 segments, indirect beyond 1, ring of 2, hosts with and without persistent grants, 2 migrations, 1 shortage | nothing lost or answered twice and ids balanced (`RequestsConserved`), grants, pages, no `BUG_ON`, no stuck queue |
| `blkfront_live` | 2 bios, ring of 2, 2 migrations, 1 shortage | every bio is answered |
| `blk_unplug` | 2 unplug threads, up to 3 openers, 3 unplugs and 2 migrations or resumes in place, every orderly environment | nothing that is gone (info, device, disk) is used or can be reached, also when a migration finds unplug threads waiting; no disk goes while it is open, nothing is left behind |
| `net_front` | rings of 4, indices that wrap, up to 4 packets out or 3 in, 1 migration, 1 shortage, 1 close | no `BUG_ON`, slots exact, queue and poll never stuck, `Ring` implemented four times |
| `balloon` | 4 pages, minimum 2, batch 2, requests of 1, 3 and 5 | pages conserved, the minimum kept, the target reached |
| `xenstore` | a kernel thread, a file with a watch, xenwatch, 2 suspends, 1 change | the count, the quiet state at a save, replies, watches over a resume, callbacks |
| `xenstore_live` | a file, xenwatch, 1 suspend | a suspend that began ends |
| `devices` | 2 directories, one driver, 3 events waiting; new, connected or closed at boot; 1 unplug, up to 2 migrations, 1 failure, 1 device made anew, deletions with and without notice | no watch twice, none missing, no other end's change missed, no directory brought back, both ends agree in the end |
| `shutdown` | 2 threads, 2 requests, 2 events, 1 failed thread | no `BUG_ON`, one agent per state, a power-off is not overwritten, the guest can be asked again |

**Bounds, and why they do.** Two drivers and two references are enough for every
pair of hands a reference can pass between, including a reference that comes
back between one driver's failure and its request for a callback; a batch of
two is passed over and put back. A ring of two slots with three bios has a full
ring, a queue behind it and ids used again; with `Direct = 1` a bio of two segments is an indirect request of three
grants, which is split into two direct ones where the limit is read too early; two
migrations bring the second recovery upon the first one's leftovers. A back end that lets go of grants one by one instead of
all it kept was explored once (4.0 million states), with no other result. Two unplug
threads are a second request while the first waits; a third opener comes while one
releases and one is waited for; the first migration finds either of them waiting, the second one what they did then. Four slots of a network ring fill, leave a packet waiting and have the
event half way; three packets and the buffers re-posted for them go round the
ring, and after a migration start again. The indices begin at 8 and
wrap at 16, so that packets in either direction cross the wrap; in the code a ring begins at
0 (`First`) and wraps after 2^32 entries, and `RingProofs` has the arithmetic for every width and start. Traffic is one way at a time in most environments
(`MCLoads`), as the two rings share only the event, which one environment covers. Requests of 1, 3 and 5 pages are
below the minimum, within and beyond the guest's size, and a batch of two of four pages
leaves partial batches in both directions. Two devices are one that resumes or fails and one
before or after it on the bus; five environments (`MCCases`) combine two or three of unplug, new
device, sudden deletion, failure, two migrations and what a former kernel left; three waiting events are a device's
directory, a key and its other end. Two
suspends of xenstore are, among others, one migration and one cancel, in either order; the
same client was explored once with two watches, one owned by a callback (10.6
million states), with no other result. `CHECK_DEADLOCK FALSE` stands where the
guest may come to rest: all bounded requests made and answered, or after a
failed `BUG_ON`.

**What the passing runs assume.**

- `blkfront`: `Patient` (no migration before the disk is connected again),
  `Uniform` (hosts offer the same) and `MemoryLasts` (`blkif_recover` gets the memory to split bios).
- `blk_unplug`: `Orderly`, in the module. No removal is forced upon a working unplug thread (`"force"`); no process
  closes the disk while `blkfront_remove` is between looking it up and its lock (`"cross"`); a migration comes
  when the one before it is over, the disk is not gone for an unplug, and no thread
  is past its look at the back end's state (`"hasty"`; it may be started or waiting, or have been told of the unplug). Where
  the device is removed without having been closed, or its resume refused, one process uses the disk;
  where the disk may be found in the moment of its removal, nobody unplugs and no resume is refused; where
  the first connection may fail, there is no migration and no removal without a close. `MCCases` is every
  orderly case within the bounds.
- `net_front`: `OneCpu` (the event channel's interrupt, the timer that refills the receive ring and NAPI's poll
  on one CPU, which is where `local_irq_save` in `netif_poll` works, and where a softirq waits for
  the one that runs), a close only in an environment without transmits or migrations.
- `balloon`: the premiss `TargetLeftAlone` of `Reached`.
- `xenstore`: transactions are refused (`Refused`) and waits interrupted
  (`Signalled`) for kernel threads that own no watch only, and nobody
  changes a watch inside a transaction (`MixWatches = FALSE`).
- `devices`: a host in good order, as listed in the module at `Cases`: it makes a
  device anew only after the guest has removed the old one, deletes none that is just being
  connected, changes none in the moment between enumeration and watch or while
  the guest resumes (but for the last device, which may be gone), answers the boot's reset in time, and migrates
  a guest whose xenwatch is between two devices, with new paths for devices that are not connected.
- `shutdown`: none beyond the bounds.

The next section says what happens without each of these.

**Fairness.** `GrantTable`: timers expire and their handler goes on, scheduled
work runs, an operation that was begun goes on; the back end owes nothing. `BlkFront`: the block
layer runs a queue that is not stopped, interrupts, work and the xenwatch
thread run, the grant table gets references back, and the back end serves (it need not let go of anything).
`Balloon`: the watch's thread, a process within the call, the worker and the
timer go on; nobody is made to ask, and Xen refuses a bounded number of times.
`Xenstore`: strong fairness where a thread waits for a lock, since mutexes and
the rwsem queue their waiters, and for the end of transactions and
callbacks, which their owners reach; xenstored answers; nothing makes a suspend
begin. `Shutdown`: weak fairness of the handler, the switchers, the work and
each thread. `Devices`: weak fairness of the boot, of who holds `xenwatch_mutex`, of the thread
that resumes and of each back end (a module is loaded some time); nothing makes the tools or a suspend act. `NetFront` states no fairness: `TxNotStuck` and `RxAlive` say of every state
that whoever waits is about to be woken.

## Where the code departs from what one would expect

These are found by changing an instance. Where a configuration is
named it is in this directory, and TLC ends it with a counterexample. For `Devices` the
case named is an operator of `MCDevices`, to be given to `Cases` in `MCDevices.cfg`.

| Instance | What fails |
|---|---|
| `MCGrantTableFault.cfg` with `MCGrantTable` | `HandlerFindsEntry`: `gnttab_add_deferred` arms the timer (`gnttab.c:281`) while the handler has the lock released; the handler frees that entry in the same run, and the timer then finds an empty list, whose head it takes for an entry (229). The test that would prevent it (258) is made only before the next turn of the loop |
| `MCBlkFrontAgain.cfg` with `MCBlkFront` | `NoBug`: a second migration of a device still suspended frees it as if it were given up (`xen-blkfront.c:1982`), with stale references, and `BUG_ON(persistent_gnts_c != 0)` fails (1018) |
| `MCBlkFrontMixed.cfg` with `MCBlkFront` | `OwnPages`: `feature_persistent` is the old host's when the grants are set up for the new one (2316) |
| `MCXenstoreRefused.cfg` with `MCXenstore` | `CountExact`: a refused transaction of a process is counted down twice (`xenbus_dev_frontend.c:331`) |
| `MCNetFrontReopen.cfg` with `MCNetFront` | `NoBug`: `network_open` starts the queue (`netfront.c:760`) with transmits of before the close unanswered; a packet then finds no grant (1150) |
| `MCNetFrontWrap.cfg` with `MCNetFront` | `RxFed`: `req_prod > sring->req_prod` (886) is not modular. Where a batch is not worth posting and the slots moved (`xennet_move_rx_slot`) lie past the wrap, they are not published; with only such slots on the ring the back end has no buffer and nobody posts one. It takes as many refused slots in a row as the ring is filled to, at the one wrap in 2^32 |
| `NetFront` with `OneCpu = FALSE` | `RxNotStuck`: the interrupt sees NAPI still scheduled after the final check of `netif_poll` (1667) and before `__napi_complete`, and the packet waits for the next event. `RxFed`: `rx_refill_timeout` (826) on another CPU finds NAPI scheduled during a poll that is past its refill, schedules nothing, and the timer is not armed again |
| `NetFront` with a close and a migration in one environment | the close holds `rtnl_lock` and waits in `napi_disable` for a poll that, with the carrier off, returns without completing (1530); `network_connect`, which would set the carrier, waits for `rtnl_lock` (1987) |
| `MCBlkFront.cfg` with `MemoryLasts = FALSE` | `NoBug`: a bio in flight is split after a migration and `kzalloc` or `bio_clone` fails (1893, 1901), with `GFP_NOIO` and before the disk can write anything out |
| `BlkUnplug`, a case with `"cross"` and `"sudden"`, one opener | `NothingStale`: `blkfront_remove` takes a `block_device` of the disk and clears `info->xbdev` (2398 to 2403); the process closes the disk, `blkif_release` finds `xbdev` gone and drops the last reference to the gendisk (945); remove then reads `disk->private_data` (2419) |
| `BlkUnplug`, a case with `"hasty"`, an unplug and a migration | `NothingStale`: the unplug has taken the disk, and the host migrates before the device is removed; the resumed device is "suspended" without a disk, and the recovery works on `info->rq` (1822). Or the thread has seen Closing (2036), waits for a lock while the guest migrates and takes the disk of a device that is being connected again; the event Connected then finds no `info->gd` (2255) |
| `BlkUnplug`, a case with `"hasty"` and two migrations | `NothingStale`: the second comes before the recovery and leaves the device disconnected with its disk, and the next connection meets `BUG_ON(info->gd != NULL)` (818); as with `Patient` in `BlkFront` |
| `BlkUnplug`, a case with `"sudden"` and two openers | `NothingLeaks`: the first release clears `private_data` with `users` above zero, the last returns early and `info` is never freed |
| `BlkUnplug`, a case with `"refuse"`, two openers and a migration | `ClosedUnused`: the refused resume leaves the device Closing with the disk open, and the first release takes the disk down under the other process |
| `BlkUnplug`, a case with `"force"`, or `"late"` and an unplug, or `"late"`, `"refuse"` and `"sudden"` | `NothingStale`: the thread's `info` or device is gone, or a process that found the disk before opens it after it was taken down |
| `BlkUnplug`, `"fail"` with a migration, or with `"sudden"` | `NothingStale`: `info` is freed (`xen-blkfront.c:2372`) with the disk still pointing to it, or with the device still there to be removed |
| `Devices`, `Replug` | `NoneMissed`: a device deleted and made anew before its event is handled is taken for the old one (`xenbus_probe.c:780`), closed or with a ring the new back end knows nothing of |
| `Devices`, `Late` | `DirRespected`: the transaction of `talk_to_backend` (`netfront.c:468` to `548`) brings back the directory of a device that has just been deleted, which `__xenbus_switch_state` is careful not to do |
| `Devices`, `Unseen` | `Settles`: a device that comes between `xenbus_probe_devices` and `register_xenbus_watch` (`xenbus_probe.c:1097`, 1098) is not noticed, as the watch's first event names no device |
| `Devices`, `Slow` | `Settles`: the reset gives up after five seconds and walks on (978); a back end that looks only then finds Initialising while it still has the ring of the kernel before, and the device is never connected |
| `Devices`, `Absent` | `NoneMissed`: `resume_dev` fails for one device and `bus_for_each_dev` ends (918); the devices after it are never resumed |
| `Devices`, `Anytime` | `NoBug`: a migration while xenwatch is at a device; removal meets `resume_dev` inside `unregister_xenbus_watch` and takes the watch back twice (`BUG_ON`, `xenbus_xs.c:778`), or what was under way before is written to the new host's directory |
| `Devices`, `SamePath` | `NoneMissed`: with the new back end at the old path, xenwatch connects a device that was waiting, before `resume_dev` resets it and drops the ring; the store says Connected, the driver Initialising |
| `Balloon`, `Reached` without its premiss | the worker writes its size into `memory/target`, hears it as a request, sets a new target and finds it has something to report again, for ever |
| `Xenstore` with a file in `Signalled` | `CountExact`, `SuspendEnds`: a START whose `xb_write` is interrupted keeps its count (`xenbus_xs.c:270` to `280` gives it back for an `XS_ERROR` reply only) |
| `Xenstore` with a watch's owner in `Signalled` | `NoCallbackAfterUnregister`: an interrupted unwatch leaves xenstored's watch behind; registering again answers EEXIST, and `register_xenbus_watch` takes the watch off its list (`xenbus_xs.c:751`) with an event queued |
| `Xenstore` with `MixWatches` | deadlock: a process in a transaction unregisters a watch and waits for the callback, the callback for a transaction, the suspend for the first transaction's end |

Two things about the balloon hold in its passing run and may surprise. What
`Reached` promises is the last value of the key: the worker's report overwrites a
request the host has just made, and that request is then never obeyed. And only a build
with `OPENSUSE_1302` tries again by timer ("Schedule more work if there is some
still to be done"); the others rely on hearing their own report, which makes the
size reached the new target.

## Proofs

The theorems of `ReleaseProofs` (the grant table, and the unplug of a disk: what is let go of once,
after its last user), `GrantListProofs`, `BlkFrontProofs`, `RingProofs`, `NetFrontProofs`, `DevicesProofs`,
`XenstoreProofs` and `ControlProofs` (shutdown and balloon, the two the host controls through a key) hold
for every value of the constants that meets the modules' named assumptions.

**`ReleaseProofs`, grant table.** `TypeCorrect`: `TableTypeOK` is not inductive, since a
running handler must have an entry and an unfinished end of access a reference;
`TypeInv` adds both. The lemmas on `FreeFor`, `CountFor` and `FramesFor` show that
growing by one frame is enough for any request the drivers make
(`MaxRequest <= FrameEntries`). `WakeupsKept` (`NoLostWakeup`) and
`CallbacksPrompt` (`CallbacksUnmet`) go action by action over what
`DoFreeCallbacks` keeps: whoever is not met stays queued, whoever is met is in
`restart`. `DeferredNeverStranded` (`DeferredHasTimer`) follows the handler's
four ways out of a turn. `WakeupsCome` is the three together, the property of the run.

Its second half is about owners. `NothingLost` and `NothingTwice` are set equations over
seven kinds of owner; the invariant says the same one reference at a time:
`OneHand`, a reference is in a hand exactly if its frame is mapped, and in one only.
It is inductive with two facts about places that are empty (no entry in the hand of
a handler that does not run, no reference in an end of access that is not under
way) and with the deferred list having each reference once. Every action is shown
to hand the references it moves to one new hand each and to leave the others
(`Moved`, `Reassign`); `Taken` splits an allocation into the frame the table may
grow by and what leaves the list, and `Turn` a turn of the handler into the
entry it takes and the list it leaves. `RefsKept` is the property of the run. `CountKept`
follows with cardinalities: what is put back was not on the list, and a new frame
is disjoint from it. For `OutOfReach` (`NothingReachable`) `ReachInv` adds the
entries that come onto a list later: those of frames not mapped yet, and a
reference between the end of its access and its return.

**`GrantListProofs`.** `ListsEnd` and the mapping of `ImplementsPool` are recursions over links, which the
provers cannot follow. The invariant says instead that sequences of references exist which the links spell
out: `Chain(list, head, s)`. `ListInv` has one for the free list and one for each client
(`Chained`), and `Apart`: no reference is on two of them, or on one and claimed, or outside the frames
mapped so far. What an operation does to links is one of four lemmas on chains: `ChainPush`, `ChainPop`,
`ChainCut`, `ChainJoin`, with `ChainElsewhere` for the lists it does not touch; that two lists have no reference in
common is what makes the last one apply. `Grow` is a join of the new frame and the old list. `ListInChain`
comes back from a sequence to `Node` and `ListFrom` by induction (`UpTo`). Each operation is then shown to keep
`ListInv` and to be the operation of `GrantPool` that has its name (`AllocStep` ... `FreeStep`), which gives
`ListsTerminate` (`ListsEnd`) and the refinement `PoolImplemented` (`ImplementsPool`).

**`BlkFrontProofs`.** For any ring size, bios, hosts, limits of segments and number of migrations. The theorems assume what
the run assumes, and the code fails without it (`MCBlkFrontAgain.cfg`, `MCBlkFrontMixed.cfg`):
`Patient`, no migration before the disk is connected again, for `RequestsAreConserved`
(`RequestsConserved`), `GrantsAreAccounted` (`GrantsAccounted`) and the types; `Uniform` as well, hosts that
offer the same, for `PagesAreOwn` (`OwnPages`), `NoBugReached` (`NoBug`) and `QueueIsRestarted` (`QueueNotStuck`);
and for `NoBugReached` `MemoryLasts`, without which it fails where a bio is split.
The inductive invariant `Inv` has a part for each phase: `Fresh` before the first connection; `Connected`,
where `DriverOk` holds of `Driver`; and `Suspended`, which says what the shadows and the list still hold between
`blkfront_resume` and the end of `blkif_recover`. The pages and pieces of bios (`BiosOk`) are kept in all of them.
`DriverOk` has three parts: `IdsOk`, the free ids are those not in flight, and each in flight is in one
place; `HeldOnce` and `CountOk`, each reference is held by one grant, the count is the length of
the list's part with references, and the number of references granted is that count and the grants in use; and, with
`Uniform`, `UniformOk`: the grants of the list and those in use are as many as a full ring of the largest
requests takes. The numbers are the strengthening that `GrantsAccounted` and `NoBug` need: they say that a
reference is left to be granted, and that the list never runs empty. A request has a grant for each page and one for its
frame (`Full`, `Need`), so the grants in use are a sum over the shadows, and so are the pages of a bio. `FramesOk` counts the pages
for frames: those in `indirect_pages` and those of the indirect requests in flight are one for each slot of the ring, so an id that is free
has its page. `PageOf` says which page each grant stands for, the frame's last; `SegsOk` that no request in flight is longer
than the host's limit and none on the queue longer than the one in force, so that `host.segs + 1` grants for each slot suffice also after recoveries with the smaller limit. `Total`
adds these sums up; the lemmas on it say what one more, one less or one changed member does to the sum. Each
small step (a request placed, a grant taken, a grant returned, a request completed) keeps `DriverOk`,
and the recursive functions that repeat them (`QueueRequest`, `QueueMany`, `ReturnGrants`, `CompleteAll`,
`FreeForSuspend`, `ListInFlight`) keep it by induction over the index: `LoopRuns` and `LoopUnique`
unfold such a function, `UpTo` is the induction. `PiecesBound` bounds the requests a bio is split into by
its pages. TLC checked `Inv` on the instance of the run before it was proved.

**`RingProofs`.** For rings of any size and indices that begin anywhere and wrap at any
width above twice that size (`RingAssumption`). `NoLostNotify` is not inductive. `RingInv` adds what the two
halves of the handshake leave for later: the consumer is never more than a ring
behind, nor is the old index of a producer between push and test (`Fits`); an event
a sleeper has set is ahead by no more than a ring (`EventAhead`); and a producer
that has reached it and not looked yet will find that it did (`WillNotify`). The arithmetic modulo `Wrap` is a few lemmas on `Plus` and `Minus`.
`RingInvariant`, `RingLosesNoNotification` and `RingNeverOverruns` follow.

**`NetFrontProofs`.** For any ring size, mix of packets, shortages and migrations. All six theorems assume
`QuietClose`, a close finds no request unanswered, since the code fails without it (`MCNetFrontReopen.cfg`); what
concerns polls assumes `OneCpu` (see above). The inductive invariant `Inv` has a part for each piece of the driver.
`TxOk`: every transmit id is in one place, once (free, on the ring, with the back end, answered), and what lies
between two indices is what the entries there weigh, one slot or two (`Weigh`). `RxOk`: the slots with buffers are those from `cons`
on, one after the other; buffers and free grants make a full ring; and the responses are packets one on top of the other
(`Stacked`), so no packet is ever seen in part. `SendOk`, `RecvOk`, `StackOk`, `QueueOk` say what each point of a lock's holder, NAPI's
state and the queue imply of the indices; `BackOk` what the back end has seen. It yields `NetReachesNoBug` (`NoBug`) and `SlotsStayExact` (`SlotsExact`).

For the two that forbid a wait of each side for the other, no argument about notifications is repeated. Each step of
`NetFront` is shown to be a step or a stutter of `Ring` in each direction (`TxRequestsFollow`, `RxRequestsFollow`,
`TxResponsesFollow`, `RxResponsesFollow`), with the events and sleeps of the code as those of the ring. That is the refinement `NetImplementsRing`
(`ImplementsRing`), and `RingProofs`, instantiated four times, carries `NoLostNotify` over. `QueueIsWoken`
(`TxNotStuck`) follows as the event for responses lies within half of what is outstanding (`SendOk`), so that a back end that has
answered everything has passed it. `PacketsArePolled` (`RxNotStuck`) needs `Alone`: no reclaim in an interrupt
while a poll is past its final check. For `ReceiveRingAlive` (`RxAlive`) `Stocked` says that a running interface has the timer armed,
a poll to come, or `Enough` buffers outstanding, and `Posted` that all of them are published. The theorem has two more
hypotheses, both of the code. `RoomForOne`: what a poll leaves has room for the largest packet. With the default
minimum of 64 (`netfront.h:177`) a poll leaves 33 slots; with 8, the least that sysfs lets an administrator set, 5. `NotWrapped`: the comparison of indices that
is not modular (886) has not met the wrap, without which `MCNetFrontWrap.cfg` shows the failure.

**`ControlProofs`, balloon.** `PagesAccounted` (`BalloonTypeOK`) is the conservation of pages: `current + list = Total` except
between the two updates of a batch, where the batch's size is the difference.
The worker alone changes the list and `current_pages`, so the credit
of a turn still fits when it is used, within the list and above the minimum
(`CreditFits`). For `MinimumKept` also every target a setter is about to store respects
the floor (`KeptFits`): a setter that reads the sum in the middle of a batch reads
at least `current_pages`, which does.

**`ControlProofs`, shutdown.** The inductive invariant is `TypeOK`, `NoBug`, `OneAgent` and
`StateKept`. `OneAgent` is not inductive alone: that a compare-and-exchange from
INVALID meets no other agent needs the equivalence of INVALID with "nobody at
work", and that a thread's exchange finds RESUMING or something newer needs
what each `pc` implies of `shutting_down`, which `StateKept` says. `BugFree`,
`AgentUnique` and `OffKept` (an action property) follow.

**`ReleaseProofs`, unplug.** The theorems hold in every environment that is `Orderly`, which TLC
checks exhaustively within the bounds and breaks one condition at a time (see above). The inductive
invariant `UInv` follows the device's life. `Placed` says which states of back end, device and
environment go together. `Held`: as long as xenbus has the device, the driver's data lead to a live
info, unless the first connection has been given up (`GivenUp`). `DiskKept`: `users` counts those who
have the disk open, a release in progress is one of them, and a disk that is open is there until the
last of them. `Removed`: what is still reachable after the remove, and that the last release frees it.
It yields `NothingUsedAfterFree` (`NothingStale`), `DiskKeptWhileOpen` (`ClosedUnused`) and
`NothingKept` (`NothingLeaks`). That a migration may meet unplug threads rests on two parts: `Placed` has threads
only while xenbus has the device, and a thread past its look at the back end only while that is Closing or Closed; and the disk is there
exactly when the driver is connected or suspended, but for an unplug that has taken it, after which `Orderly` has no migration.

**`DevicesProofs`.** For any finite set of devices, any bound on the events that wait, and any environments
in which the host keeps to `GoodHost`: devices are deleted at any time, closed or not, back ends answer the
boot late, the last device may go before it is resumed; nothing else of the list at `Cases` happens, for each of which the
tables above have a counterexample. The three properties of the run are not inductive, since two
threads own a device in turn and see its directory late. The inductive invariant `Inv` says for each device:
`EntryOk`, the directory is there with both ends' states or not at all; `DevOk`, which of the
device's fields still agree with it, and that a listed device whose directory has gone has its event in the queue or is being
removed; `BusyOk`, what xenwatch may rely on between two requests (a directory may go at any time between them, but no other take its
place); `ResumeOk`, that a device the resuming thread has still to come to is as the new host made it or has been closed since, that nobody
works on the one it is at, and where its watch is; `FollowOk`, the state in the struct is the one in the directory and answers the back
end's, or an event of the other end waits, or xenwatch is about to act on it. `InOrder` makes the resumed
devices the first on the bus, which is why only the last can be gone (`GoodHost`) without leaving the rest unresumed, and
`Early` keeps everybody quiet until the boot is done. Each action has a lemma that it keeps `Inv`; those of what several
actions share are `TellStep` (a back end's write), `SwitchFacts` (`__xenbus_switch_state`), `GoesOn` (the probe of one
device, then the next) and `StageKnown` (where the resume is). `Among`, the recursive function for what remains of the bus and of the
queue, is shown to keep the members wanted in their order (`AmongSeq`), by induction. It yields
`DevicesSound` (`NoBug`), `NoChangeIsMissed` (`NoneMissed`) and, as only `Create` brings a directory back and does so
under another `gen` (`StaysUnless`), `DirectoriesRespected` (`DirRespected`). TLC checked `Inv` on the instance of the run and on larger ones before it was proved.

**`XenstoreProofs`.** The theorems assume `FilesServed`: no process is in `Refused`
or `Signalled`, which is where the code fails (see above). The inductive invariant `IInv` has four parts. `Shapes` types what
the argument uses. `Counted` says which threads may be in a transaction
(`starting` only outside one, `ending` only inside) and that the count is the
size of that set. `Staged` ties the suspend's stage to the locks it has taken and
to what it has waited for. `Wired` follows the one request: while a thread holds
`request_mutex` its request is on the wire (`Asked`), or its reply is the only
reply in the ring among any number of events (`Answered`), or it is on the list
(`Listed`); otherwise there is none. It yields `CountKept` (`CountExact`),
`RepliesPaired` (`ReplyIsMine`) and, together, `SaveIsQuiet` (`QuietAtSave`).

The theorems about watches assume `OwnersServed` as well: no signal stops the owner of a
watch, the other place where the code fails. Their invariant `WInv` rests on the first. `InHand`,
`OnList` and `WatchLocked` say what a thread at work on a watch knows of it: it is
its own, the list has it or not, and `watch_mutex` keeps the suspend out. `Known` relates the
list to what xenstored has: they agree but for watches on their way on or off, of which `Wired` says
whether xenstored has seen the request, and for those a resume has still to repeat. So
no registration is ever refused (`Accepted`), also when a resume repeats it. `Announced`
follows a change from xenstored over the ring and the list of events to the callback; `Expected`
says for whom there may be events and a callback: a watch of the list, or one whose owner is about to
wait for them. It yields `WatchMayBeFreed` (`NoCallbackAfterUnregister`) and, with the types,
`WatchesStayLive` (`WatchesLive`). That `Without`, a recursive function over the list, removes all events
of a watch and no other is proved by induction: `UpTo` is the principle for a set of numbers,
shown from the library's well-founded order on finite sets.

**Only model-checked.** Liveness (`DeferredReclaimed`, `BiosComplete`, `Reached`,
`SuspendEnds`, `ReadyAgain`, `Settles`), which needs fairness and ENABLED.

## Not modelled

Within the modelled components: the memory of the block ring and of the shadow
(allocation failures, array lengths, a segment limit per host), barriers, the bytes
of the xenstore ring (a request is sent whole or not at all), the
sysrq watch, the other CPUs' part of a suspend, the flipping receiver and the
accelerator hooks of the network driver, the end of a driver or of the guest (`xenbus_dev_shutdown`) and
xenstore requests that fail in `Devices`, what only kernels built as Xen guests compile of the balloon. The components not modelled
are in `PROJECT.json` with the reason. `hazards` there lists what is hard to
test, with the property that covers each or a note of why none does yet.

Most of the repository's lines are copies: the same drivers for some twenty
kernels (`uvp-classic_xen_driver-2.6.32to3.0.x`, `others`), headers of Xen and of
upstream libraries, and upstream's virtio. One copy of each driver is modelled.

## Plan

Done: the allocator, the grant table, the block front end with unplug, the xenstore client,
shutdown, the shared ring, the network front end, the balloon, the xenbus devices. Every safety property of a run is a theorem. Next, in this order:

1. a segment limit per host in `BlkFront`; the bytes of the xenstore ring;
2. `ScsiFront` on `Ring`, then `Monitor`, the event loop of uvp-monitor.
