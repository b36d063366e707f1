-------------------------------- MODULE Devices --------------------------------
(***************************************************************************)
(* The xenbus devices of a guest: xen-platform-pci/xenbus_probe.c and the  *)
(* state switch of xenbus_client.c, with xen-vnif/netfront.c as the driver *)
(* that is bound to them.  How requests and watches reach xenstore is in   *)
(* Xenstore, what goes over a connected device's rings in NetFront.        *)
(*                                                                         *)
(* Who acts: the boot (xenbus_probe), the xenwatch thread and the loading  *)
(* of a driver (which exclude each other by xenwatch_mutex), the thread    *)
(* that suspends and resumes, the host's tools and the back ends.  A step  *)
(* makes one request to xenstore (a transaction is one) and what the code  *)
(* does on its own before the next.                                        *)
(***************************************************************************)
EXTENDS Naturals, Sequences, FiniteSets, SequencesExt

CONSTANTS Nodes,        \* the directories device/<type>/<id> there may be
          MaxQueue,     \* the host makes no change while so many events wait
          Cases         \* environments: [start, creates, unplugs, migrations, failures, may]

(* start: what the guest finds at boot; a kernel before this one may have  *)
(* left a device connected or closed.  What an environment may do besides: *)
(*   "sudden"   a device is deleted without having been closed,            *)
(*   "late"     the same while the guest is writing its keys,              *)
(*   "replug"   one is created anew before the guest has removed the old,  *)
(*   "boot"     one comes or goes between enumeration and watch,           *)
(*   "slow"     a back end does not answer the boot in time,               *)
(*   "gone"     the last one is deleted before it is resumed,              *)
(*   "absent"   the host's devices change at any time during a migration,  *)
(*   "anytime"  a migration interrupts xenwatch at its work,               *)
(*   "same"     the new host's paths of the back ends are the old ones     *)
(*              while a device is not connected yet.                       *)
ASSUME DevicesAssumption ==
    /\ Nodes # {} /\ IsFiniteSet(Nodes) /\ MaxQueue \in Nat
    /\ Cases \subseteq
         [start : [Nodes -> {"none", "new", "connected", "closed"}],
          creates : Nat, unplugs : Nat, migrations : Nat, failures : Nat,
          may : SUBSET {"sudden", "late", "replug", "boot", "slow",
                        "gone", "absent", "anytime", "same"}]

VARIABLES store,        \* each device's directories: the guest's and its back end's
          path,         \* names the host's paths of the back ends
          left,         \* what the environment may still do
          bus,          \* the devices on xenbus_frontend, in order
          dev,          \* struct xenbus_device
          fe,           \* fe_watch is registered
          loaded,       \* the driver is registered
          queue,        \* watch_events
          xw,           \* who has xenwatch_mutex: <<where, device>>
          sus,          \* the suspending thread
          resumed,      \* devices resume_dev has been called for
          boot,         \* xenbus_probe
          bug

host == <<store, path, left>>
driver == <<bus, dev, fe, loaded>>
vars == <<host, driver, queue, xw, sus, resumed, boot, bug>>

May(what) == what \in left.may
Uses(ok) == bug' = ~ok
Idle == <<"idle">>

NoDevice == [on |-> "none", gen |-> 0, state |-> "Unknown",
             otherend |-> 0, watch |-> "none", ring |-> FALSE]
OnBus(n) == \E i \in 1 .. Len(bus) : bus[i] = n

(* keys and mapped name the ring the guest works with, or an older one. *)
StateOf == [none |-> "Unknown", new |-> "Initialising",
            connected |-> "Connected", closed |-> "Closed"]
AtBoot(what) ==
    [there |-> what # "none", gen |-> IF what = "none" THEN 0 ELSE 1,
     front |-> StateOf[what], keys |-> IF what \in {"connected", "closed"} THEN "old" ELSE "none",
     back |-> StateOf[what], mapped |-> IF what = "connected" THEN "old" ELSE "none"]

Init ==
    /\ left \in Cases /\ path = 1
    /\ store = [n \in Nodes |-> AtBoot(left.start[n])]
    /\ bus = <<>> /\ dev = [n \in Nodes |-> NoDevice] /\ fe = FALSE /\ loaded = FALSE
    /\ queue = <<>> /\ xw = Idle /\ sus = Idle /\ resumed = {}
    /\ boot = <<"reset", Nodes>> /\ bug = FALSE

--------------------------------------------------------------------------------
(* xenstored *)

Event(watch, n) == [watch |-> watch, node |-> n]
Events == [watch : {"device", "key", "otherend"}, node : Nodes]

(* The members of a list that are in S, in their order. *)
Among(s, S) ==
    LET kept[i \in 0 .. Len(s)] ==
          IF i = 0 THEN <<>>
          ELSE IF s[i] \in S THEN Append(kept[i - 1], s[i]) ELSE kept[i - 1]
    IN  kept[Len(s)]

(* An event names the directory, or a key in it.  The new host has         *)
(* forgotten the watches until xs_resume repeats them.                     *)
HostKnows == sus # <<"rewatch">>
FrontFires(what, n) == IF fe /\ HostKnows THEN <<Event(what, n)>> ELSE <<>>
OtherendFires(n) ==
    IF dev[n].watch = "on" /\ dev[n].otherend = path /\ HostKnows
    THEN <<Event("otherend", n)>> ELSE <<>>
Without(n) == Among(queue, Events \ {Event("otherend", n)})

Put(n, entry) == store' = [store EXCEPT ![n] = entry]
Set(n, d) == dev' = [dev EXCEPT ![n] = d]

Talks == sus # <<"stopped">>                 \* xs_suspend has all the locks
MayWatch == sus \notin {<<"stopped">>, <<"rewatch">>}                 \* watch_mutex

(* __xenbus_switch_state writes only where there is a state already, but   *)
(* takes the new state for its own in any case.                            *)
Writes(n, to) == dev[n].state # to /\ store[n].there /\ store[n].front # "Unknown"

(* Seeded fault: writes without asking whether the directory is there. *)
SwitchStateBlind(n, to) ==
    /\ Talks
    /\ Put(n, [store[n] EXCEPT !.there = TRUE, !.front = to])
    /\ queue' = queue \o FrontFires("key", n)

SwitchState(n, to) ==
    /\ Talks
    /\ IF Writes(n, to)
       THEN Put(n, [store[n] EXCEPT !.front = to]) /\ queue' = queue \o FrontFires("key", n)
       ELSE UNCHANGED <<store, queue>>

Gone(n) ==
    [store[n] EXCEPT !.there = FALSE, !.front = "Unknown", !.keys = "none",
                     !.back = "Unknown", !.mapped = "none"]

(* The ring the guest lets go of is, for the host, an old one. *)
Older(key) == IF key = "current" THEN "old" ELSE key
DropRing(n) == Put(n, [store[n] EXCEPT !.keys = Older(@), !.mapped = Older(@)])

ReadState(n) == IF dev[n].otherend = path THEN store[n].back ELSE "Unknown"

--------------------------------------------------------------------------------
(* xenbus_probe, before any driver. *)

Booting == UNCHANGED <<path, left, dev, loaded, xw, sus, resumed, bug>>

(* xenbus_check_frontend: a device a former kernel left behind is taken    *)
(* through Closing and Closed to Initialising, from where its back end is. *)
ResetFrom(back) ==
    CASE back = "Connected" -> {"Closing"} [] back = "Closing" -> {"Closed"}
      [] back = "Closed" -> {"Initialising"} [] OTHER -> {}
CheckFrontend(n) ==
    /\ boot[1] = "reset" /\ n \in boot[2]
    /\ LET first == IF store[n].there /\ store[n].front \in {"Connected", "Closed"}
                    THEN ResetFrom(store[n].back) ELSE {}
       IN boot' = IF first = {} THEN <<"reset", boot[2] \ {n}>>
                  ELSE <<"write", boot[2] \ {n}, n, CHOOSE to \in first : TRUE>>
    /\ UNCHANGED <<store, bus, fe, queue>> /\ Booting

(* xenbus_printf makes the directory if it has gone. *)
ResetWrite(n) ==
    /\ boot[1] = "write" /\ boot[3] = n
    /\ Put(n, [store[n] EXCEPT !.there = TRUE, !.front = boot[4]])
    /\ boot' = <<"wait", boot[2], n, boot[4]>>
    /\ UNCHANGED <<bus, fe, queue>> /\ Booting

(* xenbus_reset_wait_for_backend gives up after five seconds: time enough  *)
(* for a back end that has something to do, unless it is slow.             *)
Awaited(to) == IF to = "Initialising" THEN "InitWait" ELSE to
BackendOwes(n) ==
    \/ store[n].front = "Closing" /\ store[n].back \in {"InitWait", "Connected"}
    \/ store[n].front = "Closed" /\ store[n].back \in {"InitWait", "Connected", "Closing"}
    \/ store[n].front = "Initialising" /\ store[n].back = "Closed"
ResetWait(n) ==
    /\ boot[1] = "wait" /\ boot[3] = n
    /\ store[n].back = Awaited(boot[4]) \/ ~BackendOwes(n) \/ May("slow")
    /\ boot' = CASE boot[4] = "Closing" -> <<"write", boot[2], n, "Closed">>
                 [] boot[4] = "Closed" -> <<"write", boot[2], n, "Initialising">>
                 [] OTHER -> <<"reset", boot[2]>>
    /\ UNCHANGED <<store, bus, fe, queue>> /\ Booting

(* xenbus_probe_devices *)
ResetDone ==
    /\ boot = <<"reset", {}>> /\ boot' = <<"enumerate">>
    /\ UNCHANGED <<store, bus, fe, queue>> /\ Booting
New(n) == [NoDevice EXCEPT !.on = "plain", !.gen = store[n].gen, !.state = "Initialising"]
ProbeDevices ==
    /\ boot = <<"enumerate">>
    /\ LET found == {n \in Nodes : store[n].front = "Initialising"}
       IN /\ bus' = SetToSeq(found)
          /\ dev' = [n \in Nodes |-> IF n \in found THEN New(n) ELSE NoDevice]
    /\ boot' = <<"watch">>
    /\ UNCHANGED <<host, fe, loaded, queue, xw, sus, resumed, bug>>

(* register_xenbus_watch: its first event names no device. *)
WatchFrontends ==
    /\ boot = <<"watch">> /\ fe' = TRUE /\ boot' = <<"done">>
    /\ UNCHANGED <<store, bus, queue>> /\ Booting

Boot == (\E n \in Nodes : CheckFrontend(n) \/ ResetWrite(n) \/ ResetWait(n))
        \/ ResetDone \/ ProbeDevices \/ WatchFrontends

--------------------------------------------------------------------------------
(* Probing, under xenwatch_mutex. *)

Take(watch, n) ==
    /\ xw = Idle /\ Talks /\ queue # <<>>
    /\ Head(queue) = Event(watch, n)

Elsewhere == UNCHANGED <<path, fe, loaded, sus, resumed, boot>>

(* frontend_changed, xenbus_dev_changed.  No device is called like a key,  *)
(* so a key that has gone removes none.                                    *)

(* Seeded fault: a directory that has gone is taken for one not yet there. *)
DevChangedIgnoresGone(n) ==
    /\ Take("device", n) \/ Take("key", n)
    /\ queue' = Tail(queue)
    /\ xw' = IF store[n].there /\ ~OnBus(n) THEN <<"probe", n>> ELSE Idle
    /\ UNCHANGED <<store, left, bus, dev, bug>> /\ Elsewhere

DevChanged(n) ==
    /\ Take("device", n) \/ Take("key", n)
    /\ queue' = Tail(queue)
    /\ xw' = CASE store[n].there /\ ~OnBus(n) -> <<"probe", n>>
               [] ~store[n].there /\ OnBus(n) /\ Head(queue).watch = "device" -> <<"remove", n>>
               [] OTHER -> Idle
    /\ UNCHANGED <<store, left, bus, dev, bug>> /\ Elsewhere

(* xenbus_probe_node *)
ProbeNode(n) ==
    /\ xw = <<"probe", n>> /\ Talks
    /\ IF store[n].front = "Initialising"
       THEN /\ bus' = Append(bus, n)
            /\ Set(n, [New(n) EXCEPT !.on = IF loaded THEN "probing" ELSE "plain"])
            /\ xw' = IF loaded THEN <<"details", n>> ELSE Idle
       ELSE UNCHANGED <<bus, dev>> /\ xw' = Idle
    /\ UNCHANGED <<store, left, queue, bug>> /\ Elsewhere

(* After a device the next, as driver_register goes along the bus. *)
Plain(d) == Among(bus, {n \in Nodes : d[n].on = "plain"})
Continue(d) ==
    IF Plain(d) = <<>> THEN dev' = d /\ xw' = Idle
    ELSE /\ dev' = [d EXCEPT ![Head(Plain(d))].on = "probing"]
         /\ xw' = <<"details", Head(Plain(d))>>

(* xenbus_register_driver_common *)
RegisterDriver ==
    /\ ~loaded /\ boot = <<"done">> /\ xw = Idle
    /\ loaded' = TRUE /\ Continue(dev)
    /\ UNCHANGED <<host, bus, fe, queue, sus, resumed, boot, bug>>

(* xenbus_dev_probe: talk_to_otherend *)
Offered(n) == store[n].there /\ store[n].front # "Unknown" /\ store[n].back # "Unknown"
ProbeDetails(n) ==
    /\ xw = <<"details", n>> /\ Talks
    /\ IF Offered(n) THEN Set(n, [dev[n] EXCEPT !.otherend = path]) /\ xw' = <<"bind", n>>
       ELSE UNCHANGED dev /\ xw' = <<"fatal", n>>
    /\ UNCHANGED <<store, left, bus, queue, bug>> /\ Elsewhere

(* drv->probe and watch_otherend, whose first event comes at once. *)
Watching(n) == [dev[n] EXCEPT !.watch = "on"]
ProbeBind(n) ==
    /\ xw = <<"bind", n>> /\ MayWatch
    /\ Uses(dev[n].watch = "none")
    /\ queue' = Append(queue, Event("otherend", n))
    /\ Continue([dev EXCEPT ![n] = [Watching(n) EXCEPT !.on = "bound"]])
    /\ UNCHANGED <<store, left, bus>> /\ Elsewhere

ProbeRefuses(n) ==
    /\ xw = <<"bind", n>> /\ left.failures > 0
    /\ left' = [left EXCEPT !.failures = @ - 1] /\ xw' = <<"unfit", n>>
    /\ UNCHANGED <<store, driver, queue, sus, resumed, boot, path, bug>>

(* xenbus_dev_fatal, or the end of xenbus_dev_probe; the device stays on   *)
(* the bus without a driver.                                               *)
ProbeFails(n) ==
    /\ xw \in {<<"fatal", n>>, <<"unfit", n>>}
    /\ LET to == IF xw[1] = "fatal" THEN "Closing" ELSE "Closed"
       IN SwitchState(n, to) /\ Continue([dev EXCEPT ![n].on = "failed", ![n].state = to])
    /\ UNCHANGED <<left, bus, bug>> /\ Elsewhere

Probing == RegisterDriver \/ \E n \in Nodes :
    \/ DevChanged(n) \/ ProbeNode(n) \/ ProbeDetails(n)
    \/ ProbeBind(n) \/ ProbeRefuses(n) \/ ProbeFails(n)

--------------------------------------------------------------------------------
(* xenbus_cleanup_devices, xenbus_dev_remove *)

BusWithout(n) == Among(bus, Nodes \ {n})
DevRemove(n) ==
    /\ xw = <<"remove", n>> /\ (dev[n].watch # "none" => MayWatch)
    /\ Uses(dev[n].watch # "going")
    /\ bus' = BusWithout(n) /\ queue' = Without(n)
    /\ IF dev[n].on = "bound"
       THEN /\ Set(n, [dev[n] EXCEPT !.on = "leaving", !.otherend = 0,
                                     !.watch = "none", !.ring = FALSE])
            /\ DropRing(n) /\ xw' = <<"close", n>>
       ELSE Set(n, NoDevice) /\ xw' = Idle /\ UNCHANGED store
    /\ UNCHANGED left /\ Elsewhere

DevRemoveClosed(n) ==
    /\ xw = <<"close", n>> /\ SwitchState(n, "Closed")
    /\ Set(n, NoDevice) /\ xw' = Idle
    /\ UNCHANGED <<left, bus, bug>> /\ Elsewhere

(* otherend_changed, and what netfront's backend_changed makes of it. *)
Answer(back, state) ==
    CASE back = "InitWait" /\ state = "Initialising" -> "connect"
      [] back \in {"Closing", "Closed"} /\ state # "Closed" -> "closed"
      [] OTHER -> "nothing"
OtherendChanged(n) ==
    /\ Take("otherend", n) /\ queue' = Tail(queue)
    /\ LET do == Answer(ReadState(n), dev[n].state)
       IN xw' = IF do = "nothing" THEN Idle ELSE <<do, n>>
    /\ UNCHANGED <<store, left, bus, dev, bug>> /\ Elsewhere

(* network_connect: setup_device, and talk_to_backend's transaction.       *)
Connect(n) ==
    /\ xw = <<"connect", n>> /\ Talks
    /\ Uses(~dev[n].ring)
    /\ Put(n, [store[n] EXCEPT !.there = TRUE, !.keys = "current"])
    /\ Set(n, [dev[n] EXCEPT !.ring = TRUE])
    /\ queue' = queue \o FrontFires("key", n)
    /\ xw' = <<"connected", n>>
    /\ UNCHANGED <<left, bus>> /\ Elsewhere

(* setup_device fails, or the address is not there any more to be read:    *)
(* xenbus_dev_fatal.                                                       *)
ConnectFails(n) ==
    /\ xw = <<"connect", n>>
    /\ left.failures > 0 \/ ~store[n].there
    /\ SwitchState(n, "Closing") /\ Set(n, [dev[n] EXCEPT !.state = "Closing"])
    /\ left' = [left EXCEPT !.failures = IF store[n].there THEN @ - 1 ELSE @] /\ xw' = Idle
    /\ UNCHANGED <<bus, bug>> /\ Elsewhere

Connected(n) ==
    /\ xw = <<"connected", n>>
    /\ SwitchState(n, "Connected") /\ Set(n, [dev[n] EXCEPT !.state = "Connected"])
    /\ xw' = Idle
    /\ UNCHANGED <<left, bus, bug>> /\ Elsewhere

(* xenbus_frontend_closed *)
FrontendClosed(n) ==
    /\ xw = <<"closed", n>>
    /\ SwitchState(n, "Closed") /\ Set(n, [dev[n] EXCEPT !.state = "Closed"])
    /\ xw' = Idle
    /\ UNCHANGED <<left, bus, bug>> /\ Elsewhere

Following == \E n \in Nodes :
    \/ DevRemove(n) \/ DevRemoveClosed(n) \/ OtherendChanged(n)
    \/ Connect(n) \/ ConnectFails(n) \/ Connected(n) \/ FrontendClosed(n)

--------------------------------------------------------------------------------
(* xenbus_suspend, xenbus_suspend_cancel, xenbus_resume *)

AtRest == UNCHANGED <<left, bus, fe, loaded, xw, boot>>

Suspend ==
    /\ loaded /\ sus = Idle /\ left.migrations > 0
    /\ sus' = <<"stopped">>
    /\ UNCHANGED <<host, driver, queue, xw, resumed, boot, bug>>

SuspendCancel ==
    /\ sus = <<"stopped">> /\ sus' = Idle
    /\ left' = [left EXCEPT !.migrations = @ - 1]
    /\ UNCHANGED <<store, path, driver, queue, xw, resumed, boot, bug>>

(* The new host has the guest's devices anew.  What xenwatch has not read  *)
(* from the ring by now is lost (xb_init_comms).                           *)
Steady ==
    /\ xw = Idle
    /\ \A n \in Nodes : store[n].there = OnBus(n) /\ (OnBus(n) => dev[n].gen = store[n].gen)
Unconnected == {n \in Nodes : dev[n].on = "bound" /\ dev[n].state = "Initialising"}
Anew(n, back) ==
    [store[n] EXCEPT !.front = "Initialising", !.keys = "none", !.back = back, !.mapped = "none"]
Migrate ==
    /\ sus = <<"stopped">> /\ (Steady \/ May("anytime"))
    /\ \E back \in {"Initialising", "InitWait"}, drop \in SUBSET Nodes :
         /\ drop = {} \/ May("absent")
         /\ store' = [n \in Nodes |-> CASE n \in drop -> Gone(n)
                                        [] store[n].there -> Anew(n, back)
                                        [] OTHER -> store[n]]
    /\ path' \in {path, path + 1}
    /\ path' = path => Unconnected = {} \/ May("same")
    /\ \E k \in 0 .. Len(queue) : queue' = SubSeq(queue, 1, k)
    /\ sus' = <<"rewatch">> /\ left' = [left EXCEPT !.migrations = @ - 1]
    /\ UNCHANGED <<driver, xw, resumed, boot, bug>>

(* xs_resume: every watch in the list fires as it is repeated.             *)
Rewatch ==
    /\ sus = <<"rewatch">>
    /\ LET watched == Among(bus, {n \in Nodes : dev[n].watch = "on"})
       IN queue' = queue \o [i \in 1 .. Len(watched) |-> Event("otherend", watched[i])]
    /\ sus' = <<"resume">> /\ resumed' = {}
    /\ UNCHANGED <<store, path, dev, bug>> /\ AtRest

(* bus_for_each_dev: the next device, if it has a driver. *)
ResumeNext ==
    /\ sus = <<"resume">>
    /\ LET rest == Among(bus, Nodes \ resumed)
       IN IF rest = <<>> THEN sus' = Idle /\ UNCHANGED resumed
          ELSE /\ resumed' = resumed \cup {Head(rest)}
               /\ sus' = IF dev[Head(rest)].on \in {"probing", "bound"}
                         THEN <<"unwatch", Head(rest)>> ELSE sus
    /\ UNCHANGED <<store, path, dev, queue, bug>> /\ AtRest

(* A device xenwatch has removed is kept only for this thread to look at. *)
Keep(n, d) == IF dev[n].on = "none" THEN UNCHANGED dev ELSE Set(n, d)

(* Seeded fault: the old watch is kept. *)
ResumeUnwatchNot(n) ==
    /\ sus = <<"unwatch", n>> /\ sus' = <<"details", n>>
    /\ UNCHANGED <<store, path, dev, queue, resumed, bug>> /\ AtRest

(* resume_dev: talk_to_otherend. *)
ResumeUnwatch(n) ==
    /\ sus = <<"unwatch", n>>
    /\ IF dev[n].watch = "on" THEN Set(n, [dev[n] EXCEPT !.watch = "going"]) /\ sus' = <<"wait", n>>
       ELSE UNCHANGED dev /\ sus' = <<"details", n>>
    /\ UNCHANGED <<store, path, queue, resumed, bug>> /\ AtRest

(* unregister_xenbus_watch has taken the watch from the list, and goes on  *)
(* when xenwatch_mutex is free; until it is done the device still names it.*)
ResumeWait(n) ==
    /\ sus = <<"wait", n>> /\ xw = Idle
    /\ Keep(n, [dev[n] EXCEPT !.watch = "none"])
    /\ queue' = Without(n) /\ sus' = <<"details", n>>
    /\ UNCHANGED <<store, path, resumed, bug>> /\ AtRest

ResumeDetails(n) ==
    /\ sus = <<"details", n>>
    /\ IF Offered(n) THEN Keep(n, [dev[n] EXCEPT !.otherend = path]) /\ sus' = <<"restart", n>>
       ELSE Keep(n, [dev[n] EXCEPT !.otherend = 0]) /\ sus' = <<"fatal", n>>
    /\ UNCHANGED <<store, path, queue, resumed, bug>> /\ AtRest

(* xenbus_dev_fatal; the error ends bus_for_each_dev. *)
ResumeFatal(n) ==
    /\ sus = <<"fatal", n>>
    /\ SwitchState(n, "Closing") /\ Keep(n, [dev[n] EXCEPT !.state = "Closing"])
    /\ sus' = Idle
    /\ UNCHANGED <<path, resumed, bug>> /\ AtRest

(* Seeded fault: the device is taken for as far as it was before. *)
ResumeDriverKeepsState(n) ==
    /\ sus = <<"restart", n>> /\ Uses(dev[n].on = "bound")
    /\ Set(n, [dev[n] EXCEPT !.ring = FALSE]) /\ DropRing(n)
    /\ sus' = <<"watch", n>>
    /\ UNCHANGED <<path, queue, resumed>> /\ AtRest

(* netfront_resume, and resume_dev's reset of the state. *)
ResumeDriver(n) ==
    /\ sus = <<"restart", n>> /\ Uses(dev[n].on = "bound")
    /\ Set(n, [dev[n] EXCEPT !.state = "Initialising", !.ring = FALSE]) /\ DropRing(n)
    /\ sus' = <<"watch", n>>
    /\ UNCHANGED <<path, queue, resumed>> /\ AtRest

ResumeWatch(n) ==
    /\ sus = <<"watch", n>> /\ Uses(dev[n].on = "bound" /\ dev[n].watch = "none")
    /\ Set(n, Watching(n)) /\ queue' = Append(queue, Event("otherend", n))
    /\ sus' = <<"resume">>
    /\ UNCHANGED <<store, path, resumed>> /\ AtRest

Resuming == SuspendCancel \/ Migrate \/ Rewatch \/ ResumeNext \/ \E n \in Nodes :
    \/ ResumeUnwatch(n) \/ ResumeWait(n) \/ ResumeDetails(n) \/ ResumeFatal(n)
    \/ ResumeDriver(n) \/ ResumeWatch(n)

--------------------------------------------------------------------------------
(* The back ends and the host's tools. *)

Room == Len(queue) < MaxQueue
Aside == UNCHANGED <<path, driver, xw, sus, resumed, boot, bug>>
Tell(n, to) ==
    /\ Room
    /\ Put(n, [store[n] EXCEPT !.back = to,
                               !.mapped = IF to = "Connected" THEN store[n].keys ELSE "none"])
    /\ queue' = queue \o OtherendFires(n) /\ Aside

BackendReady(n) == store[n].back = "Initialising" /\ Tell(n, "InitWait") /\ UNCHANGED left
BackendConnects(n) ==
    /\ store[n].back = "InitWait" /\ store[n].front = "Connected"
    /\ Tell(n, IF store[n].keys = "none" THEN "Closing" ELSE "Connected") /\ UNCHANGED left
BackendFollows(n) == BackendOwes(n) /\ Tell(n, Awaited(store[n].front)) /\ UNCHANGED left

Backend(n) == BackendReady(n) \/ BackendConnects(n) \/ BackendFollows(n)

Unplug(n) ==
    /\ store[n].back \in {"InitWait", "Connected"} /\ left.unplugs > 0
    /\ Tell(n, "Closing") /\ left' = [left EXCEPT !.unplugs = @ - 1]

Fires(n) == queue' = queue \o FrontFires("device", n) \o OtherendFires(n)
Heard ==
    /\ sus = Idle \/ May("absent")
    /\ boot = <<"watch">> => May("boot")
BeforeResumed(n) == May("gone") /\ sus = <<"details", n>> /\ bus # <<>> /\ Last(bus) = n

(* The device is made in one transaction and deleted in one. *)
Create(n) ==
    /\ Room /\ Heard /\ store[n].back = "Unknown" /\ left.creates > 0
    /\ dev[n].on = "none" \/ May("replug")
    /\ Put(n, [there |-> TRUE, gen |-> store[n].gen + 1, front |-> "Initialising",
               keys |-> "none", back |-> "Initialising", mapped |-> "none"])
    /\ Fires(n) /\ left' = [left EXCEPT !.creates = @ - 1] /\ Aside

Written(n) == xw = <<"connect", n>> \/ (boot[1] \in {"write", "wait"} /\ boot[3] = n)
Delete(n) ==
    /\ Room /\ (Heard \/ BeforeResumed(n)) /\ store[n].back # "Unknown"
    /\ \/ store[n].front = "Closed" /\ store[n].back = "Closed"
       \/ May("sudden")
    /\ Written(n) => May("late")
    /\ Put(n, Gone(n)) /\ Fires(n) /\ UNCHANGED left /\ Aside

Tools == \E n \in Nodes : Unplug(n) \/ Create(n) \/ Delete(n)

Next ==
    /\ ~bug
    /\ \/ Boot \/ Probing \/ Following \/ Suspend \/ Resuming \/ Tools
       \/ \E n \in Nodes : Backend(n)

Spec == Init /\ [][Next]_vars

(* Threads of the kernel go on, a module is loaded, back ends answer; what *)
(* the host's tools and a suspend ask for may come or not.                 *)
FairSpec ==
    /\ Spec
    /\ WF_vars(Boot) /\ WF_vars(Probing) /\ WF_vars(Following) /\ WF_vars(Resuming)
    /\ \A n \in Nodes : WF_vars(Backend(n))

--------------------------------------------------------------------------------
(* Every variable has its type. *)
States == {"Unknown", "Initialising", "InitWait", "Connected", "Closing", "Closed"}
TypeOK ==
    /\ store \in [Nodes -> [there : BOOLEAN, gen : Nat, front : States, back : States,
                            keys : {"none", "old", "current"}, mapped : {"none", "old", "current"}]]
    /\ dev \in [Nodes -> [on : {"none", "plain", "probing", "bound", "failed", "leaving"},
                          gen : Nat, state : States, otherend : Nat,
                          watch : {"none", "on", "going"}, ring : BOOLEAN]]
    /\ bus \in Seq(Nodes) /\ queue \in Seq(Events)
    /\ fe \in BOOLEAN /\ loaded \in BOOLEAN /\ resumed \subseteq Nodes /\ bug \in BOOLEAN

(* No watch is registered twice or taken back twice (BUG_ON in             *)
(* register_xenbus_watch and unregister_xenbus_watch), no device is        *)
(* resumed that xenwatch has removed, no ring is replaced that has not     *)
(* been released; and a device is on the bus once.                         *)
NoBug ==
    /\ TypeOK /\ ~bug
    /\ \A i, j \in 1 .. Len(bus) : bus[i] = bus[j] => i = j
    /\ \A n \in Nodes : OnBus(n) = (dev[n].on \in {"plain", "probing", "bound", "failed"})

(* "If the node has gone, we don't write to it, as the device will be      *)
(* tearing down, and we don't want to resurrect that directory"            *)
(* (__xenbus_switch_state): what the guest writes for a device goes to the *)
(* directory the device was found in.                                      *)
GuestWrites(n) ==
    /\ store'[n].there /\ store'[n].gen = store[n].gen /\ sus # <<"stopped">>
    /\ store'[n].front # store[n].front \/ store'[n].keys # store[n].keys
DirRespected ==
    [][\A n \in Nodes : GuestWrites(n) =>
         store[n].there /\ (dev[n].on # "none" => dev[n].gen = store[n].gen)]_vars

(* xenwatch, or the thread that resumes, is busy with the device. *)
Attended(n) ==
    \/ sus # Idle
    \/ xw # Idle /\ xw[2] = n
    \/ Event("otherend", n) \in {queue[i] : i \in 1 .. Len(queue)}
    \/ Event("device", n) \in {queue[i] : i \in 1 .. Len(queue)}

(* No change of the other end is missed: a device nobody is about to look  *)
(* at has its watch where its back end is now, its cached state is the one *)
(* in its directory, and that answers the back end's.                      *)
NoneMissed ==
    \A n \in Nodes : dev[n].on = "bound" /\ ~Attended(n) =>
        /\ dev[n].watch = "on" /\ dev[n].otherend = path
        /\ dev[n].state = store[n].front
        /\ Answer(store[n].back, dev[n].state) = "nothing"

(* When the host asks for nothing more, every device it offers is on the   *)
(* bus and its driver has seen it, and one that is bound is connected over  *)
(* the ring the driver works with, or closed at both ends; and no other    *)
(* device is there.                                                        *)
Settled(n) ==
    /\ dev[n].on # "plain"
    /\ OnBus(n) = (store[n].back # "Unknown" /\ (OnBus(n) \/ store[n].front = "Initialising"))
    /\ dev[n].on = "bound" =>
         \/ /\ store[n].front = "Connected" /\ store[n].back = "Connected"
            /\ store[n].mapped = "current"
         \/ store[n].front = "Closed" /\ store[n].back = "Closed"
Settles == <>[](\A n \in Nodes : Settled(n))
================================================================================
