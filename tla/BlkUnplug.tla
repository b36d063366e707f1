-------------------------------- MODULE BlkUnplug ------------------------------
(***************************************************************************)
(* Life and death of a block device in xen-vbd/xen-blkfront.c: who holds   *)
(* the driver's info while the disk is opened and released, unplugged by   *)
(* a thread of its own, removed by xenwatch and carried over a migration.  *)
(* What goes over the ring is in BlkFront.                                 *)
(*                                                                         *)
(* Interleaving: xenwatch calls otherend_changed and remove one after the  *)
(* other; the unplug threads and the block layer's open and release run    *)
(* beside them.  open, release and the ends of closing and remove exclude  *)
(* each other by bd_mutex; info->mutex is held within a step.              *)
(***************************************************************************)
EXTENDS Naturals, FiniteSets

CONSTANTS Threads,      \* unplug threads
          Cases         \* environments: [openers, unplugs, migrations, may]

(* What an environment may do beyond an orderly unplug:                    *)
(*   "sudden" the device is deleted with no unplug under way,              *)
(*   "force"  it is deleted while one is,                                  *)
(*   "twice"  an unplug is asked for again before the last one has ended,  *)
(*   "cross"  a process closes it while remove waits for bd_mutex,         *)
(*   "late"   a process has found the disk and opens it after that,        *)
(*   "fail"   talk_to_blkback fails when the back end has become ready,    *)
(*   "refuse" it fails in blkfront_resume,                                 *)
(*   "hasty"  the guest migrates before it has Settled.                    *)
ASSUME UnplugAssumption ==
    /\ IsFiniteSet(Threads)
    /\ Cases \subseteq [openers : Nat, unplugs : Nat, migrations : Nat,
                        may : SUBSET {"sudden", "force", "cross", "twice", "late", "fail",
                                      "refuse", "hasty"}]

(* The environments the driver is made for.  Outside them it uses what is  *)
(* gone or keeps what it should free; README.md says how.                  *)
Orderly(c) ==
    /\ {"force", "cross", "hasty"} \cap c.may = {}
    /\ "sudden" \in c.may \/ "refuse" \in c.may => c.openers <= 1
    /\ "late" \in c.may => c.unplugs = 0 /\ "refuse" \notin c.may
    /\ "fail" \in c.may => c.migrations = 0 /\ "sudden" \notin c.may

VARIABLES info,       \* the kzalloc'ed blkfront_info: "live" or "freed"
          drvdata,    \* the device's driver data point to it
          private_data,    \* disk->private_data points to it
          gd,         \* info->gd and info->rq
          xbdev,      \* info->xbdev
          device,     \* the xenbus device: "bound", "leaving", "bdev", "gone"
          state,      \* the front end's state in xenstore and in xbdev->state
          back,       \* the back end's state, "Deleted" when its keys are gone
          events,     \* changes of the back end's state xenwatch has not seen
          connected,  \* info->connected
          users,      \* info->users
          openers,    \* bdev->bd_openers
          rel,        \* blkif_release, under bd_mutex: "none", "mutex", "gone"
          found,      \* processes that have found the disk and not opened it
          pc, late,   \* unplug threads: where, and has the wait run out
          left,       \* what the environment may still do
          bug         \* something that is gone was used

dev == <<drvdata, xbdev, device>>
disk == <<private_data, gd, users, openers, rel, found>>
peer == <<back, events>>
threads == <<pc, late>>
vars == <<info, dev, disk, state, peer, connected, threads, left, bug>>

(* blkfront_probe has succeeded, the back end is not ready yet. *)
Init ==
    /\ info = "live" /\ drvdata = TRUE /\ private_data = FALSE /\ gd = FALSE
    /\ xbdev = TRUE /\ device = "bound"
    /\ state = "Initialising" /\ back = "Initialising" /\ events = 1
    /\ connected = "disconnected" /\ users = 0 /\ openers = 0 /\ rel = "none" /\ found = 0
    /\ pc = [t \in Threads |-> "idle"] /\ late = [t \in Threads |-> FALSE]
    /\ left \in Cases /\ bug = FALSE

May(what) == what \in left.may
Quiet == \A t \in Threads : pc[t] = "idle"

(* What a step dereferences has to be there. *)
Uses(ok) == bug' = ~ok
InfoLive == info = "live"
DeviceThere == device # "gone"

(* The gendisk is there while the driver, a process that has it open or    *)
(* one that has found it holds a reference; a block_device holds none.     *)
DiskThere == gd \/ openers > 0 \/ found > 0

--------------------------------------------------------------------------------
(* xenwatch: blkback_changed. *)

Watch == device = "bound" /\ events > 0 /\ events' = events - 1

(* talk_to_blkback: nothing to do from Initialised on; a suspended device  *)
(* is recovered at once.  A failure has been reported with                 *)
(* xenbus_dev_fatal, unless it was the recovery that failed.               *)
BackInitWait ==
    /\ Watch /\ back = "InitWait"
    /\ Uses(state = "Initialising" => drvdata /\ (connected = "suspended" => gd))
    /\ \/ /\ state' = IF state # "Initialising" THEN state
                      ELSE IF connected = "suspended" THEN "Connected" ELSE "Initialised"
          /\ connected' = IF state = "Initialising" /\ connected = "suspended"
                          THEN "connected" ELSE connected
          /\ UNCHANGED <<info, drvdata>>
       \/ /\ state = "Initialising" /\ May("fail")
          /\ state' \in {"Closing"} \cup IF connected = "suspended" THEN {"Initialised"} ELSE {}
          /\ info' = "freed" /\ drvdata' = FALSE /\ UNCHANGED connected
    /\ UNCHANGED <<xbdev, device, disk, back, threads, left>>

(* blkfront_connect: a change of capacity, a recovery, or the first        *)
(* connection, which makes the disk.                                       *)
BackConnected ==
    /\ Watch /\ back = "Connected"
    /\ \/ /\ Uses(drvdata /\ (connected # "disconnected" <=> gd))
          /\ connected' = "connected" /\ state' = IF connected = "connected" THEN state ELSE "Connected"
          /\ gd' = (gd \/ connected = "disconnected") /\ private_data' = (private_data \/ connected = "disconnected")
       \/ /\ connected = "disconnected" /\ Uses(drvdata)
          /\ state' = "Closing"                                        \* xenbus_dev_fatal
          /\ UNCHANGED <<connected, gd, private_data>>
    /\ UNCHANGED <<info, dev, users, openers, rel, found, back, threads, left>>

BackClosing ==
    /\ Watch /\ back = "Closing" /\ Uses(drvdata)
    /\ \E t \in Threads :
         /\ pc[t] = "idle"
         /\ pc' = [pc EXCEPT ![t] = "start"] /\ late' = [late EXCEPT ![t] = FALSE]
    /\ UNCHANGED <<info, dev, disk, state, back, connected, left>>

BackOther ==
    /\ Watch /\ back \in {"Initialising", "Closed", "Deleted"}
    /\ UNCHANGED <<info, dev, disk, state, back, connected, threads, left, bug>>

--------------------------------------------------------------------------------
(* xlvbd_release_gendisk: nothing when it has been done. *)
ReleaseGendisk == gd' = FALSE

(* blkfront_remove, called by xenwatch when the device's keys are gone. *)
Remove ==
    /\ device = "leaving" /\ xbdev /\ (rel = "none" \/ May("cross"))
    /\ Uses(drvdata /\ InfoLive)
    /\ connected' = "disconnected" /\ xbdev' = FALSE
    /\ device' = IF gd THEN "bdev" ELSE "gone"
    /\ info' = IF ~gd /\ users = 0 THEN "freed" ELSE info
    /\ UNCHANGED <<drvdata, disk, state, peer, threads, left>>

(* Seeded fault: the disk still leads to info. *)
RemoveDiskOnly ==
    /\ device = "bdev" /\ rel = "none"
    /\ Uses(DiskThere /\ (private_data => InfoLive))
    /\ IF private_data /\ openers = 0
       THEN ReleaseGendisk /\ info' = "freed"
       ELSE UNCHANGED <<gd, info>>
    /\ device' = "gone"
    /\ UNCHANGED <<drvdata, private_data, xbdev, users, openers, rel, found, state, peer, connected, threads, left>>

(* It leaves the disk to release while somebody has it open. *)
RemoveDisk ==
    /\ device = "bdev" /\ rel = "none"
    /\ Uses(DiskThere /\ (private_data => InfoLive))
    /\ IF private_data /\ openers = 0
       THEN ReleaseGendisk /\ private_data' = FALSE /\ info' = "freed"
       ELSE UNCHANGED <<gd, private_data, info>>
    /\ device' = "gone"
    /\ UNCHANGED <<drvdata, xbdev, users, openers, rel, found, state, peer, connected, threads, left>>

Xenwatch == BackInitWait \/ BackConnected \/ BackClosing \/ BackOther \/ Remove \/ RemoveDisk

--------------------------------------------------------------------------------
(* The block layer. *)

(* get_gendisk *)
Find ==
    /\ May("late") /\ gd /\ found = 0
    /\ found' = 1
    /\ UNCHANGED <<info, dev, private_data, gd, users, openers, rel, state, peer, connected, threads, left, bug>>

(* blkif_open, of a disk that has been found before or just now. *)
Open ==
    /\ (gd \/ found > 0) /\ rel = "none" /\ openers < left.openers
    /\ Uses(private_data => InfoLive)
    /\ IF private_data /\ gd
       THEN users' = users + 1 /\ openers' = openers + 1
       ELSE UNCHANGED <<users, openers>>
    /\ found' = 0
    /\ UNCHANGED <<info, dev, private_data, gd, rel, state, peer, connected, threads, left>>

(* blkif_release, after the block layer has counted bd_openers down. *)
Release ==
    /\ openers > 0 /\ rel = "none" /\ (device = "bdev" => May("cross"))
    /\ openers' = openers - 1
    /\ Uses(private_data => InfoLive)
    /\ IF private_data THEN users' = users - 1 /\ rel' = "mutex" ELSE UNCHANGED <<users, rel>>
    /\ UNCHANGED <<info, dev, private_data, gd, found, state, peer, connected, threads, left>>

ReleaseMutex ==
    /\ rel = "mutex"
    /\ Uses(InfoLive /\ (xbdev => DeviceThere))
    /\ IF xbdev /\ state = "Closing"
       THEN ReleaseGendisk /\ state' = "Closed"
       ELSE UNCHANGED <<gd, state>>
    /\ rel' = IF xbdev THEN "none" ELSE "gone"
    /\ UNCHANGED <<info, dev, private_data, users, openers, found, peer, connected, threads, left>>

(* Seeded fault: info is kept. *)
ReleaseKeeps ==
    /\ rel = "gone"
    /\ Uses(InfoLive) /\ ReleaseGendisk /\ private_data' = FALSE /\ rel' = "none"
    /\ UNCHANGED <<info, dev, users, openers, found, state, peer, connected, threads, left>>

(* The device was removed before. *)
ReleaseGone ==
    /\ rel = "gone"
    /\ Uses(InfoLive) /\ ReleaseGendisk /\ private_data' = FALSE /\ rel' = "none"
    /\ info' = IF users = 0 THEN "freed" ELSE info
    /\ UNCHANGED <<dev, users, openers, found, state, peer, connected, threads, left>>

BlockLayer == Find \/ Open \/ Release \/ ReleaseMutex \/ ReleaseGone

--------------------------------------------------------------------------------
(* blkfront_closing, in a thread of its own. *)

At(t, a) == pc[t] = a
Go(t, a) == pc' = [pc EXCEPT ![t] = a]

(* It takes info->xbdev and names the disk to the guest's agent. *)
ClosingStart(t) ==
    /\ At(t, "start") /\ Uses(InfoLive /\ xbdev /\ DeviceThere)
    /\ Go(t, "wait")
    /\ UNCHANGED <<info, dev, disk, state, peer, connected, late, left>>

(* It waits for info->users to go, and gives up after UNPLUG_DISK_TMOUT. *)
ClosingWait(t) ==
    /\ At(t, "wait") /\ Uses(InfoLive)
    /\ Go(t, "state") /\ late' = [late EXCEPT ![t] = users # 0]
    /\ UNCHANGED <<info, dev, disk, state, peer, connected, left>>

(* The unplug is off when the back end is no longer closing, or it is late. *)
ClosingState(t) ==
    /\ At(t, "state") /\ Uses(InfoLive /\ DeviceThere)
    /\ Go(t, IF back # "Deleted" /\ (back # "Closing" \/ late[t]) THEN "idle" ELSE "lock")
    /\ UNCHANGED <<info, dev, disk, state, peer, connected, late, left>>

ClosingLock(t) ==
    /\ At(t, "lock") /\ Uses(InfoLive /\ DeviceThere)
    /\ IF state = "Closing" THEN Go(t, "idle") /\ UNCHANGED state
       ELSE IF gd THEN Go(t, "bdev") /\ UNCHANGED state
       ELSE Go(t, "idle") /\ state' = "Closed"
    /\ UNCHANGED <<info, dev, disk, peer, connected, late, left>>

(* Seeded fault: the disk is not looked at again under bd_mutex. *)
ClosingDiskInUse(t) ==
    /\ At(t, "bdev") /\ rel = "none"
    /\ Uses(DeviceThere /\ InfoLive)
    /\ ReleaseGendisk /\ state' = "Closed" /\ Go(t, "idle")
    /\ UNCHANGED <<info, dev, private_data, users, openers, rel, found, peer, connected, late, left>>

ClosingDisk(t) ==
    /\ At(t, "bdev") /\ rel = "none"
    /\ Uses(DeviceThere /\ (openers = 0 => InfoLive))
    /\ IF openers = 0
       THEN ReleaseGendisk /\ state' = "Closed"
       ELSE UNCHANGED <<gd, state>>                 \* "Device in use"
    /\ Go(t, "idle")
    /\ UNCHANGED <<info, dev, private_data, users, openers, rel, found, peer, connected, late, left>>

Closing == \E t \in Threads :
    ClosingStart(t) \/ ClosingWait(t) \/ ClosingState(t) \/ ClosingLock(t) \/ ClosingDisk(t)

--------------------------------------------------------------------------------
(* The back end and the host's tools. *)

Tell(to) == back' = to /\ events' = events + 1
Host == UNCHANGED <<info, dev, disk, state, connected, threads, bug>>

BackendReady == back = "Initialising" /\ Tell("InitWait") /\ Host /\ UNCHANGED left
BackendConnect ==
    /\ back = "InitWait" /\ state \in {"Initialised", "Connected"}
    /\ Tell("Connected") /\ Host /\ UNCHANGED left

Unplug ==
    /\ back \in {"Connected", "Closing"} /\ left.unplugs > 0
    /\ back = "Closing" => May("twice") \/ (Quiet /\ events = 0)
    /\ Tell("Closing") /\ Host
    /\ left' = [left EXCEPT !.unplugs = @ - 1]

BackendClosed == back = "Closing" /\ state = "Closed" /\ Tell("Closed") /\ Host /\ UNCHANGED left

(* The device's keys are deleted: xenwatch will remove it. *)
Delete ==
    /\ device = "bound"
    /\ \/ back = "Closed" /\ (Quiet \/ May("force"))
       \/ May("sudden") /\ Quiet /\ back \in {"InitWait", "Connected"}
       \/ May("force")
    /\ back' = "Deleted" /\ events' = 0 /\ device' = "leaving"
    /\ UNCHANGED <<info, drvdata, xbdev, disk, state, connected, threads, left, bug>>

(* The last migration is over, no unplug has taken the disk, and no thread *)
(* has found the back end Closing and is about to.                         *)
Settled ==
    /\ connected = "connected" <=> gd
    /\ \A t \in Threads : pc[t] \notin {"lock", "bdev"}

(* A live migration and blkfront_resume: the front end starts again with   *)
(* another back end, which may be ready by now, whatever the last one was  *)
(* doing.  Threads that wait for an unplug go on waiting, and the new      *)
(* watch fires.                                                            *)
Suspended == IF connected = "connected" THEN "suspended" ELSE "disconnected"
Migrate ==
    /\ device = "bound" /\ left.migrations > 0 /\ (Settled \/ May("hasty"))
    /\ \/ /\ back' = "Initialising" /\ state' = "Initialising" /\ connected' = Suspended
          /\ Uses(drvdata /\ InfoLive)
       \/ /\ back' = "InitWait"
          /\ state' = IF Suspended = "suspended" THEN "Connected" ELSE "Initialised"
          /\ connected' = IF Suspended = "suspended" THEN "connected" ELSE Suspended
          /\ Uses(drvdata /\ InfoLive /\ (Suspended = "suspended" => gd))
       \/ /\ back' = "InitWait" /\ May("refuse")
          /\ state' = "Closing" /\ connected' = "disconnected"
          /\ Uses(drvdata /\ InfoLive)
    /\ events' = 1
    /\ left' = [left EXCEPT !.migrations = @ - 1]
    /\ UNCHANGED <<info, dev, disk, threads>>

(* Resumed where it was: the old back end still maps the ring, and         *)
(* blkfront_resume leaves everything as it is.                             *)
ResumeInPlace ==
    /\ device = "bound" /\ left.migrations > 0
    /\ back \in {"Connected", "Closing"} /\ state # "Closed"
    /\ Uses(drvdata /\ InfoLive)
    /\ state' = "Initialising" /\ events' = 1
    /\ left' = [left EXCEPT !.migrations = @ - 1]
    /\ UNCHANGED <<info, dev, disk, back, connected, threads>>

Tools == BackendReady \/ BackendConnect \/ Unplug \/ BackendClosed \/ Delete \/ Migrate \/ ResumeInPlace

Next == ~bug /\ (Xenwatch \/ BlockLayer \/ Closing \/ Tools)

Spec == Init /\ [][Next]_vars

--------------------------------------------------------------------------------
(* Every variable has its type. *)
TypeOK ==
    /\ info \in {"live", "freed"} /\ {drvdata, private_data, gd, xbdev, bug} \subseteq BOOLEAN
    /\ device \in {"bound", "leaving", "bdev", "gone"}
    /\ connected \in {"disconnected", "connected", "suspended"}
    /\ users \in Nat /\ openers \in Nat /\ rel \in {"none", "mutex", "gone"}
    /\ \A t \in Threads : pc[t] \in {"idle", "start", "wait", "state", "lock", "bdev"}

(* Nothing is used after it is gone: the info that closing, remove, open   *)
(* and release work on, the device closing reports to, the disk a          *)
(* reconnection sets up.  And whatever leads to info leads to a live one,  *)
(* wherever somebody can still come from: xenwatch, a process with the     *)
(* disk open or about to open it, a thread.                                *)
InfoReachable ==
    \/ InfoLive
    \/ /\ ~drvdata \/ device \in {"bdev", "gone"}
       /\ openers > 0 \/ gd \/ found > 0 => ~private_data
       /\ rel = "none" /\ Quiet
NothingStale == TypeOK /\ ~bug /\ InfoReachable

(* A disk somebody has open is not taken away by an unplug, and the front  *)
(* end says Closed only when it is gone for good.                          *)
ClosedUnused ==
    /\ state = "Closed" => ~gd /\ openers = 0
    /\ openers > 0 /\ xbdev => gd

(* When the device is gone and nobody has the disk open any more, info is  *)
(* freed ("If the bdev isn't closed yet, we let release take care of it"). *)
NothingLeaks ==
    device = "gone" /\ openers = 0 /\ rel = "none" => ~InfoLive /\ ~gd
================================================================================
