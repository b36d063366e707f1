--------------------------------- MODULE Balloon -------------------------------
(***************************************************************************)
(* The balloon driver, xen-balloon/balloon.c and sysfs.c, as the module of *)
(* a fully virtualised guest is built (no CONFIG_XEN, no CONFIG_XEN_BACKEND*)
(* and no driver pages: the network front end copies).                     *)
(*                                                                         *)
(* Three parties: the watch on memory/target, a process that writes        *)
(* /proc/xen/balloon or the file in sysfs, and the worker.  The first two  *)
(* run balloon_set_new_target without a lock, against each other and       *)
(* against the worker; the worker changes the list and then current_pages, *)
(* under a lock that current_target does not take.  Every access to what   *)
(* is shared is a step of its own.  Pages are counted, not told apart: low *)
(* and high memory make one list.                                          *)
(***************************************************************************)
EXTENDS Integers

CONSTANTS Total,        \* pages of the guest at boot, all of them populated
          MinPages,     \* the minimum balloon_minimum_target has for that size
          Batch,        \* entries of frame_list
          Wants,        \* values the host and processes may ask for
          Builds,       \* subset of {"plain", "opensuse"}: is there a retry timer
          Loads         \* environments: [host, process, refusals]

ASSUME BalloonAssumption ==
    /\ Total \in Nat /\ MinPages \in Nat /\ Batch \in Nat \ {0}
    /\ Wants \subseteq Nat
    /\ Builds \subseteq {"plain", "opensuse"}
    /\ \A l \in Loads : {l.host, l.process, l.refusals} \subseteq Nat

VARIABLES current,      \* bs.current_pages
          list,         \* bs.balloon_low + bs.balloon_high, length of ballooned_pages
          target,       \* bs.target_pages
          flag,         \* the target kept is not the one asked for
          by,           \* who set target last (seen by the properties only)
          key,          \* memory/target in xenstore, in pages
          changes,      \* changes of it the watch has not been called for
          setter,       \* the two callers of balloon_set_new_target
          queued,       \* balloon_worker is queued
          wk,           \* where balloon_process is
          credit,       \* its credit, then the pages of this batch
          sleep,        \* its need_sleep
          timer,        \* balloon_timer is armed
          build,        \* which build of the driver this is
          left          \* what the environment may still do

asked == <<target, flag, by, setter>>
store == <<key, changes>>
pages == <<current, list>>
worker == <<wk, credit, sleep>>
balloonVars == <<asked, store, pages, worker, queued, timer, build, left>>

Least(a, b) == IF a <= b THEN a ELSE b
Most(a, b) == IF a >= b THEN a ELSE b

Setters == {"watch", "process"}
Unset == [at |-> "idle", want |-> 0, kept |-> 0]
Asked(v) == [at |-> "floor", want |-> v, kept |-> 0]

(* balloon_init, and the event a new watch gets at once. *)
BalloonInit ==
    /\ current = Total /\ list = 0 /\ target = Total /\ flag = FALSE /\ by = "watch"
    /\ key = Total /\ changes = 1
    /\ setter = [s \in Setters |-> Unset]
    /\ queued = FALSE /\ wk = "idle" /\ credit = 0 /\ sleep = FALSE /\ timer = FALSE
    /\ build \in Builds /\ left \in Loads

(* The target, no larger than what there is.  It is read without the lock: *)
(* while the worker has changed the list and not yet current_pages the sum *)
(* is not that of any moment at which the lock is free.                    *)
CurrentTarget == Least(target, current + list)

(* "Don't enforce growth". *)
MinimumTarget == Least(MinPages, CurrentTarget)

-----------------------------------------------------------------------------
(* Asking for a size.                                                      *)

HostWrites(v) ==
    /\ left.host > 0 /\ left' = [left EXCEPT !.host = @ - 1]
    /\ key' = v /\ changes' = changes + 1
    /\ UNCHANGED <<asked, pages, worker, queued, timer, build>>

(* watch_target reads the key as it is now, not as it was at the event. *)
WatchTarget ==
    /\ changes > 0 /\ changes' = changes - 1
    /\ setter["watch"].at = "idle"
    /\ setter' = [setter EXCEPT !["watch"] = Asked(key)]
    /\ UNCHANGED <<target, flag, by, key, pages, worker, queued, timer, build, left>>

(* balloon_write, and the two store functions of sysfs. *)
ProcessWrites(v) ==
    /\ left.process > 0 /\ left' = [left EXCEPT !.process = @ - 1]
    /\ setter["process"].at = "idle"
    /\ setter' = [setter EXCEPT !["process"] = Asked(v)]
    /\ UNCHANGED <<target, flag, by, store, pages, worker, queued, timer, build>>

(* Seeded fault: the minimum is forgotten. *)
SetFloorNone(s) ==
    /\ setter[s].at = "floor"
    /\ setter' = [setter EXCEPT ![s].at = "target", ![s].kept = setter[s].want]
    /\ UNCHANGED <<target, flag, by, store, pages, worker, queued, timer, build, left>>

(* balloon_set_new_target, first part: the minimum. *)
SetFloor(s) ==
    /\ setter[s].at = "floor"
    /\ setter' = [setter EXCEPT ![s].at = "target", ![s].kept = Most(setter[s].want, MinimumTarget)]
    /\ UNCHANGED <<target, flag, by, store, pages, worker, queued, timer, build, left>>

(* Second part: target_pages. *)
SetTarget(s) ==
    /\ setter[s].at = "target"
    /\ target' = setter[s].kept /\ by' = s
    /\ setter' = [setter EXCEPT ![s].at = "flag"]
    /\ UNCHANGED <<flag, store, pages, worker, queued, timer, build, left>>

(* Third part: flag.  The compiler compares what it has just stored. *)
SetFlag(s) ==
    /\ setter[s].at = "flag"
    /\ flag' = (setter[s].kept # setter[s].want)
    /\ setter' = [setter EXCEPT ![s].at = "schedule"]
    /\ UNCHANGED <<target, by, store, pages, worker, queued, timer, build, left>>

(* Last part: schedule_work. *)
Schedule(s) ==
    /\ setter[s].at = "schedule"
    /\ queued' = TRUE
    /\ setter' = [setter EXCEPT ![s] = Unset]
    /\ UNCHANGED <<target, flag, by, store, pages, worker, timer, build, left>>

-----------------------------------------------------------------------------
(* balloon_process, never two at a time.                                   *)

WorkStart ==
    /\ queued /\ queued' = FALSE
    /\ wk = "idle"
    /\ wk' = IF CurrentTarget = current THEN "idle" ELSE "credit"
    /\ UNCHANGED <<asked, store, pages, credit, sleep, timer, build, left>>

WorkCredit ==
    /\ wk = "credit"
    /\ credit' = CurrentTarget - current
    /\ wk' = IF credit' > 0 THEN "grow" ELSE IF credit' < 0 THEN "shrink" ELSE "end"
    /\ UNCHANGED <<asked, store, pages, sleep, queued, timer, build, left>>

(* What was asked for and what there was of it: all, or less when the      *)
(* hypervisor has no memory to give or alloc_page fails.                   *)
Done(n, got) ==
    /\ got = n \/ (got \in 0 .. n - 1 /\ left.refusals > 0)
    /\ left' = IF got = n THEN left ELSE [left EXCEPT !.refusals = @ - 1]
    /\ credit' = got /\ sleep' = (got # n)

(* increase_reservation: pages leave the list, BUG_ON(page == NULL) when   *)
(* there are fewer than frame_list is to hold.                             *)
Grow ==
    /\ wk = "grow"
    /\ \E got \in 0 .. Batch : /\ Done(Least(credit, Batch), got)
                               /\ list' = list - got
    /\ wk' = IF Least(credit, Batch) > list THEN "bug" ELSE "grown"
    /\ UNCHANGED <<asked, store, current, queued, timer, build>>

(* decrease_reservation: pages are allocated, scrubbed and put on the list. *)
Shrink ==
    /\ wk = "shrink"
    /\ \E got \in 0 .. Batch : /\ Done(Least(-credit, Batch), got)
                               /\ list' = list + got
    /\ wk' = "shrunk"
    /\ UNCHANGED <<asked, store, current, queued, timer, build>>

(* Seeded fault: the whole batch is accounted for, not what Xen gave of it. *)
AccountBatch ==
    /\ wk \in {"grown", "shrunk"}
    /\ current' = IF wk = "shrunk" THEN current - credit
                  ELSE IF sleep THEN current + credit + 1 ELSE current + credit
    /\ wk' = IF sleep THEN "end" ELSE "credit"
    /\ UNCHANGED <<asked, store, list, credit, sleep, queued, timer, build, left>>

(* Still under the lock: current_pages. *)
Account ==
    /\ wk \in {"grown", "shrunk"}
    /\ current' = IF wk = "grown" THEN current + credit ELSE current - credit
    /\ wk' = IF sleep THEN "end" ELSE "credit"
    /\ UNCHANGED <<asked, store, list, credit, sleep, queued, timer, build, left>>

(* Seeded fault: only a target that was not the one asked for is reported. *)
WorkEndFlag ==
    /\ wk = "end"
    /\ wk' = IF flag THEN "write" ELSE "idle"
    /\ timer' = (timer \/ (wk' = "write" /\ build = "opensuse"))
    /\ credit' = 0 /\ sleep' = FALSE
    /\ UNCHANGED <<asked, store, pages, queued, build, left>>

(* What could not be done, or was not what was asked for, goes to the host. *)
WorkEnd ==
    /\ wk = "end"
    /\ wk' = IF CurrentTarget # current \/ flag THEN "write" ELSE "idle"
    /\ timer' = (timer \/ (wk' = "write" /\ build = "opensuse"))
    /\ credit' = 0 /\ sleep' = FALSE
    /\ UNCHANGED <<asked, store, pages, queued, build, left>>

(* xenbus_write of memory/target: the watch sees it like any other write. *)
WorkWrite ==
    /\ wk = "write" /\ wk' = "idle"
    /\ key' = current /\ changes' = changes + 1
    /\ UNCHANGED <<asked, pages, credit, sleep, queued, timer, build, left>>

(* balloon_alarm *)
Alarm ==
    /\ timer /\ timer' = FALSE
    /\ queued' = TRUE
    /\ UNCHANGED <<asked, store, pages, worker, build, left>>

-----------------------------------------------------------------------------
Setting(s) == SetFloor(s) \/ SetTarget(s) \/ SetFlag(s) \/ Schedule(s)
Working == WorkStart \/ WorkCredit \/ Grow \/ Shrink \/ Account \/ WorkEnd \/ WorkWrite

BalloonNext ==
    \/ \E v \in Wants : HostWrites(v) \/ ProcessWrites(v)
    \/ WatchTarget \/ Alarm \/ Working
    \/ \E s \in Setters : Setting(s)

BalloonSpec == BalloonInit /\ [][BalloonNext]_balloonVars

(* Threads of the kernel go on, timers fire. *)
BalloonFairness ==
    /\ WF_balloonVars(WatchTarget) /\ WF_balloonVars(Alarm) /\ WF_balloonVars(Working)
    /\ \A s \in Setters : WF_balloonVars(Setting(s))

FairBalloonSpec == BalloonSpec /\ BalloonFairness

-----------------------------------------------------------------------------
(* The pages of the guest and those in the balloon are together those the  *)
(* guest was started with, whatever Xen refuses, except between the two    *)
(* updates of a batch; a batch is never larger than the list it is taken   *)
(* from (BUG_ON(page == NULL) in increase_reservation).                    *)
BalloonTypeOK ==
    /\ current \in 0 .. Total /\ list \in 0 .. Total /\ target \in Nat /\ flag \in BOOLEAN
    /\ by \in Setters /\ key \in Nat /\ changes \in Nat
    /\ setter \in [Setters -> [at : {"idle", "floor", "target", "flag", "schedule"},
                               want : Nat, kept : Nat]]
    /\ queued \in BOOLEAN /\ sleep \in BOOLEAN /\ timer \in BOOLEAN /\ build \in Builds
    /\ wk \in {"idle", "credit", "grow", "grown", "shrink", "shrunk", "end", "write"}
    /\ credit \in -Total .. Total
    /\ wk \notin {"grown", "shrunk"} => current + list = Total
    /\ wk = "grown" => current + list = Total - credit
    /\ wk = "shrunk" => current + list = Total + credit

(* A guest that starts with less than its minimum is not made to grow.     *)
Floor == Least(MinPages, Total)

(* The guest never balloons below its minimum, although the minimum is     *)
(* worked out from figures that are being changed, and every target that   *)
(* is kept respects it ("No need for lock" in balloon_set_new_target).     *)
FloorKept == Floor <= current /\ Floor <= target

(* Nothing is under way and nothing is queued. *)
Quiet ==
    /\ changes = 0 /\ ~queued /\ ~timer /\ wk = "idle"
    /\ \A s \in Setters : setter[s].at = "idle"

(* The size is the one the target calls for, and a target the watch set is *)
(* that of the key as it now is, or the minimum when the key is below it.  *)
Settled ==
    /\ Quiet
    /\ current = CurrentTarget
    /\ by = "watch" => target = key \/ (key < target /\ target <= MinPages)

(* The target stays as it is while the worker, done with its loop, has not *)
(* yet compared sizes again.                                               *)
TargetLeftAlone == wk = "end" => target' = target

(* When nobody asks for anything more and Xen and the page allocator stop  *)
(* refusing, the driver comes to rest at its target with the last value of *)
(* the key heard ("we will recover from these in time"): no request is     *)
(* lost between setters, worker and the worker's own writes to the key.    *)
(* The premiss: a target that changes in that one place in every turn of   *)
(* the worker makes it send its size to the host again and again.          *)
Reached == <>[][TargetLeftAlone]_balloonVars => <>[]Settled
=============================================================================
