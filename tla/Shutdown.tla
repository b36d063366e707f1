-------------------------------- MODULE Shutdown -------------------------------
(***************************************************************************)
(* How the guest obeys control/shutdown and the suspend event channel:     *)
(* reboot.c over machine_reboot.c.  Two contexts switch shutting_down with *)
(* compare-and-exchange, the callback of the watch in the xenwatch thread  *)
(* and the interrupt of the event channel; a work item starts a thread     *)
(* that suspends or powers off; that thread and the switchers settle with  *)
(* each other through shutting_down alone.                                 *)
(***************************************************************************)
EXTENDS Naturals, FiniteSets

CONSTANTS Tids,         \* threads the work item may start
          Written,      \* what the toolstack writes to control/shutdown
          MaxRequests,  \* bound: writes to control/shutdown
          MaxInts,      \* bound: events on the suspend channel
          MaxFailures   \* bound: threads that cannot be created

Switchers == {"watch", "irq"}
States    == {"INVALID", "POWEROFF", "SUSPEND", "RESUMING", "HALT"}
Idle      == {"INVALID", "RESUMING"}     \* a request is accepted in these only
Off       == {"POWEROFF", "HALT"}

ASSUME ShutdownAssumption ==
    /\ Written \subseteq {"poweroff", "halt", "suspend", "reboot"}
    /\ MaxRequests \in Nat /\ MaxInts \in Nat /\ MaxFailures \in Nat

VARIABLES shutting_down,
          node, events,      \* control/shutdown; its watch events pending
          handler, str,      \* where shutdown_handler is, what it read
          sw, old, new,      \* where switch_shutdown_state is, its variables
          work,              \* shutdown_work is pending
          pc,                \* where each thread is
          frozen,            \* xenbus is suspended: no transaction starts
          cancelled,         \* suspend_cancelled
          bug,               \* a BUG_ON has failed
          requests, ints, failures

handlerVars == <<node, events, handler, str>>
switchVars  == <<sw, old, new>>
threadVars  == <<work, pc, frozen, cancelled>>
boundVars   == <<requests, ints, failures>>
vars == <<shutting_down, handlerVars, switchVars, threadVars, bug, boundVars>>

Init ==
    /\ shutting_down = "INVALID" /\ node = "" /\ events = 1
    /\ handler = "idle" /\ str = ""
    /\ sw = [s \in Switchers |-> "idle"]
    /\ old = [s \in Switchers |-> "INVALID"] /\ new = [s \in Switchers |-> "INVALID"]
    /\ work = FALSE /\ pc = [t \in Tids |-> "none"] /\ frozen = FALSE /\ cancelled = FALSE
    /\ bug = FALSE /\ requests = 0 /\ ints = 0 /\ failures = 0

--------------------------------------------------------------------------------
(* The toolstack asks for something. *)
Request(r) ==
    /\ requests < MaxRequests
    /\ requests' = requests + 1
    /\ node' = r /\ events' = events + 1
    /\ UNCHANGED <<shutting_down, handler, str, switchVars, threadVars, bug, ints, failures>>

(* Seeded fault: the xenwatch thread takes an event from an empty list.    *)
HandlerBeginAlways ==
    /\ handler = "idle" /\ sw["watch"] = "idle"
    /\ events' = events - 1
    /\ handler' = IF shutting_down \in Idle THEN "start" ELSE "idle"
    /\ UNCHANGED <<shutting_down, node, str, switchVars, threadVars, bug, boundVars>>

(* shutdown_handler is called for an event. *)
HandlerBegin ==
    /\ handler = "idle" /\ sw["watch"] = "idle" /\ events > 0
    /\ events' = events - 1
    /\ handler' = IF shutting_down \in Idle THEN "start" ELSE "idle"
    /\ UNCHANGED <<shutting_down, node, str, switchVars, threadVars, bug, boundVars>>

(* Its transaction starts or is refused, ... *)
HandlerStart ==
    /\ handler = "start" /\ ~frozen
    /\ handler' \in {"read", "idle"}
    /\ UNCHANGED <<shutting_down, node, events, str, switchVars, threadVars, bug, boundVars>>

(* ... the request is read, an empty one left, ... *)
HandlerRead ==
    /\ handler = "read"
    /\ str' = node
    /\ handler' = IF node = "" THEN "idle" ELSE "commit"
    /\ UNCHANGED <<shutting_down, node, events, switchVars, threadVars, bug, boundVars>>

(* ... and taken, unless it was written meanwhile (EAGAIN).                *)
HandlerCommit ==
    /\ handler = "commit"
    /\ IF node # str
       THEN handler' = "start" /\ UNCHANGED <<node, events, switchVars>>
       ELSE /\ node' = "" /\ events' = events + 1
            /\ handler' = "idle"
            /\ IF str = "reboot"               \* ctrl_alt_del: no state of ours
               THEN UNCHANGED switchVars
               ELSE /\ sw' = [sw EXCEPT !["watch"] = "loop"]
                    /\ old' = [old EXCEPT !["watch"] = "INVALID"]
                    /\ new' = [new EXCEPT !["watch"] =
                                 CASE str = "poweroff" -> "POWEROFF"
                                   [] str = "halt" -> "HALT"
                                   [] OTHER -> "SUSPEND"]
    /\ UNCHANGED <<shutting_down, str, threadVars, bug, boundVars>>

(* suspend_int *)
SuspendInt ==
    /\ ints < MaxInts /\ sw["irq"] = "idle"
    /\ ints' = ints + 1
    /\ sw' = [sw EXCEPT !["irq"] = "loop"]
    /\ old' = [old EXCEPT !["irq"] = "INVALID"]
    /\ new' = [new EXCEPT !["irq"] = "SUSPEND"]
    /\ UNCHANGED <<shutting_down, handlerVars, threadVars, bug, requests, failures>>

(* Seeded fault: a request overrides one that is active. *)
SwitchAnyway(s) ==
    /\ sw[s] = "loop"
    /\ IF shutting_down = old[s]
       THEN /\ shutting_down' = new[s]
            /\ sw' = [sw EXCEPT ![s] = IF old[s] = "INVALID" THEN "kick" ELSE "idle"]
            /\ UNCHANGED old
       ELSE /\ old' = [old EXCEPT ![s] = shutting_down]
            /\ UNCHANGED <<shutting_down, sw>>
    /\ UNCHANGED <<handlerVars, new, threadVars, bug, boundVars>>

(* Seeded fault: the work is kicked off whatever the state was. *)
SwitchKicks(s) ==
    /\ sw[s] = "loop"
    /\ IF old[s] \notin Idle
       THEN sw' = [sw EXCEPT ![s] = "idle"] /\ UNCHANGED <<shutting_down, old>>
       ELSE IF shutting_down = old[s]
       THEN /\ shutting_down' = new[s]
            /\ sw' = [sw EXCEPT ![s] = "kick"]
            /\ UNCHANGED old
       ELSE /\ old' = [old EXCEPT ![s] = shutting_down]
            /\ UNCHANGED <<shutting_down, sw>>
    /\ UNCHANGED <<handlerVars, new, threadVars, bug, boundVars>>

(* One turn of the loop of switch_shutdown_state: a cmpxchg, the state it  *)
(* met kept for the next turn.                                             *)
Switch(s) ==
    /\ sw[s] = "loop"
    /\ IF old[s] \notin Idle
       THEN sw' = [sw EXCEPT ![s] = "idle"] /\ UNCHANGED <<shutting_down, old>>
       ELSE IF shutting_down = old[s]
       THEN /\ shutting_down' = new[s]
            /\ sw' = [sw EXCEPT ![s] = IF old[s] = "INVALID" THEN "kick" ELSE "idle"]
            /\ UNCHANGED old
       ELSE /\ old' = [old EXCEPT ![s] = shutting_down]
            /\ UNCHANGED <<shutting_down, sw>>
    /\ UNCHANGED <<handlerVars, new, threadVars, bug, boundVars>>

(* ... and its schedule_delayed_work. *)
Kick(s) ==
    /\ sw[s] = "kick"
    /\ sw' = [sw EXCEPT ![s] = "idle"]
    /\ work' = TRUE
    /\ UNCHANGED <<shutting_down, handlerVars, old, new, pc, frozen, cancelled, bug, boundVars>>

--------------------------------------------------------------------------------
(* Seeded fault: the work is not scheduled again when no thread is made.   *)
WorkOnce ==
    /\ work
    /\ \/ \E t \in Tids :
            /\ pc[t] = "none"
            /\ pc' = [pc EXCEPT ![t] = IF shutting_down = "SUSPEND" THEN "pin" ELSE "process"]
            /\ work' = FALSE
            /\ UNCHANGED failures
       \/ /\ failures < MaxFailures
          /\ failures' = failures + 1
          /\ work' = FALSE
          /\ UNCHANGED pc
    /\ UNCHANGED <<shutting_down, handlerVars, switchVars, frozen, cancelled, bug, requests, ints>>

(* __shutdown_handler: the thread is created, or the work tried again.     *)
Work ==
    /\ work
    /\ \/ \E t \in Tids :
            /\ pc[t] = "none"
            /\ pc' = [pc EXCEPT ![t] = IF shutting_down = "SUSPEND" THEN "pin" ELSE "process"]
            /\ work' = FALSE
            /\ UNCHANGED failures
       \/ /\ failures < MaxFailures
          /\ failures' = failures + 1
          /\ UNCHANGED <<pc, work>>
    /\ UNCHANGED <<shutting_down, handlerVars, switchVars, frozen, cancelled, bug, requests, ints>>

(* shutdown_process: poweroff is called ... *)
Process(t) ==
    /\ pc[t] = "process"
    /\ pc' = [pc EXCEPT ![t] = "leave"]
    /\ UNCHANGED <<shutting_down, handlerVars, switchVars, work, frozen, cancelled, bug, boundVars>>

(* ... and another request may come. *)
Leave(t) ==
    /\ pc[t] = "leave"
    /\ pc' = [pc EXCEPT ![t] = "none"]
    /\ shutting_down' = "INVALID"
    /\ UNCHANGED <<handlerVars, switchVars, work, frozen, cancelled, bug, boundVars>>

(* xen_suspend: the thread moves to CPU 0, or fails. *)
Pin(t) ==
    /\ pc[t] = "pin"
    /\ \/ pc' = [pc EXCEPT ![t] = "suspend"] /\ UNCHANGED <<shutting_down, bug>>
       \/ /\ pc' = [pc EXCEPT ![t] = "none"]
          /\ shutting_down' = "INVALID"
          /\ bug' = (bug \/ shutting_down # "SUSPEND")
    /\ UNCHANGED <<handlerVars, switchVars, work, frozen, cancelled, boundVars>>

(* __xen_suspend: xenbus_suspend waits for the transaction of the handler. *)
Freeze(t) ==
    /\ pc[t] = "suspend" /\ handler \notin {"read", "commit"}
    /\ pc' = [pc EXCEPT ![t] = "frozen"]
    /\ frozen' = TRUE
    /\ UNCHANGED <<shutting_down, handlerVars, switchVars, work, cancelled, bug, boundVars>>

(* All CPUs but this one spin, no interrupt is being handled: the guest is *)
(* saved, and xen_resume_notifier called. *)
Hypercall(t) ==
    /\ pc[t] = "frozen" /\ sw["irq"] = "idle"
    /\ pc' = [pc EXCEPT ![t] = "thaw"]
    /\ bug' = (bug \/ shutting_down # "SUSPEND")
    /\ shutting_down' = "RESUMING"
    /\ cancelled' \in BOOLEAN
    /\ UNCHANGED <<handlerVars, switchVars, work, frozen, boundVars>>

(* xenbus_resume, or xenbus_suspend_cancel; a watch registered again fires *)
Thaw(t) ==
    /\ pc[t] = "thaw"
    /\ pc' = [pc EXCEPT ![t] = "exchange"]
    /\ frozen' = FALSE
    /\ events' = IF cancelled THEN events ELSE events + 1
    /\ UNCHANGED <<shutting_down, node, handler, str, switchVars, work, cancelled, bug, boundVars>>

(* Seeded fault: the state is set, not exchanged. *)
ExchangeBlind(t) ==
    /\ pc[t] = "exchange"
    /\ pc' = [pc EXCEPT ![t] = "none"]
    /\ shutting_down' = "INVALID"
    /\ UNCHANGED <<handlerVars, switchVars, work, frozen, cancelled, bug, boundVars>>

(* The cmpxchg that ends a suspend: nothing was asked meanwhile, or        *)
(* another suspend was, or something else, left to the work.               *)
Exchange(t) ==
    /\ pc[t] = "exchange"
    /\ \/ /\ shutting_down = "RESUMING"
          /\ shutting_down' = "INVALID"
          /\ pc' = [pc EXCEPT ![t] = "none"]
          /\ UNCHANGED <<work, bug>>
       \/ /\ shutting_down = "SUSPEND"
          /\ pc' = [pc EXCEPT ![t] = "suspend"]
          /\ UNCHANGED <<shutting_down, work, bug>>
       \/ /\ shutting_down \notin {"RESUMING", "SUSPEND"}
          /\ pc' = [pc EXCEPT ![t] = "none"]
          /\ work' = (work \/ shutting_down # "INVALID")
          /\ bug' = (bug \/ shutting_down = "INVALID")
          /\ UNCHANGED shutting_down
    /\ UNCHANGED <<handlerVars, switchVars, frozen, cancelled, boundVars>>

--------------------------------------------------------------------------------
Handler == HandlerBegin \/ HandlerStart \/ HandlerRead \/ HandlerCommit

Thread(t) ==
    \/ Process(t) \/ Leave(t)
    \/ Pin(t) \/ Freeze(t) \/ Hypercall(t) \/ Thaw(t) \/ Exchange(t)

Next ==
    \/ \E r \in Written : Request(r)
    \/ SuspendInt
    \/ Handler
    \/ \E s \in Switchers : Switch(s) \/ Kick(s)
    \/ Work
    \/ \E t \in Tids : Thread(t)

Spec == Init /\ [][Next]_vars

(* Threads, the workqueue and interrupts run. *)
Fairness ==
    /\ WF_vars(Handler) /\ WF_vars(Work)
    /\ \A s \in Switchers : WF_vars(Switch(s) \/ Kick(s))
    /\ \A t \in Tids : WF_vars(Thread(t))

FairSpec == Spec /\ Fairness

--------------------------------------------------------------------------------
FlagsOK == work \in BOOLEAN /\ frozen \in BOOLEAN /\ cancelled \in BOOLEAN /\ bug \in BOOLEAN

CountsOK == /\ events \in Nat
            /\ requests \in 0..MaxRequests /\ ints \in 0..MaxInts /\ failures \in 0..MaxFailures

ShapesOK ==
    /\ shutting_down \in States
    /\ node \in Written \cup {""} /\ str \in Written \cup {""}
    /\ handler \in {"idle", "start", "read", "commit"}
    /\ sw \in [Switchers -> {"idle", "loop", "kick"}]
    /\ old \in [Switchers -> States] /\ new \in [Switchers -> States]
    /\ pc \in [Tids -> {"none", "process", "leave", "pin", "suspend", "frozen", "thaw", "exchange"}]

(* The types; no watch event is taken that is not there.                   *)
TypeOK == FlagsOK /\ CountsOK /\ ShapesOK

(* None of the BUG_ONs at reboot.c:75, 104, 116 and 144 fails.             *)
NoBug == ~bug

Live    == {t \in Tids : pc[t] # "none"}
Kicking == {s \in Switchers : sw[s] = "kick"}

(* A state other than INVALID is somebody's to carry out, and one party's  *)
(* only: a switcher about to schedule the work, the work, or one thread.   *)
OneAgent ==
    /\ \A s \in Kicking : Kicking = {s} /\ ~work /\ Live = {}
    /\ work => Live = {}
    /\ \A t \in Live : Live = {t}
    /\ shutting_down = "INVALID" <=> (Kicking = {} /\ ~work /\ Live = {})

(* What each party knows of the state it carries out.                      *)
StateKept ==
    /\ handler # "idle" => sw["watch"] = "idle"
    /\ \A s \in Switchers : sw[s] = "loop" => new[s] \in Off \cup {"SUSPEND"}
    /\ work \/ Kicking # {} => shutting_down \in Off \cup {"SUSPEND"}
    /\ \A t \in Tids : /\ pc[t] \in {"pin", "suspend", "frozen"} => shutting_down = "SUSPEND"
                       /\ pc[t] \in {"process", "leave"} => shutting_down \in Off
    /\ shutting_down = "RESUMING" => \E t \in Tids : pc[t] \in {"thaw", "exchange"}

(* An accepted poweroff or halt is not overwritten: only the thread that   *)
(* has called poweroff ends that state. *)
OffHeeded ==
    [][(shutting_down \in Off /\ shutting_down' # shutting_down)
          => (\E t \in Tids : pc[t] = "leave")]_vars

(* The guest can be asked again: whatever it was doing ends.               *)
ReadyAgain == []<>(shutting_down = "INVALID")
================================================================================
