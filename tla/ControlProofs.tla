------------------------------ MODULE ControlProofs ----------------------------
(***************************************************************************)
(* Proofs about what the toolstack controls through xenstore: Shutdown,    *)
(* for any threads, requests, events and failures, and Balloon, for any    *)
(* size of guest, minimum, batch and any set of requests.                  *)
(*                                                                         *)
(* OneAgent is not inductive: that the state leaves INVALID for one party  *)
(* only needs what each party knows of it (StateKept), and the loop of     *)
(* switch_shutdown_state finds RESUMING only while a thread still is to    *)
(* exchange it.                                                            *)
(*                                                                         *)
(* FloorKept is not either.  The worker alone changes the list and         *)
(* current_pages, so the credit it has worked out stays within the list    *)
(* (when growing) and above the minimum (when shrinking) until it has used *)
(* it; and a setter that reads the sum in the middle of a batch reads at   *)
(* least current_pages, which is at least the minimum, so what it keeps is *)
(* too.                                                                    *)
(***************************************************************************)
EXTENDS Shutdown, Balloon, TLAPS

--------------------------------------------------------------------------------
(* Shutdown. *)

IInv == TypeOK /\ NoBug /\ OneAgent /\ StateKept

LEMMA InitInv == Init => IInv
<1>. SUFFICES ASSUME Init PROVE IInv
  OBVIOUS
<1>1. ShapesOK
  BY DEF Init, ShapesOK, Switchers, States
<1>0. CountsOK
  <2>1. events = 1 /\ requests = 0 /\ ints = 0 /\ failures = 0
    BY Zenon DEF Init
  <2>. QED  BY <2>1, ShutdownAssumption DEF CountsOK
<1>2. FlagsOK
  BY Zenon DEF Init, FlagsOK
<1>3. Kicking = {} /\ Live = {}
  BY DEF Init, Kicking, Live
<1>4. NoBug /\ OneAgent
  BY <1>3 DEF Init, NoBug, OneAgent
<1>5. StateKept
  BY <1>3 DEF Init, StateKept, Switchers
<1>. QED  BY <1>0, <1>1, <1>2, <1>4, <1>5 DEF IInv, TypeOK

(* The counters: a handler takes an event that is there.                   *)
LEMMA CountStep == CountsOK /\ Next => CountsOK'
<1>. SUFFICES ASSUME CountsOK, Next PROVE CountsOK'
  OBVIOUS
<1>1. CASE \E r \in Written : Request(r)
  <2>1. requests < MaxRequests /\ requests' = requests + 1 /\ events' = events + 1
        /\ UNCHANGED <<ints, failures>>
    BY <1>1, Zenon DEF Request
  <2>. QED  BY <2>1, ShutdownAssumption DEF CountsOK
<1>2. CASE SuspendInt
  <2>1. ints < MaxInts /\ ints' = ints + 1 /\ UNCHANGED <<events, requests, failures>>
    BY <1>2, Zenon DEF SuspendInt, handlerVars
  <2>. QED  BY <2>1, ShutdownAssumption DEF CountsOK
<1>3. CASE HandlerBegin
  <2>1. events > 0 /\ events' = events - 1 /\ UNCHANGED boundVars
    BY <1>3, Zenon DEF HandlerBegin
  <2>. QED  BY <2>1 DEF CountsOK, boundVars
<1>4. CASE HandlerStart \/ HandlerRead \/ HandlerCommit
  <2>1. (events' = events \/ events' = events + 1) /\ UNCHANGED boundVars
    BY <1>4, Zenon DEF HandlerStart, HandlerRead, HandlerCommit
  <2>. QED  BY <2>1 DEF CountsOK, boundVars
<1>5. CASE \E s \in Switchers : Switch(s) \/ Kick(s)
  <2>1. UNCHANGED <<events, boundVars>>
    BY <1>5, Zenon DEF Switch, Kick, handlerVars
  <2>. QED  BY <2>1 DEF CountsOK, boundVars
<1>6. CASE Work
  <2>1. UNCHANGED <<events, requests, ints>>
    BY <1>6, Zenon DEF Work, handlerVars
  <2>2. failures' = failures \/ (failures < MaxFailures /\ failures' = failures + 1)
    BY <1>6, Zenon DEF Work
  <2>. QED  BY <2>1, <2>2, ShutdownAssumption DEF CountsOK
<1>7. CASE \E t \in Tids : Thread(t)
  <2>1. (events' = events \/ events' = events + 1) /\ UNCHANGED boundVars
    BY <1>7, Zenon DEF Thread, Process, Leave, Pin, Freeze, Hypercall, Thaw, Exchange, handlerVars
  <2>. QED  BY <2>1 DEF CountsOK, boundVars
<1>. QED  BY <1>1, <1>2, <1>3, <1>4, <1>5, <1>6, <1>7 DEF Next, Handler

(* The toolstack, the handler and the interrupt begin a switch at most.    *)
LEMMA ShapeOfAsking ==
  ASSUME ShapesOK,
         (\E r \in Written : Request(r)) \/ SuspendInt \/ Handler
  PROVE  ShapesOK'
<1>1. CASE \E r \in Written : Request(r)
  BY <1>1 DEF Request, ShapesOK, switchVars, threadVars
<1>2. CASE SuspendInt
  BY <1>2 DEF SuspendInt, ShapesOK, handlerVars, threadVars, Switchers, States
<1>3. CASE HandlerBegin
  BY <1>3 DEF HandlerBegin, ShapesOK, switchVars, threadVars
<1>4. CASE HandlerStart
  BY <1>4 DEF HandlerStart, ShapesOK, switchVars, threadVars
<1>5. CASE HandlerRead
  BY <1>5 DEF HandlerRead, ShapesOK, switchVars, threadVars
<1>6. CASE HandlerCommit
  <2>1. UNCHANGED <<shutting_down, str, pc>> /\ (node' = node \/ node' = "") /\ handler' \in {"start", "idle"}
    BY <1>6 DEF HandlerCommit, switchVars, threadVars
  <2>2. \/ UNCHANGED switchVars
        \/ /\ sw' = [sw EXCEPT !["watch"] = "loop"] /\ old' = [old EXCEPT !["watch"] = "INVALID"]
           /\ \E s \in States : new' = [new EXCEPT !["watch"] = s]
    BY <1>6 DEF HandlerCommit, States
  <2>3. /\ sw' \in [Switchers -> {"idle", "loop", "kick"}]
        /\ old' \in [Switchers -> States] /\ new' \in [Switchers -> States]
    <3>1. /\ sw \in [Switchers -> {"idle", "loop", "kick"}] /\ old \in [Switchers -> States]
          /\ new \in [Switchers -> States] /\ "INVALID" \in States
      BY DEF ShapesOK, States
    <3>2. CASE UNCHANGED switchVars
      BY <3>1, <3>2 DEF switchVars
    <3>3. CASE /\ sw' = [sw EXCEPT !["watch"] = "loop"] /\ old' = [old EXCEPT !["watch"] = "INVALID"]
               /\ \E s \in States : new' = [new EXCEPT !["watch"] = s]
      BY <3>1, <3>3
    <3>. QED  BY <2>2, <3>2, <3>3
  <2>. QED  BY <2>1, <2>3 DEF ShapesOK
<1>. QED  BY <1>1, <1>2, <1>3, <1>4, <1>5, <1>6 DEF Handler

LEMMA ShapeOfSwitching ==
  ASSUME ShapesOK, NEW s \in Switchers, Switch(s) \/ Kick(s)
  PROVE  ShapesOK'
<1>1. CASE Switch(s)
  <2>0. new[s] \in States /\ shutting_down \in States
    BY DEF ShapesOK
  <2>1. UNCHANGED <<node, str, handler, new, pc>>
    BY <1>1 DEF Switch, handlerVars, threadVars
  <2>2. /\ sw' = sw \/ sw' = [sw EXCEPT ![s] = "idle"] \/ sw' = [sw EXCEPT ![s] = "kick"]
        /\ shutting_down' = shutting_down \/ shutting_down' = new[s]
        /\ old' = old \/ old' = [old EXCEPT ![s] = shutting_down]
    BY <1>1 DEF Switch
  <2>3. shutting_down' \in States
    BY <2>0, <2>2 DEF States
  <2>4. sw' \in [Switchers -> {"idle", "loop", "kick"}]
    BY <2>2 DEF ShapesOK
  <2>5. old' \in [Switchers -> States]
    BY <2>2 DEF ShapesOK
  <2>. QED  BY <2>1, <2>3, <2>4, <2>5 DEF ShapesOK
<1>2. CASE Kick(s)
  BY <1>2 DEF Kick, ShapesOK, handlerVars
<1>. QED  BY <1>1, <1>2

LEMMA ShapeOfWork ==
  ASSUME ShapesOK, Work
  PROVE  ShapesOK'
  BY DEF Work, ShapesOK, handlerVars, switchVars

LEMMA ShapeOfThread ==
  ASSUME ShapesOK, NEW t \in Tids, Thread(t)
  PROVE  ShapesOK'
<1>1. CASE Process(t)
  BY <1>1 DEF Process, ShapesOK, handlerVars, switchVars
<1>2. CASE Leave(t)
  BY <1>2 DEF Leave, ShapesOK, handlerVars, switchVars, States
<1>3. CASE Pin(t)
  BY <1>3 DEF Pin, ShapesOK, handlerVars, switchVars, States
<1>4. CASE Freeze(t)
  BY <1>4 DEF Freeze, ShapesOK, handlerVars, switchVars
<1>5. CASE Hypercall(t)
  BY <1>5 DEF Hypercall, ShapesOK, handlerVars, switchVars, States
<1>6. CASE Thaw(t)
  BY <1>6 DEF Thaw, ShapesOK, switchVars
<1>7. CASE Exchange(t)
  BY <1>7 DEF Exchange, ShapesOK, handlerVars, switchVars, States
<1>. QED  BY <1>1, <1>2, <1>3, <1>4, <1>5, <1>6, <1>7 DEF Thread

LEMMA FlagStep == FlagsOK /\ Next => FlagsOK'
<1>. SUFFICES ASSUME FlagsOK, Next PROVE FlagsOK'
  OBVIOUS
<1>1. CASE (\E r \in Written : Request(r)) \/ SuspendInt \/ Handler \/ \E s \in Switchers : Switch(s)
  BY <1>1, Zenon DEF Request, SuspendInt, Handler, HandlerBegin, HandlerStart, HandlerRead,
     HandlerCommit, Switch, threadVars, FlagsOK
<1>2. CASE Work \/ \E s \in Switchers : Kick(s)
  BY <1>2, Zenon DEF Kick, Work, FlagsOK
<1>3. CASE \E t \in Tids : Process(t) \/ Leave(t) \/ Pin(t) \/ Freeze(t) \/ Hypercall(t) \/ Thaw(t)
  BY <1>3, Zenon DEF Process, Leave, Pin, Freeze, Hypercall, Thaw, FlagsOK
<1>4. CASE \E t \in Tids : Exchange(t)
  BY <1>4, Zenon DEF Exchange, FlagsOK
<1>. QED  BY <1>1, <1>2, <1>3, <1>4 DEF Next, Thread

LEMMA TypeStep == TypeOK /\ [Next]_vars => TypeOK'
<1>. SUFFICES ASSUME TypeOK, [Next]_vars PROVE TypeOK'
  OBVIOUS
<1>1. CASE Next
  <2>1. ShapesOK'
    BY <1>1, ShapeOfAsking, ShapeOfSwitching, ShapeOfWork, ShapeOfThread DEF Next, TypeOK
  <2>2. FlagsOK'
    BY <1>1, FlagStep DEF TypeOK
  <2>3. CountsOK'
    BY <1>1, CountStep DEF TypeOK
  <2>. QED  BY <2>1, <2>2, <2>3 DEF TypeOK
<1>2. CASE UNCHANGED vars
  <2>1. ShapesOK'
    BY <1>2 DEF vars, handlerVars, switchVars, threadVars, TypeOK, ShapesOK
  <2>2. FlagsOK'
    BY <1>2, Zenon DEF vars, threadVars, TypeOK, FlagsOK
  <2>3. CountsOK'
    BY <1>2, Zenon DEF vars, handlerVars, boundVars, TypeOK, CountsOK
  <2>. QED  BY <2>1, <2>2, <2>3 DEF TypeOK
<1>. QED  BY <1>1, <1>2

--------------------------------------------------------------------------------
(* What the safety of a state rests on. *)
Safe == NoBug /\ OneAgent /\ StateKept

(* A step that keeps the state, the work, the threads and who is kicking   *)
(* keeps it safe. *)
LEMMA SafeWhenQuiet ==
  ASSUME Safe, UNCHANGED <<shutting_down, work, pc, bug>>, Kicking' = Kicking,
         (handler # "idle" => sw["watch"] = "idle")',
         (\A s \in Switchers : sw[s] = "loop" => new[s] \in Off \cup {"SUSPEND"})'
  PROVE  Safe'
<1>1. Live' = Live
  BY DEF Live
<1>2. NoBug'
  BY DEF Safe, NoBug
<1>3. OneAgent'
  BY <1>1 DEF Safe, OneAgent
<1>4. StateKept'
  BY DEF Safe, StateKept
<1>. QED  BY <1>2, <1>3, <1>4 DEF Safe

LEMMA SafeAsking ==
  ASSUME TypeOK, Safe,
         (\E r \in Written : Request(r)) \/ SuspendInt \/ Handler
  PROVE  Safe'
<1>1. CASE UNCHANGED switchVars
  <2>1. UNCHANGED <<shutting_down, work, pc, bug>>
    BY DEF Request, SuspendInt, Handler, HandlerBegin, HandlerStart, HandlerRead, HandlerCommit,
           threadVars
  <2>2. Kicking' = Kicking
    BY <1>1 DEF Kicking, switchVars
  <2>3. handler' # "idle" => sw["watch"] = "idle"
    BY <1>1 DEF Request, SuspendInt, Handler, HandlerBegin, HandlerStart, HandlerRead, HandlerCommit,
           handlerVars, Safe, StateKept
  <2>. QED  BY <1>1, <2>1, <2>2, <2>3, SafeWhenQuiet DEF Safe, StateKept, switchVars
<1>2. CASE SuspendInt
  <2>1. UNCHANGED <<shutting_down, work, pc, bug>>
    BY <1>2 DEF SuspendInt, threadVars
  <2>2. Kicking' = Kicking
    BY <1>2 DEF Kicking, SuspendInt, TypeOK, ShapesOK
  <2>3. (handler # "idle" => sw["watch"] = "idle")'
    BY <1>2 DEF SuspendInt, handlerVars, Safe, StateKept, TypeOK, ShapesOK, Switchers
  <2>4. (\A s \in Switchers : sw[s] = "loop" => new[s] \in Off \cup {"SUSPEND"})'
    BY <1>2 DEF SuspendInt, Safe, StateKept, TypeOK, ShapesOK
  <2>. QED  BY <2>1, <2>2, <2>3, <2>4, SafeWhenQuiet
<1>3. CASE HandlerCommit /\ ~ UNCHANGED switchVars
  <2>0. "watch" \in Switchers /\ sw["watch"] = "idle"
    BY <1>3 DEF HandlerCommit, Safe, StateKept, Switchers
  <2>1. UNCHANGED <<shutting_down, work, pc, bug>>
    BY <1>3 DEF HandlerCommit, threadVars
  <2>2. Kicking' = Kicking
    BY <1>3, <2>0 DEF Kicking, HandlerCommit, TypeOK, ShapesOK
  <2>3. (handler # "idle" => sw["watch"] = "idle")'
    BY <1>3 DEF HandlerCommit
  <2>4. (\A s \in Switchers : sw[s] = "loop" => new[s] \in Off \cup {"SUSPEND"})'
    <3>1. /\ sw' = [sw EXCEPT !["watch"] = "loop"]
          /\ \E v \in Off \cup {"SUSPEND"} : new' = [new EXCEPT !["watch"] = v]
      BY <1>3 DEF HandlerCommit, Off
    <3>2. /\ sw \in [Switchers -> {"idle", "loop", "kick"}] /\ new \in [Switchers -> States]
          /\ \A s \in Switchers : sw[s] = "loop" => new[s] \in Off \cup {"SUSPEND"}
      BY DEF Safe, StateKept, TypeOK, ShapesOK
    <3>3. PICK v \in Off \cup {"SUSPEND"} : new' = [new EXCEPT !["watch"] = v]
      BY <3>1
    <3>. QED  BY <3>1, <3>2, <3>3
  <2>. QED  BY <2>1, <2>2, <2>3, <2>4, SafeWhenQuiet
<1>. QED  BY <1>1, <1>2, <1>3 DEF Request, Handler, HandlerBegin, HandlerStart, HandlerRead

(* A state taken from INVALID is the switcher's; one taken from RESUMING   *)
(* stays the thread's. *)
LEMMA SafeSwitch ==
  ASSUME TypeOK, Safe, NEW s \in Switchers, Switch(s)
  PROVE  Safe'
<1>0. Live' = Live /\ UNCHANGED <<work, pc, bug, handler>>
  BY DEF Switch, threadVars, handlerVars, Live
<1>1. CASE old[s] \notin Idle
  <2>1. UNCHANGED <<shutting_down, new>> /\ sw' = [sw EXCEPT ![s] = "idle"] /\ sw[s] = "loop"
    BY <1>1 DEF Switch
  <2>2. Kicking' = Kicking
    BY <2>1 DEF Kicking, TypeOK, ShapesOK
  <2>3. (handler # "idle" => sw["watch"] = "idle")'
    BY <1>0, <2>1 DEF Safe, StateKept, TypeOK, ShapesOK, Switchers
  <2>4. (\A z \in Switchers : sw[z] = "loop" => new[z] \in Off \cup {"SUSPEND"})'
    BY <2>1 DEF Safe, StateKept, TypeOK, ShapesOK
  <2>. QED  BY <1>0, <2>1, <2>2, <2>3, <2>4, SafeWhenQuiet
<1>2. CASE old[s] \in Idle /\ shutting_down # old[s]
  <2>1. UNCHANGED <<shutting_down, new, sw>>
    BY <1>2 DEF Switch
  <2>2. Kicking' = Kicking
    BY <2>1 DEF Kicking
  <2>. QED  BY <1>0, <2>1, <2>2, SafeWhenQuiet DEF Safe, StateKept
<1>3. CASE old[s] \in Idle /\ shutting_down = old[s]
  <2>1. /\ shutting_down' = new[s] /\ UNCHANGED new
        /\ sw' = [sw EXCEPT ![s] = IF old[s] = "INVALID" THEN "kick" ELSE "idle"]
        /\ sw[s] = "loop" /\ new[s] \in Off \cup {"SUSPEND"}
    BY <1>3 DEF Switch, Safe, StateKept
  <2>2. (\A z \in Switchers : sw[z] = "loop" => new[z] \in Off \cup {"SUSPEND"})'
    BY <2>1 DEF Safe, StateKept, TypeOK, ShapesOK
  <2>3. (handler # "idle" => sw["watch"] = "idle")'
    BY <1>0, <2>1 DEF Safe, StateKept, TypeOK, ShapesOK, Switchers
  <2>4. NoBug'
    BY <1>0 DEF Safe, NoBug
  <2>5. CASE shutting_down = "INVALID"
    <3>1. Kicking = {} /\ ~work /\ Live = {}
      BY <2>5 DEF Safe, OneAgent
    <3>2. Kicking' = {s}
      BY <1>3, <2>1, <2>5, <3>1 DEF Kicking, TypeOK, ShapesOK
    <3>3. OneAgent'
      BY <1>0, <2>1, <3>1, <3>2 DEF OneAgent, Off
    <3>4. \A t \in Tids : pc[t] = "none"
      BY <3>1 DEF Live
    <3>5. StateKept'
      BY <1>0, <2>1, <2>2, <2>3, <3>4 DEF StateKept, Off
    <3>. QED  BY <2>4, <3>3, <3>5 DEF Safe
  <2>6. CASE shutting_down = "RESUMING"
    <3>1. PICK t \in Tids : pc[t] \in {"thaw", "exchange"}
      BY <2>6 DEF Safe, StateKept
    <3>2. t \in Live
      BY <3>1 DEF Live
    <3>3. Live = {t} /\ Kicking = {} /\ ~work
      BY <3>2 DEF Safe, OneAgent
    <3>4. Kicking' = Kicking
      BY <1>3, <2>1, <2>6 DEF Kicking, TypeOK, ShapesOK
    <3>5. OneAgent'
      BY <1>0, <2>1, <3>2, <3>3, <3>4 DEF OneAgent, Off
    <3>6. \A u \in Tids : pc[u] \in {"none", "thaw", "exchange"}
      BY <3>1, <3>3 DEF Live
    <3>7. StateKept'
      BY <1>0, <2>1, <2>2, <2>3, <3>3, <3>4, <3>6 DEF StateKept, Off
    <3>. QED  BY <2>4, <3>5, <3>7 DEF Safe
  <2>. QED  BY <1>3, <2>5, <2>6 DEF Idle
<1>. QED  BY <1>1, <1>2, <1>3

(* The work is the kicker's, then the thread's. *)
LEMMA SafeKick ==
  ASSUME TypeOK, Safe, NEW s \in Switchers, Kick(s)
  PROVE  Safe'
<1>1. /\ sw[s] = "kick" /\ sw' = [sw EXCEPT ![s] = "idle"] /\ work' = TRUE
      /\ UNCHANGED <<shutting_down, handler, new, pc, bug>>
  BY DEF Kick, handlerVars
<1>2. s \in Kicking
  BY <1>1 DEF Kicking
<1>3. Kicking = {s} /\ ~work /\ Live = {}
  BY <1>2 DEF Safe, OneAgent
<1>4. Kicking' = {}
  BY <1>1, <1>3 DEF Kicking, TypeOK, ShapesOK
<1>5. Live' = Live
  BY <1>1 DEF Live
<1>6. OneAgent'
  BY <1>1, <1>2, <1>3, <1>4, <1>5 DEF Safe, OneAgent
<1>7. StateKept'
  BY <1>1, <1>2, <1>3 DEF Safe, StateKept, TypeOK, ShapesOK, Switchers
<1>8. NoBug'
  BY <1>1 DEF Safe, NoBug
<1>. QED  BY <1>6, <1>7, <1>8 DEF Safe

LEMMA SafeWork ==
  ASSUME TypeOK, Safe, Work
  PROVE  Safe'
<1>1. work /\ UNCHANGED <<shutting_down, handler, sw, new, bug>>
  BY DEF Work, handlerVars, switchVars
<1>2. Kicking' = Kicking /\ Kicking = {} /\ Live = {} /\ shutting_down \in Off \cup {"SUSPEND"}
  BY <1>1 DEF Kicking, Safe, OneAgent, StateKept
<1>3. CASE UNCHANGED <<pc, work>>
  BY <1>1, <1>2, <1>3, SafeWhenQuiet DEF Safe, StateKept
<1>4. CASE \E t \in Tids :
              /\ pc[t] = "none" /\ work' = FALSE
              /\ pc' = [pc EXCEPT ![t] = IF shutting_down = "SUSPEND" THEN "pin" ELSE "process"]
  <2>1. PICK t \in Tids :
              /\ pc[t] = "none" /\ work' = FALSE
              /\ pc' = [pc EXCEPT ![t] = IF shutting_down = "SUSPEND" THEN "pin" ELSE "process"]
    BY <1>4
  <2>2. Live' = {t}
    BY <1>2, <2>1 DEF Live, TypeOK, ShapesOK
  <2>3. OneAgent'
    BY <1>1, <1>2, <2>1, <2>2 DEF OneAgent, Off
  <2>4. StateKept'
    BY <1>1, <1>2, <2>1 DEF Safe, StateKept, TypeOK, ShapesOK, Live, Off
  <2>5. NoBug'
    BY <1>1 DEF Safe, NoBug
  <2>. QED  BY <2>3, <2>4, <2>5 DEF Safe
<1>. QED  BY <1>3, <1>4 DEF Work

(* A thread carries out what is its own and hands it back: to nobody, or   *)
(* to the work. *)
LEMMA SafeThread ==
  ASSUME TypeOK, Safe, NEW t \in Tids, Thread(t)
  PROVE  Safe'
<1>1. t \in Live
  BY DEF Thread, Process, Leave, Pin, Freeze, Hypercall, Thaw, Exchange, Live
<1>2. Live = {t} /\ Kicking = {} /\ ~work /\ shutting_down # "INVALID"
  BY <1>1 DEF Safe, OneAgent
<1>3. UNCHANGED <<sw, new, handler>>
  BY DEF Thread, Process, Leave, Pin, Freeze, Hypercall, Thaw, Exchange, handlerVars, switchVars
<1>4. Kicking' = {}
  BY <1>2, <1>3 DEF Kicking
<1>5. \A u \in Tids \ {t} : pc[u] = "none" /\ pc'[u] = "none"
  BY <1>2 DEF Live, TypeOK, ShapesOK, Thread, Process, Leave, Pin, Freeze, Hypercall, Thaw, Exchange
<1>6. Live' = IF pc'[t] = "none" THEN {} ELSE {t}
  BY <1>5 DEF Live
<1>7. \A s \in Switchers : sw'[s] = "loop" => new'[s] \in Off \cup {"SUSPEND"}
  BY <1>3 DEF Safe, StateKept
<1>8. handler' # "idle" => sw'["watch"] = "idle"
  BY <1>3 DEF Safe, StateKept
<1>9. CASE Process(t) \/ Freeze(t) \/ Thaw(t)
  <2>1. UNCHANGED <<shutting_down, work, bug>> /\ pc'[t] # "none"
    BY <1>9 DEF Process, Freeze, Thaw, TypeOK, ShapesOK
  <2>2. /\ pc[t] = "process" => pc'[t] = "leave"
        /\ pc[t] = "suspend" => pc'[t] = "frozen"
        /\ pc[t] = "thaw" => pc'[t] = "exchange"
        /\ pc[t] \in {"process", "suspend", "thaw"}
    BY <1>9 DEF Process, Freeze, Thaw, TypeOK, ShapesOK
  <2>3. OneAgent' /\ NoBug'
    BY <1>2, <1>4, <1>6, <2>1 DEF Safe, OneAgent, NoBug
  <2>4. StateKept'
    BY <1>2, <1>4, <1>5, <1>7, <1>8, <2>1, <2>2 DEF Safe, StateKept
  <2>. QED  BY <2>3, <2>4 DEF Safe
<1>10. CASE Leave(t)
  <2>1. shutting_down' = "INVALID" /\ pc'[t] = "none" /\ UNCHANGED <<work, bug>>
    BY <1>10 DEF Leave, TypeOK, ShapesOK
  <2>2. OneAgent' /\ NoBug'
    BY <1>2, <1>4, <1>6, <2>1 DEF Safe, OneAgent, NoBug
  <2>3. StateKept'
    BY <1>2, <1>4, <1>5, <1>7, <1>8, <2>1 DEF StateKept
  <2>. QED  BY <2>2, <2>3 DEF Safe
<1>11. CASE Pin(t)
  <2>1. shutting_down = "SUSPEND" /\ UNCHANGED work
    BY <1>11 DEF Pin, Safe, StateKept
  <2>2. CASE pc' = [pc EXCEPT ![t] = "suspend"] /\ UNCHANGED <<shutting_down, bug>>
    <3>1. pc'[t] = "suspend"
      BY <2>2 DEF TypeOK, ShapesOK
    <3>2. OneAgent' /\ NoBug'
      BY <1>2, <1>4, <1>6, <2>1, <2>2, <3>1 DEF Safe, OneAgent, NoBug
    <3>3. StateKept'
      BY <1>2, <1>4, <1>5, <1>7, <1>8, <2>1, <2>2, <3>1 DEF StateKept
    <3>. QED  BY <3>2, <3>3 DEF Safe
  <2>3. CASE /\ pc' = [pc EXCEPT ![t] = "none"] /\ shutting_down' = "INVALID"
             /\ bug' = (bug \/ shutting_down # "SUSPEND")
    <3>1. pc'[t] = "none"
      BY <2>3 DEF TypeOK, ShapesOK
    <3>2. NoBug'
      BY <2>1, <2>3 DEF Safe, NoBug
    <3>3. OneAgent'
      BY <1>2, <1>4, <1>6, <2>1, <2>3, <3>1 DEF OneAgent
    <3>4. StateKept'
      BY <1>2, <1>4, <1>5, <1>7, <1>8, <2>1, <2>3, <3>1 DEF StateKept
    <3>. QED  BY <3>2, <3>3, <3>4 DEF Safe
  <2>. QED  BY <1>11, <2>2, <2>3 DEF Pin
<1>12. CASE Hypercall(t)
  <2>1. /\ shutting_down = "SUSPEND" /\ shutting_down' = "RESUMING" /\ pc'[t] = "thaw"
        /\ bug' = (bug \/ shutting_down # "SUSPEND") /\ UNCHANGED work
    BY <1>12 DEF Hypercall, Safe, StateKept, TypeOK, ShapesOK
  <2>2. NoBug'
    BY <2>1 DEF Safe, NoBug
  <2>3. OneAgent'
    BY <1>2, <1>4, <1>6, <2>1 DEF OneAgent
  <2>4. StateKept'
    BY <1>2, <1>4, <1>5, <1>7, <1>8, <2>1 DEF StateKept
  <2>. QED  BY <2>2, <2>3, <2>4 DEF Safe
<1>13. CASE Exchange(t)
  <2>1. CASE shutting_down = "RESUMING"
    <3>1. shutting_down' = "INVALID" /\ pc'[t] = "none" /\ UNCHANGED <<work, bug>>
      BY <1>13, <2>1 DEF Exchange, TypeOK, ShapesOK
    <3>2. OneAgent' /\ NoBug'
      BY <1>2, <1>4, <1>6, <3>1 DEF Safe, OneAgent, NoBug
    <3>3. StateKept'
      BY <1>2, <1>4, <1>5, <1>7, <1>8, <3>1 DEF StateKept
    <3>. QED  BY <3>2, <3>3 DEF Safe
  <2>2. CASE shutting_down = "SUSPEND"
    <3>1. pc'[t] = "suspend" /\ UNCHANGED <<shutting_down, work, bug>>
      BY <1>13, <2>2 DEF Exchange, TypeOK, ShapesOK
    <3>2. OneAgent' /\ NoBug'
      BY <1>2, <1>4, <1>6, <3>1 DEF Safe, OneAgent, NoBug
    <3>3. StateKept'
      BY <1>2, <1>4, <1>5, <1>7, <1>8, <2>2, <3>1 DEF StateKept
    <3>. QED  BY <3>2, <3>3 DEF Safe
  <2>3. CASE shutting_down \in Off
    <3>1. /\ pc'[t] = "none" /\ UNCHANGED shutting_down
          /\ work' = (work \/ shutting_down # "INVALID")
          /\ bug' = (bug \/ shutting_down = "INVALID")
      BY <1>13, <2>3 DEF Exchange, TypeOK, ShapesOK, Off
    <3>2. work' = TRUE
      BY <1>2, <3>1
    <3>3. NoBug'
      BY <1>2, <3>1 DEF Safe, NoBug
    <3>4. OneAgent'
      BY <1>2, <1>4, <1>6, <3>1, <3>2 DEF OneAgent
    <3>5. StateKept'
      BY <1>2, <1>4, <1>5, <1>7, <1>8, <2>3, <3>1 DEF StateKept, Off
    <3>. QED  BY <3>3, <3>4, <3>5 DEF Safe
  <2>. QED  BY <1>2, <2>1, <2>2, <2>3 DEF TypeOK, ShapesOK, States, Off
<1>. QED  BY <1>9, <1>10, <1>11, <1>12, <1>13 DEF Thread

LEMMA StepInv == IInv /\ [Next]_vars => IInv'
<1>. SUFFICES ASSUME IInv, [Next]_vars PROVE IInv'
  OBVIOUS
<1>1. TypeOK /\ Safe
  BY DEF IInv, Safe
<1>2. TypeOK'
  BY <1>1, TypeStep
<1>3. ASSUME Next PROVE Safe'
  BY <1>1, <1>3, SafeAsking, SafeSwitch, SafeKick, SafeWork, SafeThread DEF Next
<1>4. ASSUME UNCHANGED vars PROVE Safe'
  <2>1. Kicking' = Kicking
    BY <1>4 DEF vars, switchVars, Kicking
  <2>. QED
    BY <1>1, <1>4, <2>1, SafeWhenQuiet
    DEF vars, handlerVars, switchVars, threadVars, Safe, StateKept
<1>5. Safe'
  BY <1>3, <1>4
<1>. QED  BY <1>2, <1>5 DEF IInv, Safe

LEMMA Invariance == Spec => []IInv
  BY InitInv, StepInv, PTL DEF Spec

--------------------------------------------------------------------------------
(* Every variable keeps its type. *)
THEOREM TypeCorrect == Spec => []TypeOK
<1>1. IInv => TypeOK
  BY DEF IInv
<1>. QED  BY <1>1, Invariance, PTL

(* The BUG_ONs of the suspend thread and of the switch never fail,         *)
(* whichever way the watch, the interrupt and the thread interleave.       *)
THEOREM BugFree == Spec => []NoBug
<1>1. IInv => NoBug
  BY DEF IInv
<1>. QED  BY <1>1, Invariance, PTL

(* Every state but INVALID is carried out by one party, and one only: no   *)
(* two threads run, none is missing.                                       *)
THEOREM AgentUnique == Spec => []OneAgent
<1>1. IInv => OneAgent
  BY DEF IInv
<1>. QED  BY <1>1, Invariance, PTL

(* An accepted poweroff or halt ends by the thread that calls poweroff.    *)
THEOREM OffKept == Spec => OffHeeded
<1>1. ASSUME IInv, [Next]_vars
      PROVE  [(shutting_down \in Off /\ shutting_down' # shutting_down)
                => (\E t \in Tids : pc[t] = "leave")]_vars
  <2>. SUFFICES ASSUME Next, shutting_down \in Off, shutting_down' # shutting_down
                PROVE  \E t \in Tids : pc[t] = "leave"
    BY <1>1
  <2>1. StateKept /\ shutting_down # "SUSPEND" /\ shutting_down # "RESUMING" /\ shutting_down \notin Idle
    BY <1>1 DEF IInv, Off, Idle
  <2>2. \A s \in Switchers : ~ Switch(s)
    BY <2>1 DEF Switch
  <2>3. PICK t \in Tids : Thread(t)
    BY <2>2 DEF Next, Request, SuspendInt, Handler, HandlerBegin, HandlerStart, HandlerRead,
                HandlerCommit, Kick, Work
  <2>4. Leave(t)
    BY <2>1, <2>3 DEF Thread, Process, Pin, Freeze, Hypercall, Thaw, Exchange, StateKept
  <2>. QED  BY <2>4 DEF Leave
<1>. QED  BY <1>1, Invariance, PTL DEF Spec, OffHeeded

--------------------------------------------------------------------------------
(* Balloon. *)

(* A credit that is being used fits. *)
CreditFits ==
    /\ wk = "grow" => credit > 0 /\ credit <= list
    /\ wk = "shrink" => credit < 0 /\ Floor <= current + credit
    /\ wk \in {"grown", "shrunk"} => credit >= 0
    /\ wk = "shrunk" => Floor <= current - credit

(* What a setter is about to keep respects the minimum. *)
KeptFits == \A s \in Setters : setter[s].at \in {"target", "flag"} => Floor <= setter[s].kept

PagesInv == BalloonTypeOK /\ FloorKept /\ CreditFits /\ KeptFits

(* The set of records TypeOK puts the setters in. *)
SetterType == [at : {"idle", "floor", "target", "flag", "schedule"}, want : Nat, kept : Nat]

LEMMA LeastFacts ==
    ASSUME NEW a \in Int, NEW b \in Int
    PROVE  /\ Least(a, b) \in Int /\ Least(a, b) <= a /\ Least(a, b) <= b
           /\ Least(a, b) = a \/ Least(a, b) = b
BY DEF Least

LEMMA FloorFacts == Floor \in Nat /\ Floor <= Total /\ Floor <= MinPages
BY BalloonAssumption DEF Floor, Least

LEMMA Starts == BalloonInit => PagesInv
<1> SUFFICES ASSUME BalloonInit PROVE PagesInv
  OBVIOUS
<1> USE BalloonAssumption DEF BalloonInit
<1>1. setter \in [Setters -> SetterType]
  BY DEF Setters, Unset, SetterType
<1>2. BalloonTypeOK
  <2>1. credit \in -Total .. Total /\ current \in 0 .. Total /\ list \in 0 .. Total
    OBVIOUS
  <2>2. by \in Setters
    BY DEF Setters
  <2>3. {flag, queued, sleep, timer} \subseteq BOOLEAN
    BY Zenon
  <2>4. target \in Nat /\ key \in Nat /\ changes \in Nat /\ build \in Builds
    OBVIOUS
  <2>5. /\ wk = "idle"
        /\ current + list = Total
    OBVIOUS
  <2> HIDE DEF BalloonInit
  <2> QED
    BY <1>1, <2>1, <2>2, <2>3, <2>4, <2>5 DEF BalloonTypeOK, SetterType
<1>3. FloorKept
  BY FloorFacts DEF FloorKept
<1>4. CreditFits /\ KeptFits
  BY DEF CreditFits, KeptFits, Unset, Setters
<1> QED
  BY <1>2, <1>3, <1>4 DEF PagesInv

(* A setter's step touches no page. *)
LEMMA SettersKeep ==
    ASSUME PagesInv,
           \/ \E v \in Wants : HostWrites(v) \/ ProcessWrites(v)
           \/ WatchTarget
           \/ \E s \in Setters : Setting(s)
    PROVE  PagesInv'
<1> USE BalloonAssumption
<1>1. CASE \E v \in Wants : HostWrites(v)
  BY <1>1 DEF PagesInv, BalloonTypeOK, FloorKept, CreditFits, KeptFits, HostWrites, asked, pages, worker
<1>2. CASE \E v \in Wants : ProcessWrites(v)
  <2> PICK v \in Wants : ProcessWrites(v)
    BY <1>2
  <2> USE DEF ProcessWrites, store, pages, worker
  <2>1. setter' = [setter EXCEPT !["process"] = [at |-> "floor", want |-> v, kept |-> 0]]
    BY DEF Asked
  <2>2. [at |-> "floor", want |-> v, kept |-> 0] \in SetterType
    BY DEF SetterType
  <2>3. setter' \in [Setters -> SetterType]
    BY <2>1, <2>2 DEF PagesInv, BalloonTypeOK, SetterType
  <2>4. BalloonTypeOK'
    BY <2>3 DEF PagesInv, BalloonTypeOK, SetterType
  <2>5. KeptFits'
    BY <2>1 DEF PagesInv, BalloonTypeOK, KeptFits, Floor, Setters
  <2> QED
    BY <2>4, <2>5 DEF PagesInv, FloorKept, CreditFits, Floor
<1>3. CASE WatchTarget
  <2> USE <1>3 DEF WatchTarget, pages, worker
  <2>1. setter' = [setter EXCEPT !["watch"] = [at |-> "floor", want |-> key, kept |-> 0]]
    BY DEF Asked
  <2>2. [at |-> "floor", want |-> key, kept |-> 0] \in SetterType
    BY DEF SetterType, PagesInv, BalloonTypeOK
  <2>3. setter' \in [Setters -> SetterType]
    BY <2>1, <2>2 DEF PagesInv, BalloonTypeOK, SetterType
  <2>4. BalloonTypeOK'
    BY <2>3 DEF PagesInv, BalloonTypeOK, SetterType
  <2>5. KeptFits'
    BY <2>1 DEF PagesInv, BalloonTypeOK, KeptFits, Floor, Setters
  <2> QED
    BY <2>4, <2>5 DEF PagesInv, FloorKept, CreditFits, Floor
<1>4. ASSUME NEW s \in Setters, Setting(s)
      PROVE  PagesInv'
  <2> USE DEF store, pages, worker
  <2>1. CASE SetFloor(s)
    <3>1. setter[s].want \in Nat
      BY DEF PagesInv, BalloonTypeOK
    <3>2. Least(MinPages, CurrentTarget) \in Nat /\ Floor <= Least(MinPages, CurrentTarget)
      BY FloorFacts DEF PagesInv, BalloonTypeOK, FloorKept, CurrentTarget, Least
    <3> DEFINE kept == Most(setter[s].want, MinimumTarget)
    <3>a. kept \in Nat /\ Floor <= kept
      BY <3>1, <3>2, FloorFacts DEF MinimumTarget, Most
    <3>b. setter' = [setter EXCEPT ![s].at = "target", ![s].kept = kept]
      BY <2>1 DEF SetFloor
    <3> HIDE DEF kept
    <3>3. PICK k \in Nat : /\ Floor <= k
                           /\ setter' = [setter EXCEPT ![s].at = "target", ![s].kept = k]
      BY <3>a, <3>b
    <3>4. setter' \in [Setters -> SetterType]
      BY <3>3 DEF PagesInv, BalloonTypeOK, SetterType
    <3>5. BalloonTypeOK'
      BY <2>1, <3>4 DEF PagesInv, BalloonTypeOK, SetterType, SetFloor
    <3>6. KeptFits'
      BY <3>3 DEF PagesInv, BalloonTypeOK, KeptFits, Floor
    <3> QED
      BY <2>1, <3>5, <3>6 DEF PagesInv, FloorKept, CreditFits, Floor, SetFloor
  <2>2. CASE SetTarget(s)
    <3>1. target' \in Nat /\ Floor <= target'
      BY <2>2 DEF PagesInv, BalloonTypeOK, KeptFits, SetTarget
    <3>2. setter' \in [Setters -> SetterType]
      BY <2>2 DEF PagesInv, BalloonTypeOK, SetterType, SetTarget
    <3>3. BalloonTypeOK'
      BY <2>2, <3>1, <3>2 DEF PagesInv, BalloonTypeOK, SetterType, SetTarget
    <3>4. KeptFits'
      BY <2>2 DEF PagesInv, BalloonTypeOK, KeptFits, Floor, SetTarget
    <3> QED
      BY <2>2, <3>1, <3>3, <3>4 DEF PagesInv, FloorKept, CreditFits, Floor, SetTarget
  <2>3. CASE SetFlag(s)
    <3>1. setter' \in [Setters -> SetterType]
      BY <2>3 DEF PagesInv, BalloonTypeOK, SetterType, SetFlag
    <3>2. BalloonTypeOK'
      BY <2>3, <3>1 DEF PagesInv, BalloonTypeOK, SetterType, SetFlag
    <3>3. KeptFits'
      BY <2>3 DEF PagesInv, BalloonTypeOK, KeptFits, Floor, SetFlag
    <3> QED
      BY <2>3, <3>2, <3>3 DEF PagesInv, FloorKept, CreditFits, Floor, SetFlag
  <2>4. CASE Schedule(s)
    <3>1. setter' \in [Setters -> SetterType]
      BY <2>4 DEF PagesInv, BalloonTypeOK, SetterType, Schedule, Unset
    <3>2. BalloonTypeOK'
      BY <2>4, <3>1 DEF PagesInv, BalloonTypeOK, SetterType, Schedule
    <3>3. KeptFits'
      BY <2>4 DEF PagesInv, BalloonTypeOK, KeptFits, Floor, Schedule, Unset
    <3> QED
      BY <2>4, <3>2, <3>3 DEF PagesInv, FloorKept, CreditFits, Floor, Schedule
  <2> QED
    BY <1>4, <2>1, <2>2, <2>3, <2>4 DEF Setting
<1> QED
  BY <1>1, <1>2, <1>3, <1>4

(* The worker moves pages within what its credit allows. *)
LEMMA WorkerKeeps ==
    ASSUME PagesInv, Working \/ Alarm
    PROVE  PagesInv'
<1> USE BalloonAssumption, FloorFacts DEF asked, store
<1>0. KeptFits' /\ setter' = setter /\ target' = target
  BY DEF Working, WorkStart, WorkCredit, Grow, Shrink, Account, WorkEnd, WorkWrite, Alarm, PagesInv, KeptFits, Floor
<1>1. CASE WorkStart
  BY <1>0, <1>1 DEF PagesInv, BalloonTypeOK, FloorKept, CreditFits, WorkStart, pages
<1>2. CASE WorkCredit
  <2>1. /\ credit' \in -Total .. Total
        /\ credit' > 0 => credit' <= list
        /\ credit' < 0 => Floor <= current + credit'
    BY <1>2 DEF PagesInv, BalloonTypeOK, FloorKept, WorkCredit, CurrentTarget, Least
  <2> QED
    BY <1>0, <1>2, <2>1 DEF PagesInv, BalloonTypeOK, FloorKept, CreditFits, WorkCredit, pages
<1>3. CASE Grow
  <2>1. PICK got \in 0 .. Batch : Done(Least(credit, Batch), got) /\ list' = list - got
    BY <1>3 DEF Grow
  <2>2. Least(credit, Batch) \in 1 .. list /\ got \in 0 .. Least(credit, Batch)
    BY <1>3, <2>1 DEF Grow, Done, Least, PagesInv, BalloonTypeOK, CreditFits
  <2>3. wk' = "grown" /\ credit' = got /\ sleep' \in BOOLEAN
    BY <1>3, <2>1, <2>2 DEF Grow, Done, PagesInv, BalloonTypeOK
  <2>4. BalloonTypeOK'
    BY <1>0, <1>3, <2>1, <2>2, <2>3 DEF PagesInv, BalloonTypeOK, Grow
  <2> QED
    BY <1>0, <1>3, <2>2, <2>3, <2>4 DEF PagesInv, FloorKept, CreditFits, Grow
<1>4. CASE Shrink
  <2>1. PICK got \in 0 .. Batch : Done(Least(-credit, Batch), got) /\ list' = list + got
    BY <1>4 DEF Shrink
  <2>2. Least(-credit, Batch) \in 1 .. current - Floor /\ got \in 0 .. Least(-credit, Batch)
    BY <1>4, <2>1 DEF Shrink, Done, Least, PagesInv, BalloonTypeOK, CreditFits
  <2>3. wk' = "shrunk" /\ credit' = got /\ sleep' \in BOOLEAN
    BY <1>4, <2>1 DEF Shrink, Done
  <2>4. BalloonTypeOK'
    BY <1>0, <1>4, <2>1, <2>2, <2>3 DEF PagesInv, BalloonTypeOK, Shrink
  <2> QED
    BY <1>0, <1>4, <2>2, <2>3, <2>4 DEF PagesInv, BalloonTypeOK, FloorKept, CreditFits, Shrink
<1>5. CASE Account
  BY <1>0, <1>5 DEF PagesInv, BalloonTypeOK, FloorKept, CreditFits, Account
<1>6. CASE WorkEnd
  <2>1. timer' \in BOOLEAN /\ sleep' \in BOOLEAN /\ wk' \in {"idle", "write"}
    BY <1>6, Zenon DEF PagesInv, BalloonTypeOK, WorkEnd
  <2>2. credit' \in -Total .. Total
    BY <1>6 DEF WorkEnd
  <2>3. UNCHANGED <<current, list, target, flag, by, setter, key, changes, queued, build>>
    BY <1>6 DEF WorkEnd, pages
  <2>4. BalloonTypeOK'
    BY <1>6, <2>1, <2>2, <2>3 DEF PagesInv, BalloonTypeOK, WorkEnd
  <2> QED
    BY <1>0, <1>6, <2>1, <2>3, <2>4 DEF PagesInv, FloorKept, CreditFits
<1>7. CASE WorkWrite
  BY <1>0, <1>7 DEF PagesInv, BalloonTypeOK, FloorKept, CreditFits, WorkWrite, pages
<1>8. CASE Alarm
  BY <1>0, <1>8 DEF PagesInv, BalloonTypeOK, FloorKept, CreditFits, Alarm, pages, worker
<1> QED
  BY <1>1, <1>2, <1>3, <1>4, <1>5, <1>6, <1>7, <1>8 DEF Working

LEMMA Idles == PagesInv /\ UNCHANGED balloonVars => PagesInv'
BY DEF PagesInv, BalloonTypeOK, FloorKept, CreditFits, KeptFits, Floor, balloonVars, asked, store, pages, worker

LEMMA Inductive == BalloonSpec => []PagesInv
<1>1. PagesInv /\ [BalloonNext]_balloonVars => PagesInv'
  BY SettersKeep, WorkerKeeps, Idles DEF BalloonNext
<1> QED
  BY Starts, <1>1, PTL DEF BalloonSpec

(* No page is lost or made up by a refused or partial batch, and a batch is *)
(* never larger than the list, whatever is asked for while it runs.         *)
THEOREM PagesAccounted == BalloonSpec => []BalloonTypeOK
<1>1. PagesInv => BalloonTypeOK
  BY DEF PagesInv
<1> QED
  BY Inductive, <1>1, PTL

(* balloon_set_new_target needs no lock to respect the minimum. *)
THEOREM MinimumKept == BalloonSpec => []FloorKept
<1>1. PagesInv => FloorKept
  BY DEF PagesInv
<1> QED
  BY Inductive, <1>1, PTL
================================================================================
