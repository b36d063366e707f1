-------------------------------- MODULE Xenstore -------------------------------
(***************************************************************************)
(* The guest's end of xenstore: xenbus_xs.c with the users of the device   *)
(* file of xenbus_dev_frontend.c.  Kernel threads, processes that hold the *)
(* file open and the xenwatch thread talk to xenstored one request at a    *)
(* time, open transactions and register watches; the xenbus thread hands   *)
(* out replies and watch events; a suspend stops them all, in the order    *)
(* transaction_mutex, watch_mutex, request_mutex, response_mutex, and a    *)
(* resume on another host registers the watches again.                     *)
(*                                                                         *)
(* watches_lock, watch_events_lock and reply_lock are held within a step   *)
(* only, and so is xenwatch_mutex by anyone but the xenwatch thread, which *)
(* holds it while a callback runs (handling # None).                       *)
(***************************************************************************)
EXTENDS Integers, FiniteSets, SequencesExt

CONSTANTS Kernel,       \* threads in the kernel, other than the two below
          Files,        \* processes with the device file open
          Xenwatch, Suspender,
          Watches,      \* watches there may be
          Owner,        \* Owner[w]: who registers and unregisters w
          Refused,      \* threads whose TRANSACTION_START xenstored may refuse
          Signalled,    \* threads a signal may wake while the ring is full
          MixWatches,   \* BOOLEAN: watches may change while one has a transaction open
          MaxChanges,   \* bound: changes of watched nodes
          MaxSuspends,  \* bound: suspends
          None

Users   == Kernel \cup Files \cup {Xenwatch}
Threads == Users \cup {Suspender}

ASSUME XsAssumption ==
    /\ MaxChanges \in Nat /\ MaxSuspends \in Nat /\ MixWatches \in BOOLEAN
    /\ Owner \in [Watches -> Users]
    /\ Refused \subseteq Users /\ Signalled \subseteq Users
    /\ Suspender \notin Users /\ {None, "xenbus"} \cap (Threads \cup Watches) = {}
    /\ None # "xenbus"

VARIABLES transaction_mutex, transaction_count,
          watch_readers, watch_writer,   \* watch_mutex; a waiting writer stops readers
          request_mutex, response_mutex,
          watches, watch_events, reply_list,
          pc, arg,            \* what a thread waits for, with which watch
          txn,                \* threads with a transaction open
          holders,            \* processes with a holder for a refused transaction
          closing,            \* processes closing the file
          handling,           \* the watch whose callback runs
          stage, todo,        \* how far the suspend is; watches to register again
          wire, inbox,        \* the two rings: a request; replies and events
          registered,         \* watches xenstored knows
          news,               \* watches whose node changed since the last callback
          changes, suspends

txnVars   == <<transaction_mutex, transaction_count, txn, holders>>
watchVars == <<watch_readers, watch_writer, watches>>
talkVars  == <<request_mutex, response_mutex, reply_list>>
userVars  == <<pc, arg, closing>>
eventVars == <<watch_events, handling>>
suspVars  == <<stage, todo, suspends>>
storeVars == <<wire, inbox, registered, news, changes>>
vars == <<txnVars, watchVars, talkVars, userVars, eventVars, suspVars, storeVars>>

(* What a thread waits for a reply to; "dropping" ends a transaction that  *)
(* was refused. *)
Requests == {"starting", "ending", "dropping", "asking", "registering", "unregistering"}

Init ==
    /\ transaction_mutex = None /\ transaction_count = 0
    /\ watch_readers = {} /\ watch_writer = FALSE
    /\ request_mutex = None /\ response_mutex = None
    /\ watches = {} /\ watch_events = <<>> /\ reply_list = <<>>
    /\ pc = [t \in Threads |-> "idle"] /\ arg = [t \in Threads |-> None]
    /\ txn = {} /\ holders = {} /\ closing = {} /\ handling = None
    /\ stage = "running" /\ todo = {} /\ suspends = 0
    /\ wire = None /\ inbox = <<>> /\ registered = {}
    /\ news = {} /\ changes = 0

Go(t, what) == pc' = [pc EXCEPT ![t] = what]

(* A thread free to begin something; xenwatch works in callbacks only.     *)
Free(t) == t \in Users \ closing /\ pc[t] = "idle" /\ (t = Xenwatch => handling # None)

--------------------------------------------------------------------------------
(* xenbus_transaction_start, TRANSACTION_START on the file: the thread     *)
(* wants the mutex ... *)
TransactionStart(t) ==
    /\ Free(t) /\ t \notin txn \cup holders
    /\ Go(t, "opening")
    /\ UNCHANGED <<txnVars, watchVars, talkVars, arg, closing, eventVars, suspVars, storeVars>>

(* Seeded fault: transaction_start counts without transaction_mutex.       *)
TransactionCountUnlocked(t) ==
    /\ pc[t] = "opening"
    /\ transaction_count' = transaction_count + 1
    /\ Go(t, "starting")
    /\ UNCHANGED <<transaction_mutex, txn, holders, watchVars, talkVars, arg, closing,
                   eventVars, suspVars, storeVars>>

(* ... and has it while it counts. *)
TransactionCount(t) ==
    /\ pc[t] = "opening" /\ transaction_mutex = None
    /\ transaction_count' = transaction_count + 1
    /\ Go(t, "starting")
    /\ UNCHANGED <<transaction_mutex, txn, holders, watchVars, talkVars, arg, closing,
                   eventVars, suspVars, storeVars>>

TransactionEnd(t) ==
    /\ Free(t) /\ t \in txn
    /\ Go(t, "ending")
    /\ UNCHANGED <<txnVars, watchVars, talkVars, arg, closing, eventVars, suspVars, storeVars>>

(* Any other request, in a transaction or not. *)
Ask(t) ==
    /\ Free(t)
    /\ Go(t, "asking")
    /\ UNCHANGED <<txnVars, watchVars, talkVars, arg, closing, eventVars, suspVars, storeVars>>

(* register_xenbus_watch, unregister_xenbus_watch: the thread wants        *)
(* watch_mutex ... *)
WantWatch(t, w, what) ==
    /\ Owner[w] = t
    /\ w \in watches <=> what = "unwatching"
    /\ Go(t, what)
    /\ arg' = [arg EXCEPT ![t] = w]
    /\ UNCHANGED <<txnVars, watchVars, talkVars, closing, eventVars, suspVars, storeVars>>

RegisterWatch(t, w) ==
    Free(t) /\ (t \in txn => MixWatches) /\ WantWatch(t, w, "watching")

UnregisterWatch(t, w) ==
    Free(t) /\ (t \in txn => MixWatches) /\ WantWatch(t, w, "unwatching")

(* ... has it for reading and changes the list; the request is to come.    *)
ChangeWatch(t) ==
    /\ pc[t] \in {"watching", "unwatching"} /\ ~watch_writer
    /\ watch_readers' = watch_readers \cup {t}
    /\ IF pc[t] = "watching"
       THEN watches' = watches \cup {arg[t]} /\ Go(t, "registering")
       ELSE watches' = watches \ {arg[t]} /\ Go(t, "unregistering")
    /\ UNCHANGED <<txnVars, watch_writer, talkVars, arg, closing, eventVars, suspVars, storeVars>>

(* The list watch_events with those of a watch deleted. *)
Without(events, w) ==
    LET kept[n \in 0..Len(events)] ==
          IF n = 0 THEN <<>>
          ELSE IF events[n] = w THEN kept[n - 1] ELSE Append(kept[n - 1], events[n])
    IN  kept[Len(events)]

(* Seeded fault: pending events are cancelled, a callback not waited for.  *)
CancelEventsAtOnce(t) ==
    /\ pc[t] = "cancelling"
    /\ watch_events' = Without(watch_events, arg[t])
    /\ Go(t, "idle")
    /\ arg' = [arg EXCEPT ![t] = None]
    /\ UNCHANGED <<txnVars, watchVars, talkVars, closing, handling, suspVars, storeVars>>

(* ... and its end: no callback runs, unless this is one, and no event of  *)
(* the watch is left. *)
CancelEvents(t) ==
    /\ pc[t] = "cancelling"
    /\ t = Xenwatch \/ handling = None
    /\ watch_events' = Without(watch_events, arg[t])
    /\ Go(t, "idle")
    /\ arg' = [arg EXCEPT ![t] = None]
    /\ UNCHANGED <<txnVars, watchVars, talkVars, closing, handling, suspVars, storeVars>>

(* xenbus_file_release: the transactions, then the watches; then another   *)
(* process opens the file. *)
FileRelease(f) ==
    /\ Free(f)
    /\ closing' = closing \cup {f}
    /\ UNCHANGED <<txnVars, watchVars, talkVars, pc, arg, eventVars, suspVars, storeVars>>

ReleaseNext(f) ==
    /\ f \in closing /\ pc[f] = "idle"
    /\ \/ /\ f \in txn \cup holders
          /\ Go(f, IF f \in txn THEN "ending" ELSE "dropping")
          /\ UNCHANGED <<txnVars, watchVars, talkVars, arg, closing, eventVars, suspVars,
                         storeVars>>
       \/ /\ f \notin txn \cup holders
          /\ \E w \in Watches : WantWatch(f, w, "unwatching")
       \/ /\ f \notin txn \cup holders /\ \A w \in watches : Owner[w] # f
          /\ closing' = closing \ {f}
          /\ UNCHANGED <<txnVars, watchVars, talkVars, pc, arg, eventVars, suspVars, storeVars>>

--------------------------------------------------------------------------------
(* Seeded fault: xenbus_transaction_start keeps the count when refused.    *)
FinishKeepsCount(t, ok) ==
    /\ Go(t, IF pc[t] = "unregistering" THEN "cancelling" ELSE "idle")
    /\ arg' = IF pc[t] = "unregistering" THEN arg ELSE [arg EXCEPT ![t] = None]
    /\ watch_readers' = watch_readers \ {t}
    /\ watches' = IF pc[t] = "registering" /\ ~ok /\ t # Suspender THEN watches \ {arg[t]}
                  ELSE watches
    /\ transaction_count' = transaction_count -
          (IF pc[t] \in {"ending", "dropping"} THEN 1 ELSE 0)
    /\ txn' = CASE pc[t] = "starting" /\ ok -> txn \cup {t}
                [] pc[t] = "ending" -> txn \ {t}
                [] OTHER -> txn
    /\ holders' = CASE pc[t] = "starting" /\ ~ok /\ t \in Files -> holders \cup {t}
                    [] pc[t] = "dropping" -> holders \ {t}
                    [] OTHER -> holders
    /\ todo' = IF t = Suspender THEN todo \ {arg[t]} ELSE todo

(* Seeded fault: xs_resume stays at the first watch of the list.           *)
FinishSameWatch(t, ok) ==
    /\ Go(t, IF pc[t] = "unregistering" THEN "cancelling" ELSE "idle")
    /\ arg' = IF pc[t] = "unregistering" THEN arg ELSE [arg EXCEPT ![t] = None]
    /\ watch_readers' = watch_readers \ {t}
    /\ watches' = IF pc[t] = "registering" /\ ~ok /\ t # Suspender THEN watches \ {arg[t]}
                  ELSE watches
    /\ transaction_count' = transaction_count -
          (IF pc[t] \in {"ending", "dropping"} \/ (pc[t] = "starting" /\ ~ok) THEN 1 ELSE 0)
    /\ txn' = CASE pc[t] = "starting" /\ ok -> txn \cup {t}
                [] pc[t] = "ending" -> txn \ {t}
                [] OTHER -> txn
    /\ holders' = CASE pc[t] = "starting" /\ ~ok /\ t \in Files -> holders \cup {t}
                    [] pc[t] = "dropping" -> holders \ {t}
                    [] OTHER -> holders
    /\ UNCHANGED todo

(* A request is over, with what reply (FALSE for an error or none): what   *)
(* xs_talkv's caller does then.  From the file, a refused START takes the  *)
(* count back and puts the holder on the list all the same; xs_resume does *)
(* not look at what xs_watch returns.                                      *)
Finish(t, ok) ==
    /\ Go(t, IF pc[t] = "unregistering" THEN "cancelling" ELSE "idle")
    /\ arg' = IF pc[t] = "unregistering" THEN arg ELSE [arg EXCEPT ![t] = None]
    /\ watch_readers' = watch_readers \ {t}
    /\ watches' = IF pc[t] = "registering" /\ ~ok /\ t # Suspender THEN watches \ {arg[t]}
                  ELSE watches
    /\ transaction_count' = transaction_count -
          (IF pc[t] \in {"ending", "dropping"} \/ (pc[t] = "starting" /\ ~ok) THEN 1 ELSE 0)
    /\ txn' = CASE pc[t] = "starting" /\ ok -> txn \cup {t}
                [] pc[t] = "ending" -> txn \ {t}
                [] OTHER -> txn
    /\ holders' = CASE pc[t] = "starting" /\ ~ok /\ t \in Files -> holders \cup {t}
                    [] pc[t] = "dropping" -> holders \ {t}
                    [] OTHER -> holders
    /\ todo' = IF t = Suspender THEN todo \ {arg[t]} ELSE todo

(* The wait for room on the ring ends with a signal: nothing is sent, and  *)
(* xenbus_dev_request_and_reply returns at once, the count as it was.      *)
GiveUp(t) ==
    /\ IF t \in Files \ closing /\ pc[t] \in {"starting", "ending"}
       THEN Go(t, "idle") /\ UNCHANGED <<arg, watch_readers, watches, transaction_count, txn,
                                         holders, todo>>
       ELSE Finish(t, FALSE)
    /\ UNCHANGED <<request_mutex, wire>>

(* Seeded fault: a request does not wait for request_mutex.                *)
SendUnlocked(t) ==
    /\ pc[t] \in Requests /\ request_mutex # t /\ wire = None
    /\ request_mutex' = t /\ wire' = t
    /\ UNCHANGED <<pc, arg, watch_readers, watches, transaction_count, txn, holders, todo,
                   transaction_mutex, watch_writer, response_mutex, reply_list, closing,
                   eventVars, stage, suspends, inbox, registered, news, changes>>

Send(t) ==
    /\ pc[t] \in Requests /\ request_mutex = None
    /\ \/ /\ request_mutex' = t /\ wire' = t
          /\ UNCHANGED <<pc, arg, watch_readers, watches, transaction_count, txn, holders, todo>>
       \/ t \in Signalled /\ GiveUp(t)
    /\ UNCHANGED <<transaction_mutex, watch_writer, response_mutex, reply_list, closing,
                   eventVars, stage, suspends, inbox, registered, news, changes>>

(* read_reply *)
GetReply(t) ==
    /\ request_mutex = t /\ pc[t] \in Requests /\ reply_list # <<>>
    /\ Finish(t, Head(reply_list).ok)
    /\ reply_list' = Tail(reply_list)
    /\ request_mutex' = None
    /\ UNCHANGED <<transaction_mutex, watch_writer, response_mutex, closing, eventVars, stage,
                   suspends, storeVars>>

--------------------------------------------------------------------------------
(* xenstored: a request is answered; a watch fires once when registered.   *)
ServerAnswers ==
    /\ wire # None
    /\ \E ok \in BOOLEAN :
          /\ CASE pc[wire] = "starting" -> ok \/ wire \in Refused
               [] pc[wire] = "dropping" -> ~ok
               [] pc[wire] = "registering" -> ok <=> arg[wire] \notin registered
               [] OTHER -> ok
          /\ LET new   == IF pc[wire] = "registering" /\ ok THEN {arg[wire]} ELSE {}
                 reply == [type |-> "reply", from |-> wire, ok |-> ok]
                 event == [type |-> "event", watch |-> arg[wire]]
             IN  /\ registered' = IF pc[wire] = "unregistering" THEN registered \ {arg[wire]}
                                  ELSE registered \cup new
                 /\ news' = news \cup new
                 /\ inbox' = IF new = {} THEN Append(inbox, reply)
                             ELSE Append(Append(inbox, reply), event)
    /\ wire' = None
    /\ UNCHANGED <<txnVars, watchVars, talkVars, userVars, eventVars, suspVars, changes>>

(* Another domain writes to a watched node. *)
NodeChanges(w) ==
    /\ changes < MaxChanges /\ w \in registered
    /\ changes' = changes + 1
    /\ news' = news \cup {w}
    /\ inbox' = Append(inbox, [type |-> "event", watch |-> w])
    /\ UNCHANGED <<txnVars, watchVars, talkVars, userVars, eventVars, suspVars, wire, registered>>

(* process_msg of the xenbus thread: up to the first byte read ... *)
ProcessMsg ==
    /\ inbox # <<>> /\ response_mutex = None
    /\ response_mutex' = "xenbus"
    /\ UNCHANGED <<txnVars, watchVars, request_mutex, reply_list, userVars, eventVars, suspVars,
                   storeVars>>

(* ... and from the last: a reply is listed, an event if its watch is.     *)
DeliverMsg ==
    /\ response_mutex = "xenbus" /\ inbox # <<>>
    /\ LET msg == Head(inbox)
       IN  IF msg.type = "reply"
           THEN reply_list' = Append(reply_list, msg) /\ UNCHANGED watch_events
           ELSE /\ watch_events' = IF msg.watch \in watches THEN Append(watch_events, msg.watch)
                                   ELSE watch_events
                /\ UNCHANGED reply_list
    /\ inbox' = Tail(inbox)
    /\ response_mutex' = None
    /\ UNCHANGED <<txnVars, watchVars, request_mutex, userVars, handling, suspVars, wire,
                   registered, news, changes>>

(* xenwatch_thread: xenwatch_mutex is taken, an event, its callback called *)
XenwatchTakes ==
    /\ handling = None /\ watch_events # <<>>
    /\ handling' = Head(watch_events)
    /\ watch_events' = Tail(watch_events)
    /\ news' = news \ {handling'}
    /\ UNCHANGED <<txnVars, watchVars, talkVars, userVars, suspVars, wire, inbox, registered,
                   changes>>

(* ... and returns. *)
XenwatchDone ==
    /\ handling # None /\ pc[Xenwatch] = "idle" /\ Xenwatch \notin txn
    /\ handling' = None
    /\ UNCHANGED <<txnVars, watchVars, talkVars, userVars, watch_events, suspVars, storeVars>>

--------------------------------------------------------------------------------
(* xs_suspend, one lock at a time: transaction_suspend, ...                *)
SuspendTransactions ==
    /\ stage = "running" /\ suspends < MaxSuspends
    /\ transaction_mutex = None
    /\ transaction_mutex' = Suspender
    /\ stage' = "counting"
    /\ suspends' = suspends + 1
    /\ UNCHANGED <<transaction_count, txn, holders, watchVars, talkVars, userVars, eventVars,
                   todo, storeVars>>

(* ... the count down to zero and down_write begun, ... *)
SuspendWatches ==
    /\ stage = "counting" /\ transaction_count = 0
    /\ watch_writer' = TRUE
    /\ stage' = "watches"
    /\ UNCHANGED <<txnVars, watch_readers, watches, talkVars, userVars, eventVars, todo, suspends,
                   storeVars>>

(* ... the last reader gone, ... *)
SuspendRequests ==
    /\ stage = "watches" /\ watch_readers = {} /\ request_mutex = None
    /\ request_mutex' = Suspender
    /\ stage' = "requests"
    /\ UNCHANGED <<txnVars, watchVars, response_mutex, reply_list, userVars, eventVars, todo,
                   suspends, storeVars>>

(* ... and the reader between messages. *)
SuspendResponses ==
    /\ stage = "requests" /\ response_mutex = None
    /\ response_mutex' = Suspender
    /\ stage' = "saved"
    /\ UNCHANGED <<txnVars, watchVars, request_mutex, reply_list, userVars, eventVars, todo,
                   suspends, storeVars>>

Unlock ==
    /\ response_mutex' = None /\ request_mutex' = None /\ transaction_mutex' = None
    /\ UNCHANGED <<transaction_count, txn, holders, watch_readers, watches, reply_list, userVars,
                   eventVars, suspends>>

(* xs_suspend_cancel *)
SuspendCancel ==
    /\ stage = "saved"
    /\ Unlock
    /\ watch_writer' = FALSE
    /\ stage' = "running"
    /\ UNCHANGED <<todo, storeVars>>

(* Seeded fault: the watches are not registered again. *)
ResumeForgets ==
    /\ stage = "saved"
    /\ Unlock
    /\ registered' = {}
    /\ inbox' \in {inbox, <<>>}
    /\ watch_writer' = FALSE
    /\ stage' = "running"
    /\ UNCHANGED <<todo, wire, news, changes>>

(* The guest runs on another host, whose xenstored knows none of its       *)
(* watches and may have reset the rings; xs_resume, as far as the watches. *)
Resume ==
    /\ stage = "saved"
    /\ Unlock
    /\ registered' = {}
    /\ inbox' \in {inbox, <<>>}
    /\ todo' = watches
    /\ stage' = "resuming"
    /\ UNCHANGED <<watch_writer, wire, news, changes>>

ResumeWatch(w) ==
    /\ stage = "resuming" /\ pc[Suspender] = "idle" /\ w \in todo
    /\ Go(Suspender, "registering")
    /\ arg' = [arg EXCEPT ![Suspender] = w]
    /\ UNCHANGED <<txnVars, watchVars, talkVars, closing, eventVars, suspVars, storeVars>>

ResumeDone ==
    /\ stage = "resuming" /\ pc[Suspender] = "idle" /\ todo = {}
    /\ watch_writer' = FALSE
    /\ stage' = "running"
    /\ UNCHANGED <<txnVars, watch_readers, watches, talkVars, userVars, eventVars, todo, suspends,
                   storeVars>>

--------------------------------------------------------------------------------
UserNext(t) ==
    \/ TransactionStart(t) \/ TransactionCount(t) \/ TransactionEnd(t) \/ Ask(t)
    \/ ChangeWatch(t) \/ CancelEvents(t)
    \/ \E w \in Watches : RegisterWatch(t, w) \/ UnregisterWatch(t, w)

SuspendNext ==
    \/ SuspendTransactions \/ SuspendWatches \/ SuspendRequests \/ SuspendResponses
    \/ SuspendCancel \/ Resume \/ ResumeDone
    \/ \E w \in Watches : ResumeWatch(w)

Next ==
    \/ \E t \in Users : UserNext(t)
    \/ \E f \in Files : FileRelease(f) \/ ReleaseNext(f)
    \/ \E t \in Threads : Send(t) \/ GetReply(t)
    \/ \E w \in Watches : NodeChanges(w)
    \/ ServerAnswers \/ ProcessMsg \/ DeliverMsg \/ XenwatchTakes \/ XenwatchDone
    \/ SuspendNext

Spec == Init /\ [][Next]_vars

(* Mutexes and the rwsem queue their waiters, so who waits gets its turn;  *)
(* a transaction and a callback end; xenstored and the threads run.        *)
Fairness ==
    /\ \A t \in Users : /\ SF_vars(TransactionCount(t) \/ ChangeWatch(t) \/ CancelEvents(t))
                       /\ SF_vars(TransactionEnd(t))
    /\ \A f \in Files : SF_vars(ReleaseNext(f))
    /\ \A t \in Threads : SF_vars(Send(t)) /\ WF_vars(GetReply(t))
    /\ WF_vars(ServerAnswers) /\ WF_vars(ProcessMsg) /\ WF_vars(DeliverMsg)
    /\ WF_vars(XenwatchTakes) /\ SF_vars(XenwatchDone)
    /\ SF_vars(stage # "running" /\ SuspendNext)

FairSpec == Spec /\ Fairness

--------------------------------------------------------------------------------
(* The types; transaction_count is never negative. *)
XsTypeOK ==
    /\ transaction_mutex \in {None, Suspender} /\ transaction_count \in Nat
    /\ watch_readers \subseteq Users /\ watch_writer \in BOOLEAN
    /\ request_mutex \in Threads \cup {None}
    /\ response_mutex \in {None, Suspender, "xenbus"}
    /\ watches \subseteq Watches /\ registered \subseteq Watches
    /\ news \subseteq Watches /\ todo \subseteq Watches
    /\ watch_events \in Seq(Watches)
    /\ pc \in [Threads -> Requests \cup {"idle", "opening", "watching", "unwatching",
                                  "cancelling"}]
    /\ arg \in [Threads -> Watches \cup {None}]
    /\ txn \subseteq Users /\ holders \subseteq Files /\ closing \subseteq Files
    /\ handling \in Watches \cup {None} /\ wire \in Threads \cup {None}
    /\ stage \in {"running", "counting", "watches", "requests", "saved", "resuming"}
    /\ changes \in 0..MaxChanges /\ suspends \in 0..MaxSuspends

(* transaction_count is the number of transactions open or being opened:   *)
(* what the suspend waits to be zero ("the suspend code waits for count to *)
(* reach zero", xenbus_xs.c:102). *)
CountExact ==
    transaction_count = Cardinality(txn \cup {t \in Users : pc[t] = "starting"})

(* While the guest is saved no transaction is open, no request is under    *)
(* way, no reply is on the ring and no message is half read: whatever the  *)
(* new host's xenstored does not know of.                                  *)
QuietAtSave ==
    stage = "saved" =>
        /\ txn = {} /\ \A t \in Users : pc[t] \notin {"starting", "ending"}
        /\ wire = None /\ reply_list = <<>> /\ response_mutex = Suspender
        /\ \A i \in DOMAIN inbox : inbox[i].type = "event"

(* A reply on the list is for the thread that reads it: replies carry no   *)
(* name, one request at a time is all that pairs them.                     *)
ReplyIsMine ==
    reply_list # <<>> => Len(reply_list) = 1 /\ Head(reply_list).from = request_mutex

(* A registered watch is known to xenstored, and a change of its node that *)
(* no callback has seen has an event on its way, over suspends and resumes *)
(* on other hosts too. *)
WatchesLive ==
    /\ XsTypeOK
    /\ \A w \in watches :
        stage = "resuming" \/ pc[Owner[w]] = "registering"
        \/ /\ w \in registered
           /\ w \in news => \/ w \in ToSet(watch_events)
                             \/ [type |-> "event", watch |-> w] \in ToSet(inbox)

(* No callback of a watch runs, and none is to run, once its               *)
(* unregister_xenbus_watch has returned: the watch may be freed.           *)
NoCallbackAfterUnregister ==
    \A w \in Watches \ watches :
        (Owner[w] # Xenwatch /\ arg[Owner[w]] # w) =>
            handling # w /\ w \notin ToSet(watch_events)

(* A suspend that has begun ends, whoever has transactions, requests and   *)
(* callbacks going. *)
SuspendEnds == (stage # "running") ~> (stage = "running")
================================================================================
