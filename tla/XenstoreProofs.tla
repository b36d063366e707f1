----------------------------- MODULE XenstoreProofs ----------------------------
(***************************************************************************)
(* Proofs about Xenstore, for any threads, processes, watches, changes and *)
(* suspends, as long as no transaction started through the file fails      *)
(* (FilesServed; xenbus_dev_frontend.c:331 and xenbus_xs.c:270 say what    *)
(* happens otherwise) and, for what is about watches, no owner of a watch  *)
(* gives up a request for a signal (OwnersServed; an unwatch that was not  *)
(* sent gets a warning, xenbus_xs.c:784, and leaves xenstored's watch).    *)
(*                                                                         *)
(* IInv follows the request on the wire: it is at xenstored, its reply on  *)
(* the ring or on the list, and in the hand of whoever holds request_mutex *)
(* all the while.  WInv follows a watch from the hand of its owner to      *)
(* xenstored, and a change of its node from there to a callback.           *)
(***************************************************************************)
EXTENDS Xenstore, FiniteSetTheorems, SequenceTheorems, TLAPS

(* TRANSACTION_START of a process is granted and its write not interrupted. *)
FilesServed == Files \cap (Refused \cup Signalled) = {}

Replies == [type : {"reply"}, from : Threads, ok : BOOLEAN]
Events  == [type : {"event"}, watch : Watches \cup {None}]
Waits   == {"idle", "opening", "watching", "unwatching", "cancelling"}

Shapes ==
    /\ pc \in [Threads -> Requests \cup Waits]
    /\ arg \in [Threads -> Watches \cup {None}]
    /\ inbox \in Seq(Replies \cup Events) /\ reply_list \in Seq(Replies)
    /\ txn \subseteq Users

(* A thread has a transaction open, or is opening one.                     *)
Open == txn \cup {t \in Users : pc[t] = "starting"}

Counted ==
    /\ holders = {} /\ \A t \in Threads : pc[t] # "dropping"
    /\ \A t \in Threads : pc[t] \in {"opening", "starting"} => t \notin txn
    /\ \A t \in Threads : pc[t] = "ending" => t \in txn
    /\ IsFiniteSet(Open) /\ transaction_count = Cardinality(Open)

(* How far the suspend is says which locks it has, and what it waited for. *)
Staged ==
    /\ pc[Suspender] \in {"idle", "registering"}
    /\ pc[Suspender] = "registering" => stage = "resuming"
    /\ transaction_mutex = IF stage \in {"counting", "watches", "requests", "saved"}
                           THEN Suspender ELSE None
    /\ stage \in {"watches", "requests", "saved"} => Open = {}
    /\ stage = "saved" => response_mutex = Suspender

NoReply(box) == \A i \in DOMAIN box : box[i].type = "event"

(* A refused START comes from a thread that may be refused.                *)
Right(msg) == ~msg.ok /\ pc[msg.from] = "starting" => msg.from \in Refused

(* box holds one reply, to t. *)
OneReply(box, t) ==
    \E i \in DOMAIN box :
        /\ box[i].type = "reply" /\ box[i].from = t /\ Right(box[i])
        /\ \A j \in DOMAIN box : j # i => box[j].type = "event"

Silent == wire = None /\ reply_list = <<>> /\ NoReply(inbox)

Asked(t)    == wire = t /\ reply_list = <<>> /\ NoReply(inbox)
Answered(t) == wire = None /\ reply_list = <<>> /\ OneReply(inbox, t)
Listed(t)   == /\ wire = None /\ NoReply(inbox)
               /\ Len(reply_list) = 1 /\ reply_list[1].from = t /\ Right(reply_list[1])

Talking(t) ==
    /\ request_mutex = t /\ pc[t] \in Requests
    /\ Asked(t) \/ Answered(t) \/ Listed(t)

Wired ==
    IF stage \in {"requests", "saved"} THEN request_mutex = Suspender /\ Silent
    ELSE \/ request_mutex = None /\ Silent
         \/ \E t \in Threads : Talking(t)

IInv == Shapes /\ Counted /\ Staged /\ Wired

--------------------------------------------------------------------------------
(* The ring of replies and events, as messages come and go.                *)
Msgs == Replies \cup Events

LEMMA MsgTypes ==
  ASSUME NEW m \in Msgs
  PROVE  /\ m.type = "reply" => m \in Replies
         /\ m.type = "event" => m \in Events
         /\ m.type \in {"reply", "event"}
  BY DEF Msgs, Replies, Events

LEMMA EventAppended ==
  ASSUME NEW box \in Seq(Msgs), NEW e \in Events, NEW t
  PROVE  /\ Append(box, e) \in Seq(Msgs)
         /\ NoReply(box) => NoReply(Append(box, e))
         /\ OneReply(box, t) => OneReply(Append(box, e), t)
<1>1. e \in Msgs /\ e.type = "event"
  BY DEF Events, Msgs
<1>2. /\ Append(box, e) \in Seq(Msgs) /\ Len(Append(box, e)) = Len(box) + 1
      /\ DOMAIN Append(box, e) = DOMAIN box \cup {Len(box) + 1}
      /\ \A i \in DOMAIN box : Append(box, e)[i] = box[i]
      /\ Append(box, e)[Len(box) + 1] = e
  BY <1>1
<1>3. NoReply(box) => NoReply(Append(box, e))
  BY <1>1, <1>2 DEF NoReply
<1>4. OneReply(box, t) => OneReply(Append(box, e), t)
  BY <1>1, <1>2 DEF OneReply
<1>. QED  BY <1>2, <1>3, <1>4

LEMMA ReplyAppended ==
  ASSUME NEW box \in Seq(Msgs), NEW r \in Replies, NoReply(box), Right(r)
  PROVE  Append(box, r) \in Seq(Msgs) /\ OneReply(Append(box, r), r.from)
<1>1. r \in Msgs /\ r.type = "reply"
  BY DEF Replies, Msgs
<1>2. /\ Append(box, r) \in Seq(Msgs) /\ Len(Append(box, r)) = Len(box) + 1
      /\ DOMAIN Append(box, r) = DOMAIN box \cup {Len(box) + 1}
      /\ \A i \in DOMAIN box : Append(box, r)[i] = box[i]
      /\ Append(box, r)[Len(box) + 1] = r
  BY <1>1
<1>. QED  BY <1>1, <1>2 DEF OneReply, NoReply

LEMMA HeadRead ==
  ASSUME NEW box \in Seq(Msgs), box # <<>>, NEW t
  PROVE  /\ Tail(box) \in Seq(Msgs) /\ Head(box) \in Msgs
         /\ NoReply(box) => NoReply(Tail(box)) /\ Head(box).type = "event"
         /\ OneReply(box, t) =>
               IF Head(box).type = "reply"
               THEN Head(box).from = t /\ Right(Head(box)) /\ NoReply(Tail(box))
               ELSE OneReply(Tail(box), t)
<1>1. /\ Tail(box) \in Seq(Msgs) /\ Head(box) \in Msgs /\ Head(box) = box[1]
      /\ 1 \in DOMAIN box /\ Len(Tail(box)) = Len(box) - 1
      /\ \A i \in DOMAIN Tail(box) : i + 1 \in DOMAIN box /\ Tail(box)[i] = box[i + 1]
      /\ \A i \in DOMAIN box : i # 1 => i - 1 \in DOMAIN Tail(box) /\ Tail(box)[i - 1] = box[i]
      /\ DOMAIN box \subseteq Nat /\ DOMAIN Tail(box) \subseteq Nat \ {0}
  OBVIOUS
<1>2. NoReply(box) => NoReply(Tail(box)) /\ Head(box).type = "event"
  BY <1>1 DEF NoReply
<1>3. ASSUME OneReply(box, t), Head(box).type = "reply"
      PROVE  Head(box).from = t /\ Right(Head(box)) /\ NoReply(Tail(box))
  <2>1. PICK i \in DOMAIN box :
           /\ box[i].type = "reply" /\ box[i].from = t /\ Right(box[i])
           /\ \A j \in DOMAIN box : j # i => box[j].type = "event"
    BY <1>3 DEF OneReply
  <2>2. i = 1
    BY <1>1, <1>3, <2>1
  <2>3. \A j \in DOMAIN Tail(box) : j + 1 # 1
    BY <1>1
  <2>. QED  BY <1>1, <2>1, <2>2, <2>3 DEF NoReply
<1>4. ASSUME OneReply(box, t), Head(box).type # "reply"
      PROVE  OneReply(Tail(box), t)
  <2>1. PICK i \in DOMAIN box :
           /\ box[i].type = "reply" /\ box[i].from = t /\ Right(box[i])
           /\ \A j \in DOMAIN box : j # i => box[j].type = "event"
    BY <1>4 DEF OneReply
  <2>2. i # 1 /\ i - 1 \in DOMAIN Tail(box) /\ Tail(box)[i - 1] = box[i]
    BY <1>1, <1>4, <2>1
  <2>3. \A j \in DOMAIN Tail(box) : j # i - 1 => Tail(box)[j].type = "event"
    BY <1>1, <2>1
  <2>. QED  BY <2>1, <2>2, <2>3 DEF OneReply
<1>. QED  BY <1>1, <1>2, <1>3, <1>4

--------------------------------------------------------------------------------
LEMMA InitInv == Init => IInv
<1>. SUFFICES ASSUME Init PROVE IInv
  OBVIOUS
<1>1. pc = [t \in Threads |-> "idle"] /\ arg = [t \in Threads |-> None]
      /\ txn = {} /\ holders = {} /\ stage = "running" /\ inbox = <<>> /\ reply_list = <<>>
      /\ wire = None /\ request_mutex = None /\ transaction_mutex = None
      /\ transaction_count = 0
  BY DEF Init
<1>2. Shapes
  BY <1>1 DEF Shapes, Waits
<1>3. Open = {}
  BY <1>1 DEF Open, Threads
<1>4. Counted
  BY <1>1, <1>3, FS_EmptySet DEF Counted
<1>5. Staged
  BY <1>1 DEF Staged, Threads
<1>6. Wired
  BY <1>1 DEF Wired, Silent, NoReply
<1>. QED  BY <1>2, <1>4, <1>5, <1>6 DEF IInv

(* A step of t that neither sends nor reads a reply.                       *)
Move(t, x) ==
    /\ pc[t] \notin Requests /\ x \in (Requests \cup Waits) \ {"dropping"}
    /\ pc' = [pc EXCEPT ![t] = x]
    /\ x = "opening" => t \notin txn
    /\ x = "ending" => t \in txn
    /\ IF x = "starting"
       THEN pc[t] = "opening" /\ transaction_mutex = None
            /\ transaction_count' = transaction_count + 1
       ELSE transaction_count' = transaction_count
    /\ arg' \in [Threads -> Watches \cup {None}]
    /\ UNCHANGED <<txn, holders, transaction_mutex, stage>>
    /\ UNCHANGED <<request_mutex, response_mutex, reply_list, wire, inbox>>

LEMMA UserMoves ==
  ASSUME IInv, NEW t \in Users,
         UserNext(t) \/ FileRelease(t) \/ ReleaseNext(t)
  PROVE  \E x \in Requests \cup Waits : Move(t, x)
<1>0. t \in Threads /\ pc \in [Threads -> Requests \cup Waits] /\ holders = {}
      /\ arg \in [Threads -> Watches \cup {None}]
      /\ (pc[t] = "opening" => t \notin txn)
  BY DEF IInv, Shapes, Counted, Threads
<1>. USE <1>0 DEF Move, Requests, Waits, Go, talkVars, txnVars, storeVars, suspVars
<1>1. CASE TransactionStart(t)
  BY <1>1 DEF TransactionStart, Free
<1>2. CASE TransactionCount(t)
  BY <1>2 DEF TransactionCount
<1>3. CASE TransactionEnd(t)
  BY <1>3 DEF TransactionEnd, Free
<1>4. CASE Ask(t)
  BY <1>4 DEF Ask, Free
<1>5. CASE ChangeWatch(t)
  BY <1>5 DEF ChangeWatch
<1>6. CASE CancelEvents(t)
  BY <1>6 DEF CancelEvents
<1>7. ASSUME NEW w \in Watches, RegisterWatch(t, w) \/ UnregisterWatch(t, w)
      PROVE  \E x \in Requests \cup Waits : Move(t, x)
  BY <1>7 DEF RegisterWatch, UnregisterWatch, WantWatch, Free
<1>8. CASE FileRelease(t)
  <2>1. pc[t] = "idle" /\ pc' = pc /\ pc' = [pc EXCEPT ![t] = "idle"]
    BY <1>8 DEF FileRelease, Free
  <2>. QED  BY <1>8, <2>1 DEF FileRelease
<1>9. CASE ReleaseNext(t)
  <2>1. CASE t \in txn
    BY <1>9, <2>1 DEF ReleaseNext
  <2>2. ASSUME NEW w \in Watches, WantWatch(t, w, "unwatching"), pc[t] = "idle"
        PROVE  \E x \in Requests \cup Waits : Move(t, x)
    BY <2>2 DEF WantWatch
  <2>3. CASE pc[t] = "idle" /\ UNCHANGED <<txnVars, talkVars, pc, arg, suspVars, storeVars>>
    <3>1. pc' = [pc EXCEPT ![t] = "idle"]
      BY <2>3
    <3>. QED  BY <2>3, <3>1
  <2>. QED  BY <1>9, <2>1, <2>2, <2>3 DEF ReleaseNext
<1>. QED  BY <1>1, <1>2, <1>3, <1>4, <1>5, <1>6, <1>7, <1>8, <1>9 DEF UserNext

(* Every thread's transaction is counted when it may begin, ...            *)
LEMMA MoveCounts ==
  ASSUME IInv, NEW t \in Users, NEW x, Move(t, x)
  PROVE  Shapes' /\ Counted' /\ Staged'
<1>0. t \in Threads /\ t # Suspender /\ Suspender \in Threads
  BY XsAssumption DEF Threads
<1>1. Shapes'
  BY <1>0 DEF IInv, Shapes, Move
<1>2. IF x = "starting" THEN Open' = Open \cup {t} /\ t \notin Open
                        ELSE Open' = Open
  <2>1. \A u \in Users : pc'[u] = IF u = t THEN x ELSE pc[u]
    BY <1>0 DEF IInv, Shapes, Move, Threads
  <2>2. pc[t] # "starting" /\ txn' = txn
    BY DEF Move, Requests
  <2>3. x = "starting" => t \notin txn
    BY <1>0 DEF Move, IInv, Counted
  <2>. QED  BY <2>1, <2>2, <2>3 DEF Open
<1>3. IsFiniteSet(Open') /\ transaction_count' = Cardinality(Open')
  <2>1. IsFiniteSet(Open) /\ transaction_count = Cardinality(Open)
    BY DEF IInv, Counted
  <2>2. CASE x = "starting"
    BY <1>2, <2>1, <2>2, FS_AddElement DEF Move
  <2>3. CASE x # "starting"
    BY <1>2, <2>1, <2>3 DEF Move
  <2>. QED  BY <2>2, <2>3
<1>4. Counted'
  <2>1. \A u \in Threads : pc'[u] = IF u = t THEN x ELSE pc[u]
    BY <1>0 DEF IInv, Shapes, Move
  <2>2. x = "starting" => t \notin txn
    BY <1>0 DEF Move, IInv, Counted
  <2>. QED  BY <1>3, <2>1, <2>2 DEF Move, IInv, Counted
<1>5. Staged'
  <2>1. pc'[Suspender] = pc[Suspender]
    BY <1>0 DEF IInv, Shapes, Move
  <2>2. stage \in {"watches", "requests", "saved"} => transaction_mutex # None
    BY <1>0, XsAssumption DEF IInv, Staged
  <2>3. x = "starting" => stage \notin {"watches", "requests", "saved"}
    BY <2>2 DEF Move
  <2>. QED  BY <1>2, <2>1, <2>3 DEF Move, IInv, Staged
<1>. QED  BY <1>1, <1>4, <1>5

(* ... and what another thread waits for is not touched.                   *)
LEMMA OthersMove ==
  ASSUME NEW t \in Threads, Talking(t), Shapes, Shapes', pc'[t] = pc[t],
         UNCHANGED <<request_mutex, reply_list, wire, inbox>>
  PROVE  Talking(t)'
  BY DEF Talking, Asked, Answered, Listed, OneReply, NoReply, Right

LEMMA MoveWired ==
  ASSUME IInv, NEW t \in Users, NEW x, Move(t, x), Shapes'
  PROVE  Wired'
<1>1. UNCHANGED <<stage, request_mutex, reply_list, wire, inbox>>
  BY DEF Move
<1>2. ASSUME stage \in {"requests", "saved"} \/ (request_mutex = None /\ Silent)
      PROVE  Wired'
  BY <1>1, <1>2 DEF IInv, Wired, Silent, NoReply
<1>3. ASSUME NEW u \in Threads, Talking(u), stage \notin {"requests", "saved"}
      PROVE  Wired'
  <2>1. u # t /\ pc'[u] = pc[u]
    BY <1>3 DEF Move, Talking, IInv, Shapes
  <2>2. Talking(u)'
    BY <1>1, <1>3, <2>1, OthersMove DEF IInv
  <2>. QED  BY <1>1, <1>3, <2>2 DEF Wired
<1>. QED  BY <1>2, <1>3 DEF IInv, Wired

--------------------------------------------------------------------------------
(* A request ends: a transaction begun or not, an open one ended.          *)
LEMMA FinishCounts ==
  ASSUME IInv, FilesServed, NEW t \in Threads, NEW ok \in BOOLEAN, Finish(t, ok),
         pc[t] \in Requests, pc[t] = "starting" /\ ~ok => t \notin Files,
         UNCHANGED <<transaction_mutex, stage, response_mutex>>,
         inbox' = inbox, reply_list' \in Seq(Replies)
  PROVE  Shapes' /\ Counted' /\ Staged'
<1>0. Suspender \in Threads /\ Suspender \notin Users /\ (t # Suspender => t \in Users)
  BY XsAssumption DEF Threads
<1>1. \A u \in Threads : u # t => pc'[u] = pc[u]
  BY DEF Finish, Go, IInv, Shapes
<1>2. pc'[t] \in {"idle", "cancelling"} /\ pc' \in [Threads -> Requests \cup Waits]
  BY DEF Finish, Go, IInv, Shapes, Requests, Waits
<1>3. /\ pc[t] = "starting" /\ ok => txn' = txn \cup {t} /\ transaction_count' = transaction_count
      /\ pc[t] = "starting" /\ ~ok => txn' = txn /\ transaction_count' = transaction_count - 1
      /\ pc[t] = "ending" => txn' = txn \ {t} /\ transaction_count' = transaction_count - 1
      /\ pc[t] \notin {"starting", "ending"} =>
            txn' = txn /\ transaction_count' = transaction_count
  <2>1. pc[t] # "dropping" /\ transaction_count = Cardinality(Open) /\ IsFiniteSet(Open)
    BY DEF IInv, Counted
  <2>2. transaction_count \in Nat
    BY <2>1, FS_CardinalityType
  <2>. QED  BY <2>1, <2>2 DEF Finish
<1>4. t = Suspender => pc[t] = "registering"
  BY DEF IInv, Staged, Requests
<1>5. txn' \subseteq Users
  BY <1>0, <1>3, <1>4 DEF IInv, Shapes, Requests
<1>6. Shapes'
  <2>1. arg' \in [Threads -> Watches \cup {None}]
    BY DEF Finish, IInv, Shapes
  <2>. QED  BY <1>2, <1>5, <2>1 DEF IInv, Shapes
<1>7. holders' = {}
  BY DEF Finish, IInv, Counted
<1>8. Open' = IF pc[t] = "ending" \/ (pc[t] = "starting" /\ ~ok) THEN Open \ {t} ELSE Open
  <2>1. \A u \in Users : u # t => (u \in Open' <=> u \in Open)
    BY <1>1, <1>3 DEF Open, Threads
  <2>2. Open' \subseteq Users /\ Open \subseteq Users
    BY <1>5 DEF Open, IInv, Shapes
  <2>3. t \in Users => (t \in Open' <=> t \in txn')
    BY <1>2 DEF Open
  <2>4. t \in Users => (t \in Open <=> t \in txn \/ pc[t] = "starting")
    BY DEF Open
  <2>5. pc[t] = "starting" => t \notin txn
    BY DEF IInv, Counted
  <2>6. pc[t] = "ending" => t \in txn
    BY DEF IInv, Counted
  <2>7. t \in Open' <=> t \in Open /\ ~(pc[t] = "ending" \/ (pc[t] = "starting" /\ ~ok))
    BY <1>0, <1>3, <1>4, <2>2, <2>3, <2>4, <2>5, <2>6
  <2>8. \A u \in Users : u \in Open' <=> u \in Open /\
              ~(u = t /\ (pc[t] = "ending" \/ (pc[t] = "starting" /\ ~ok)))
    BY <2>1, <2>7
  <2>. QED  BY <2>2, <2>8
<1>9. pc[t] \in {"ending", "starting"} => t \in Open
  BY <1>0, <1>4 DEF Open, IInv, Counted
<1>10. IsFiniteSet(Open') /\ transaction_count' = Cardinality(Open')
  <2>1. IsFiniteSet(Open) /\ transaction_count = Cardinality(Open)
    BY DEF IInv, Counted
  <2>2. CASE pc[t] = "ending" \/ (pc[t] = "starting" /\ ~ok)
    BY <1>3, <1>8, <1>9, <2>1, <2>2, FS_RemoveElement
  <2>3. CASE ~(pc[t] = "ending" \/ (pc[t] = "starting" /\ ~ok))
    BY <1>3, <1>8, <2>1, <2>3
  <2>. QED  BY <2>2, <2>3
<1>11. Counted'
  <2>1. \A u \in Threads : u # t => (u \in txn' <=> u \in txn)
    BY <1>3
  <2>. QED  BY <1>1, <1>2, <1>7, <1>10, <2>1 DEF IInv, Counted
<1>12. Staged'
  <2>1. pc'[Suspender] = pc[Suspender] \/ pc'[Suspender] = "idle"
    BY <1>0, <1>1, <1>4 DEF Finish, Go, IInv, Shapes
  <2>2. Open' \subseteq Open
    BY <1>8
  <2>. QED  BY <2>1, <2>2 DEF IInv, Staged
<1>. QED  BY <1>6, <1>11, <1>12

(* Sending: request_mutex is free, so nothing else is on the rings.        *)
LEMMA SendKeeps ==
  ASSUME IInv, FilesServed, NEW t \in Threads, Send(t)
  PROVE  IInv'
<1>1. pc[t] \in Requests /\ request_mutex = None
  BY DEF Send
<1>2. UNCHANGED <<transaction_mutex, stage, response_mutex, inbox, reply_list>>
  BY DEF Send
<1>3. None \notin Threads /\ Suspender \in Threads
  BY XsAssumption DEF Threads
<1>4. Silent /\ stage \notin {"requests", "saved"}
  BY <1>1, <1>3 DEF IInv, Wired, Talking
<1>5. CASE /\ request_mutex' = t /\ wire' = t
           /\ UNCHANGED <<pc, arg, watch_readers, watches, transaction_count, txn, holders, todo>>
  <2>1. Shapes'
    BY <1>2, <1>5 DEF IInv, Shapes
  <2>2. Open' = Open
    BY <1>5 DEF Open
  <2>3. Counted'
    BY <1>5, <2>2 DEF IInv, Counted
  <2>4. Staged'
    BY <1>2, <1>5, <2>2 DEF IInv, Staged
  <2>5. Talking(t)'
    BY <1>1, <1>2, <1>4, <1>5 DEF Talking, Asked, Silent, NoReply
  <2>. QED  BY <1>2, <1>4, <2>1, <2>3, <2>4, <2>5 DEF IInv, Wired
<1>6. CASE t \in Signalled /\ GiveUp(t)
  <2>1. t \notin Files
    BY <1>6 DEF FilesServed
  <2>2. Finish(t, FALSE) /\ UNCHANGED <<request_mutex, wire>>
    BY <1>6, <2>1 DEF GiveUp
  <2>3. reply_list' \in Seq(Replies)
    BY <1>2 DEF IInv, Shapes
  <2>4. Shapes' /\ Counted' /\ Staged'
    BY <1>1, <1>2, <2>1, <2>2, <2>3, FinishCounts
  <2>5. Wired'
    BY <1>1, <1>2, <1>4, <2>2 DEF Wired, Silent, NoReply
  <2>. QED  BY <2>4, <2>5 DEF IInv
<1>. QED  BY <1>5, <1>6 DEF Send

(* A reply is read by the one it is for.                                   *)
LEMMA GetReplyKeeps ==
  ASSUME IInv, FilesServed, NEW t \in Threads, GetReply(t)
  PROVE  IInv'
<1>1. request_mutex = t /\ pc[t] \in Requests /\ reply_list # <<>>
      /\ Finish(t, Head(reply_list).ok) /\ reply_list' = Tail(reply_list)
      /\ request_mutex' = None
      /\ UNCHANGED <<transaction_mutex, stage, response_mutex, inbox, wire>>
  BY DEF GetReply, storeVars
<1>2. None \notin Threads
  BY XsAssumption
<1>3. stage \notin {"requests", "saved"} /\ Listed(t)
  BY <1>1, <1>2 DEF IInv, Wired, Silent, Talking, Asked, Answered
<1>4. /\ Head(reply_list) = reply_list[1] /\ Head(reply_list) \in Replies
      /\ Tail(reply_list) = <<>>
  <2>1. reply_list \in Seq(Replies) /\ Len(reply_list) = 1
    BY <1>3 DEF IInv, Shapes, Listed
  <2>2. Tail(reply_list) \in Seq(Replies) /\ Len(Tail(reply_list)) = 0
    BY <1>1, <2>1, HeadTailProperties
  <2>. QED  BY <1>1, <2>1, <2>2, EmptySeq
<1>5. Head(reply_list).ok \in BOOLEAN /\ Head(reply_list).from = t
  BY <1>3, <1>4 DEF Replies, Listed
<1>6. pc[t] = "starting" /\ ~Head(reply_list).ok => t \notin Files
  BY <1>3, <1>4, <1>5 DEF Listed, Right, FilesServed
<1>7. reply_list' \in Seq(Replies)
  BY <1>1, <1>4, EmptySeq
<1>8. Shapes' /\ Counted' /\ Staged'
  BY <1>1, <1>5, <1>6, <1>7, FinishCounts
<1>9. Wired'
  BY <1>1, <1>3, <1>4 DEF Wired, Silent, Listed, NoReply
<1>. QED  BY <1>8, <1>9 DEF IInv

--------------------------------------------------------------------------------
(* Steps that change messages alone.                                       *)
Posted == UNCHANGED <<pc, arg, txn, holders, transaction_count, transaction_mutex, stage,
                      request_mutex>>

LEMMA PostedKeeps ==
  ASSUME IInv, Posted, stage = "saved" => response_mutex' = Suspender,
         inbox' \in Seq(Msgs), reply_list' \in Seq(Replies), Wired'
  PROVE  IInv'
<1>1. Open' = Open
  BY DEF Open, Posted
<1>2. Shapes'
  BY DEF IInv, Shapes, Posted, Msgs
<1>3. Counted'
  BY <1>1 DEF IInv, Counted, Posted
<1>4. Staged'
  BY <1>1 DEF IInv, Staged, Posted
<1>. QED  BY <1>2, <1>3, <1>4 DEF IInv

LEMMA AnswerKeeps ==
  ASSUME IInv, ServerAnswers
  PROVE  IInv'
<1>0. None \notin Threads /\ wire # None
  BY XsAssumption DEF ServerAnswers
<1>1. Posted /\ UNCHANGED <<response_mutex, reply_list>> /\ wire' = None
  BY DEF ServerAnswers, Posted, userVars, txnVars, suspVars, talkVars
<1>2. PICK t \in Threads : Talking(t) /\ stage \notin {"requests", "saved"}
  BY <1>0 DEF IInv, Wired, Silent
<1>3. Asked(t) /\ wire = t
  BY <1>0, <1>2 DEF Talking, Asked, Answered, Listed
<1>4. PICK ok \in BOOLEAN :
         /\ pc[wire] = "starting" => ok \/ wire \in Refused
         /\ \/ inbox' = Append(inbox, [type |-> "reply", from |-> wire, ok |-> ok])
            \/ inbox' = Append(Append(inbox, [type |-> "reply", from |-> wire, ok |-> ok]),
                               [type |-> "event", watch |-> arg[wire]])
  BY DEF ServerAnswers
<1>. DEFINE r == [type |-> "reply", from |-> t, ok |-> ok]
            e == [type |-> "event", watch |-> arg[t]]
<1>5. r \in Replies /\ r.from = t /\ r.ok = ok
  BY DEF Replies
<1>6. e \in Events
  BY DEF Events, IInv, Shapes
<1>7. Right(r)
  BY <1>3, <1>4, <1>5 DEF Right
<1>8. inbox \in Seq(Msgs) /\ NoReply(inbox)
  BY <1>3 DEF IInv, Shapes, Msgs, Asked
<1>9. Append(inbox, r) \in Seq(Msgs) /\ OneReply(Append(inbox, r), t)
  BY <1>5, <1>7, <1>8, ReplyAppended
<1>10. inbox' \in Seq(Msgs) /\ OneReply(inbox', t)
  BY <1>3, <1>4, <1>6, <1>9, EventAppended
<1>11. Answered(t)'
  BY <1>1, <1>3, <1>10 DEF Answered, Asked, OneReply, Right, Posted
<1>12. Wired'
  BY <1>1, <1>2, <1>11 DEF Wired, Talking, Posted
<1>. QED  BY <1>1, <1>10, <1>12, PostedKeeps DEF IInv, Shapes, Staged

(* An event is added.                                                      *)
LEMMA ChangeKeeps ==
  ASSUME IInv, NEW w \in Watches, NodeChanges(w)
  PROVE  IInv'
<1>1. Posted /\ UNCHANGED <<response_mutex, reply_list, wire>>
  BY DEF NodeChanges, Posted, userVars, txnVars, suspVars, talkVars
<1>2. [type |-> "event", watch |-> w] \in Events
  BY DEF Events
<1>3. inbox' = Append(inbox, [type |-> "event", watch |-> w]) /\ inbox \in Seq(Msgs)
  BY DEF NodeChanges, IInv, Shapes, Msgs
<1>4. inbox' \in Seq(Msgs) /\ (NoReply(inbox) => NoReply(inbox'))
      /\ \A t : OneReply(inbox, t) => OneReply(inbox', t)
  BY <1>2, <1>3, EventAppended
<1>5. Wired'
  <2>1. Silent => Silent'
    BY <1>1, <1>4 DEF Silent, NoReply
  <2>2. \A t \in Threads : Talking(t) => Talking(t)'
    BY <1>1, <1>4 DEF Talking, Asked, Answered, Listed, Posted, NoReply, OneReply, Right
  <2>. QED  BY <1>1, <2>1, <2>2 DEF Wired, IInv, Posted
<1>. QED  BY <1>1, <1>4, <1>5, PostedKeeps DEF IInv, Shapes, Staged

(* A message is delivered: a reply leaves the ring for the list.           *)
LEMMA DeliverKeeps ==
  ASSUME IInv, DeliverMsg
  PROVE  IInv'
<1>1. Posted /\ wire' = wire /\ response_mutex = "xenbus" /\ inbox # <<>>
      /\ inbox' = Tail(inbox)
      /\ IF Head(inbox).type = "reply" THEN reply_list' = Append(reply_list, Head(inbox))
                                       ELSE reply_list' = reply_list
  BY DEF DeliverMsg, Posted, userVars, txnVars, suspVars
<1>2. stage # "saved"
  BY <1>1, XsAssumption DEF IInv, Staged, Threads
<1>3. inbox \in Seq(Msgs) /\ reply_list \in Seq(Replies)
  BY DEF IInv, Shapes, Msgs
<1>4. inbox' \in Seq(Msgs) /\ Head(inbox) \in Msgs
  BY <1>1, <1>3, HeadRead
<1>5. reply_list' \in Seq(Replies)
  <2>1. Head(inbox).type = "reply" => Head(inbox) \in Replies
    BY <1>4, MsgTypes
  <2>2. CASE Head(inbox).type = "reply"
    <3>1. reply_list' = Append(reply_list, Head(inbox)) /\ Head(inbox) \in Replies
      BY <1>1, <2>1, <2>2
    <3>2. Append(reply_list, Head(inbox)) \in Seq(Replies)
      BY Zenon, <1>3, <3>1, AppendProperties
    <3>. QED  BY <3>1, <3>2
  <2>3. CASE Head(inbox).type # "reply"
    BY <1>1, <1>3, <2>3
  <2>. QED  BY <2>2, <2>3
<1>6. NoReply(inbox) => NoReply(inbox') /\ reply_list' = reply_list
  BY <1>1, <1>3, HeadRead
<1>7. Silent => Silent'
  BY <1>1, <1>6 DEF Silent, NoReply
<1>8. ASSUME NEW t \in Threads, Talking(t)
      PROVE  Talking(t)'
  <2>1. Asked(t) => Asked(t)'
    BY <1>1, <1>6 DEF Asked, NoReply
  <2>2. Listed(t) => Listed(t)'
    BY <1>1, <1>6 DEF Listed, NoReply, Right, Posted
  <2>3. CASE Answered(t) /\ Head(inbox).type = "reply"
    <3>1. Head(inbox).from = t /\ Right(Head(inbox)) /\ NoReply(inbox')
      BY <1>1, <1>3, <2>3, HeadRead DEF Answered
    <3>2. reply_list' = <<Head(inbox)>>
      BY <1>1, <2>3 DEF Answered
    <3>. QED  BY <1>1, <1>8, <2>3, <3>1, <3>2 DEF Talking, Listed, Answered, NoReply, Right, Posted
  <2>4. CASE Answered(t) /\ Head(inbox).type # "reply"
    <3>1. OneReply(inbox', t) /\ reply_list' = reply_list
      BY <1>1, <1>3, <2>4, HeadRead DEF Answered
    <3>. QED  BY <1>1, <1>8, <2>4, <3>1 DEF Talking, Answered, OneReply, Right, Posted
  <2>. QED  BY <1>1, <1>8, <2>1, <2>2, <2>3, <2>4 DEF Talking, Posted
<1>9. Wired'
  BY <1>1, <1>7, <1>8 DEF IInv, Wired, Posted
<1>. QED  BY <1>1, <1>2, <1>4, <1>5, <1>9, PostedKeeps

--------------------------------------------------------------------------------
(* The steps of a suspend and of a resume.                                 *)
LEMMA StageKeeps ==
  ASSUME IInv, UNCHANGED <<pc, arg, txn, holders, transaction_count, reply_list>>,
         inbox' \in Seq(Msgs), Staged', Wired'
  PROVE  IInv'
<1>1. Open' = Open
  BY DEF Open
<1>2. Shapes'
  BY DEF IInv, Shapes, Msgs
<1>3. Counted'
  BY <1>1 DEF IInv, Counted
<1>. QED  BY <1>2, <1>3 DEF IInv

(* Locks are taken: between messages and with every transaction over.      *)
LEMMA LockKeeps ==
  ASSUME IInv, SuspendTransactions \/ SuspendWatches \/ SuspendRequests \/ SuspendResponses
  PROVE  IInv'
<1>0. None \notin Threads /\ Suspender \in Threads
  BY XsAssumption DEF Threads
<1>1. /\ UNCHANGED <<pc, arg, txn, holders, transaction_count, reply_list, inbox, wire>>
      /\ Open' = Open /\ inbox' \in Seq(Msgs)
  BY DEF SuspendTransactions, SuspendWatches, SuspendRequests, SuspendResponses, userVars,
         txnVars, talkVars, storeVars, Open, IInv, Shapes, Msgs
<1>2. Silent => Silent'
  BY <1>1 DEF Silent, NoReply
<1>3. \A t \in Threads : request_mutex' = request_mutex /\ Talking(t) => Talking(t)'
  BY <1>1 DEF Talking, Asked, Answered, Listed, NoReply, OneReply, Right
<1>4. CASE SuspendTransactions
  <2>1. stage = "running" /\ stage' = "counting" /\ transaction_mutex' = Suspender
        /\ UNCHANGED <<request_mutex, response_mutex>>
    BY <1>4 DEF SuspendTransactions, talkVars
  <2>2. Staged'
    BY <1>1, <2>1 DEF IInv, Staged
  <2>3. Wired'
    BY <1>2, <1>3, <2>1 DEF IInv, Wired
  <2>. QED  BY <1>1, <2>2, <2>3, StageKeeps
<1>5. CASE SuspendWatches
  <2>1. stage = "counting" /\ stage' = "watches" /\ transaction_count = 0
        /\ UNCHANGED <<request_mutex, response_mutex, transaction_mutex>>
    BY <1>5 DEF SuspendWatches, talkVars, txnVars
  <2>2. Open = {}
    BY <2>1, FS_EmptySet DEF IInv, Counted
  <2>3. Staged'
    BY <1>1, <2>1, <2>2 DEF IInv, Staged
  <2>4. Wired'
    BY <1>2, <1>3, <2>1 DEF IInv, Wired
  <2>. QED  BY <1>1, <2>3, <2>4, StageKeeps
<1>6. CASE SuspendRequests
  <2>1. stage = "watches" /\ stage' = "requests" /\ request_mutex = None
        /\ request_mutex' = Suspender /\ UNCHANGED <<response_mutex, transaction_mutex>>
    BY <1>6 DEF SuspendRequests, txnVars
  <2>2. Staged'
    BY <1>1, <2>1 DEF IInv, Staged
  <2>3. Wired'
    BY <1>0, <1>2, <2>1 DEF IInv, Wired, Talking
  <2>. QED  BY <1>1, <2>2, <2>3, StageKeeps
<1>7. CASE SuspendResponses
  <2>1. stage = "requests" /\ stage' = "saved" /\ response_mutex' = Suspender
        /\ UNCHANGED <<request_mutex, transaction_mutex>>
    BY <1>7 DEF SuspendResponses, txnVars
  <2>2. Staged'
    BY <1>1, <2>1 DEF IInv, Staged
  <2>3. Wired'
    BY <1>2, <2>1 DEF IInv, Wired
  <2>. QED  BY <1>1, <2>2, <2>3, StageKeeps
<1>. QED  BY <1>4, <1>5, <1>6, <1>7

(* Locks are released, on this host or on the next.                        *)
LEMMA UnlockKeeps ==
  ASSUME IInv, SuspendCancel \/ Resume \/ ResumeDone
  PROVE  IInv'
<1>1. UNCHANGED <<pc, arg, txn, holders, transaction_count, reply_list, wire>> /\ Open' = Open
  BY DEF SuspendCancel, Resume, ResumeDone, Unlock, userVars, txnVars, talkVars, storeVars, Open
<1>2. inbox' = inbox \/ inbox' = <<>>
  BY DEF SuspendCancel, Resume, ResumeDone, storeVars
<1>3. inbox' \in Seq(Msgs)
  BY <1>2, EmptySeq DEF IInv, Shapes, Msgs
<1>4. Silent => Silent'
  BY <1>1, <1>2 DEF Silent, NoReply
<1>5. CASE SuspendCancel \/ Resume
  <2>1. stage = "saved" /\ stage' \in {"running", "resuming"}
        /\ request_mutex' = None /\ transaction_mutex' = None
    BY <1>5 DEF SuspendCancel, Resume, Unlock
  <2>2. Staged'
    BY <1>1, <2>1 DEF IInv, Staged
  <2>3. Wired'
    BY <1>4, <2>1 DEF IInv, Wired
  <2>. QED  BY <1>1, <1>3, <2>2, <2>3, StageKeeps
<1>6. CASE ResumeDone
  <2>1. stage = "resuming" /\ stage' = "running" /\ pc[Suspender] = "idle"
        /\ UNCHANGED <<transaction_mutex, request_mutex, inbox>>
    BY <1>6 DEF ResumeDone, txnVars, talkVars, storeVars
  <2>2. Staged'
    BY <1>1, <2>1 DEF IInv, Staged
  <2>3. \A t \in Threads : Talking(t) => Talking(t)'
    BY <1>1, <2>1 DEF Talking, Asked, Answered, Listed, NoReply, OneReply, Right
  <2>4. Wired'
    BY <1>4, <2>1, <2>3 DEF IInv, Wired
  <2>. QED  BY <1>1, <1>3, <2>2, <2>4, StageKeeps
<1>. QED  BY <1>5, <1>6

(* A watch is registered again. *)
LEMMA ResumeWatchKeeps ==
  ASSUME IInv, NEW w \in Watches, ResumeWatch(w)
  PROVE  IInv'
<1>0. Suspender \in Threads /\ Suspender \notin Users
  BY XsAssumption DEF Threads
<1>1. /\ stage = "resuming" /\ pc[Suspender] = "idle"
      /\ pc' = [pc EXCEPT ![Suspender] = "registering"]
      /\ arg' = [arg EXCEPT ![Suspender] = w]
      /\ UNCHANGED <<txn, holders, transaction_count, transaction_mutex, stage>>
      /\ UNCHANGED <<request_mutex, response_mutex, reply_list, inbox, wire>>
  BY DEF ResumeWatch, Go, txnVars, talkVars, suspVars, storeVars
<1>2. Shapes'
  BY <1>0, <1>1 DEF IInv, Shapes, Requests
<1>3. \A u \in Threads : u # Suspender => pc'[u] = pc[u]
  BY <1>1 DEF IInv, Shapes
<1>4. pc'[Suspender] = "registering"
  BY <1>0, <1>1 DEF IInv, Shapes
<1>5. Open' = Open
  BY <1>0, <1>1, <1>3 DEF Open, Threads
<1>6. Counted'
  BY <1>0, <1>1, <1>3, <1>4, <1>5 DEF IInv, Counted
<1>7. Staged'
  BY <1>1, <1>4, <1>5 DEF IInv, Staged
<1>8. Wired'
  <2>1. Silent => Silent'
    BY <1>1 DEF Silent, NoReply
  <2>2. ASSUME NEW t \in Threads, Talking(t)
        PROVE  Talking(t)'
    <3>1. pc'[t] = pc[t]
      BY <1>1, <1>3, <2>2 DEF Talking, Requests
    <3>. QED  BY <1>1, <1>2, <2>2, <3>1, OthersMove DEF IInv
  <2>. QED  BY <1>1, <2>1, <2>2 DEF IInv, Wired
<1>. QED  BY <1>2, <1>6, <1>7, <1>8 DEF IInv

(* The reader takes its lock, the xenwatch thread an event.                *)
LEMMA ThreadsKeep ==
  ASSUME IInv, ProcessMsg \/ XenwatchTakes \/ XenwatchDone
  PROVE  IInv'
<1>0. None # Suspender
  BY XsAssumption DEF Threads
<1>1. Posted /\ UNCHANGED <<reply_list, inbox, wire>>
  BY DEF ProcessMsg, XenwatchTakes, XenwatchDone, Posted, userVars, txnVars, talkVars, suspVars,
         storeVars
<1>2. response_mutex' = response_mutex \/ response_mutex = None
  BY DEF ProcessMsg, XenwatchTakes, XenwatchDone, talkVars
<1>3. stage = "saved" => response_mutex' = Suspender
  BY <1>0, <1>2 DEF IInv, Staged
<1>4. inbox' \in Seq(Msgs) /\ reply_list' \in Seq(Replies)
  BY <1>1 DEF IInv, Shapes, Msgs
<1>5. Wired'
  <2>1. Silent => Silent'
    BY <1>1 DEF Silent, NoReply
  <2>2. \A t \in Threads : Talking(t) => Talking(t)'
    BY <1>1 DEF Talking, Asked, Answered, Listed, Posted, NoReply, OneReply, Right
  <2>. QED  BY <1>1, <2>1, <2>2 DEF Wired, IInv, Posted
<1>. QED  BY <1>1, <1>3, <1>4, <1>5, PostedKeeps

--------------------------------------------------------------------------------
LEMMA StepInv ==
  ASSUME IInv, FilesServed, [Next]_vars
  PROVE  IInv'
<1>1. ASSUME NEW t \in Users, UserNext(t) \/ FileRelease(t) \/ ReleaseNext(t)
      PROVE  IInv'
  <2>1. PICK x \in Requests \cup Waits : Move(t, x)
    BY <1>1, UserMoves
  <2>2. Shapes' /\ Counted' /\ Staged'
    BY <2>1, MoveCounts
  <2>. QED  BY <2>1, <2>2, MoveWired DEF IInv
<1>2. ASSUME NEW t \in Threads, Send(t) \/ GetReply(t)
      PROVE  IInv'
  BY <1>2, SendKeeps, GetReplyKeeps
<1>3. CASE ServerAnswers \/ DeliverMsg \/ \E w \in Watches : NodeChanges(w)
  BY <1>3, AnswerKeeps, DeliverKeeps, ChangeKeeps
<1>4. CASE ProcessMsg \/ XenwatchTakes \/ XenwatchDone
  BY <1>4, ThreadsKeep
<1>5. CASE SuspendNext
  BY <1>5, LockKeeps, UnlockKeeps, ResumeWatchKeeps DEF SuspendNext
<1>6. CASE UNCHANGED vars
  <2>1. /\ Posted /\ UNCHANGED <<response_mutex, reply_list, inbox, wire>>
    BY <1>6 DEF vars, Posted, userVars, txnVars, talkVars, suspVars, storeVars
  <2>2. inbox' \in Seq(Msgs) /\ reply_list' \in Seq(Replies)
    BY <2>1 DEF IInv, Shapes, Msgs
  <2>3. Wired'
    BY <2>1 DEF IInv, Wired, Silent, Talking, Asked, Answered, Listed, Posted, NoReply,
                OneReply, Right
  <2>. QED  BY <2>1, <2>2, <2>3, PostedKeeps DEF IInv, Staged
<1>7. Files \subseteq Users
  BY DEF Users
<1>. QED  BY <1>1, <1>2, <1>3, <1>4, <1>5, <1>6, <1>7 DEF Next

LEMMA Invariant ==
  ASSUME FilesServed
  PROVE  Spec => []IInv
<1>1. IInv /\ [Next]_vars => IInv'
  BY StepInv
<1>. QED  BY <1>1, InitInv, PTL DEF Spec

--------------------------------------------------------------------------------
(* transaction_count is the number of transactions open or being opened:   *)
(* transaction_start, transaction_end and every error path between them    *)
(* agree (xenbus_xs.c:232 to 244 and 261 to 284), so xs_suspend waits for  *)
(* the right thing. *)
THEOREM CountKept ==
  ASSUME FilesServed
  PROVE  Spec => []CountExact
<1>1. IInv => CountExact
  BY DEF IInv, Counted, CountExact, Open
<1>. QED  BY <1>1, Invariant, PTL

(* read_reply hands out a reply to the thread that asked, though replies   *)
(* carry no name (xenbus_xs.c:184): request_mutex alone pairs them.        *)
THEOREM RepliesPaired ==
  ASSUME FilesServed
  PROVE  Spec => []ReplyIsMine
<1>1. IInv => ReplyIsMine
  <2>1. SUFFICES ASSUME IInv, reply_list # <<>>
        PROVE  Len(reply_list) = 1 /\ Head(reply_list).from = request_mutex
    BY DEF ReplyIsMine
  <2>2. PICK t \in Threads : Talking(t)
    BY <2>1 DEF IInv, Wired, Silent
  <2>3. Listed(t) /\ request_mutex = t
    BY <2>1, <2>2 DEF Talking, Asked, Answered
  <2>4. Head(reply_list) = reply_list[1]
    BY <2>1, <2>3 DEF IInv, Shapes
  <2>. QED  BY <2>3, <2>4 DEF Listed
<1>. QED  BY <1>1, Invariant, PTL

(* When xs_suspend (xenbus_xs.c:810) has returned, no transaction is open, *)
(* no request is under way and no message is half read.                    *)
THEOREM SaveIsQuiet ==
  ASSUME FilesServed
  PROVE  Spec => []QuietAtSave
<1>1. IInv => QuietAtSave
  <2>1. SUFFICES ASSUME IInv, stage = "saved" PROVE QuietAtSave
    BY DEF QuietAtSave
  <2>2. Open = {} /\ response_mutex = Suspender
    BY <2>1 DEF IInv, Staged
  <2>3. Silent
    BY <2>1 DEF IInv, Wired
  <2>4. \A t \in Users : pc[t] \notin {"starting", "ending"}
    BY <2>1, <2>2 DEF IInv, Counted, Open, Threads
  <2>. QED  BY <2>1, <2>2, <2>3, <2>4 DEF QuietAtSave, Open, Silent, NoReply
<1>. QED  BY <1>1, Invariant, PTL

--------------------------------------------------------------------------------
(* Induction over numbers without an operator for a parameter, and what    *)
(* follows for a list.                                                     *)

(* A set of naturals has a least element: as k grows, 0..k does.           *)
LEMMA LeastElement ==
  ASSUME NEW T, T \subseteq Nat, T # {}
  PROVE  \E x \in T : \A y \in T : x <= y
<1>. DEFINE R == StrictSubsetOrdering(Nat)
            S == FiniteSubsetsOf(Nat)
            U == {0..k : k \in T}
<1>1. IsWellFoundedOn(R, S)
  BY FS_StrictSubsetOrderingWellFounded
<1>2. U \subseteq S /\ U # {}
  <2>1. \A k \in T : IsFiniteSet(0..k) /\ 0..k \in SUBSET Nat
    BY FS_Interval
  <2>. QED  BY <2>1 DEF FiniteSubsetsOf
<1>3. \E u \in U : \A v \in U : ~ (<<v, u>> \in R)
  <2>. HIDE DEF R, S, U
  <2>. QED  BY <1>1, <1>2, WFMin
<1>4. PICK x \in T : \A y \in T : ~ (<<0..y, 0..x>> \in R)
  BY <1>3
<1>5. ASSUME NEW y \in T, y < x PROVE FALSE
  <2>1. 0..y \subseteq 0..x /\ x \in 0..x /\ x \notin 0..y
    BY <1>5
  <2>2. 0..y \in SUBSET Nat /\ 0..x \in SUBSET Nat /\ 0..y # 0..x
    BY <2>1
  <2>3. <<0..y, 0..x>> \in R
    BY <2>1, <2>2 DEF StrictSubsetOrdering
  <2>. QED  BY <2>3, <1>4
<1>. QED  BY <1>5

(* Induction up to m, on the set of numbers it has been shown for.         *)
LEMMA UpTo ==
  ASSUME NEW m \in Nat, NEW T, 0 \in T, \A n \in 1..m : n - 1 \in T => n \in T
  PROVE  \A n \in 0..m : n \in T
<1>. DEFINE Rest == (0..m) \ T
<1>1. SUFFICES ASSUME Rest # {} PROVE FALSE
  OBVIOUS
<1>2. Rest \subseteq Nat
  OBVIOUS
<1>3. \E x \in Rest : \A y \in Rest : x <= y
  <2>. HIDE DEF Rest
  <2>. QED  BY <1>1, <1>2, LeastElement
<1>4. PICK x \in Rest : \A y \in Rest : x <= y
  BY <1>3
<1>5. x \in 1..m /\ x - 1 \in 0..m /\ ~(x <= x - 1)
  OBVIOUS
<1>6. x - 1 \in T
  BY <1>4, <1>5
<1>. QED  BY <1>5, <1>6

(* A function may be defined by what it is at 0 and its step F.            *)
Recursion(g, m, e, F) == g[0] = e /\ \A i \in 1..m : g[i] = F[<<g[i - 1], i>>]

LEMMA RecursionWorks ==
  ASSUME NEW m \in Nat, NEW S, NEW e \in S, NEW F \in [S \X (1..m) -> S]
  PROVE  \E g \in [0..m -> S] : Recursion(g, m, e, F)
<1>. DEFINE Rec(n, g) == Recursion(g, n, e, F)
            T == {n \in 0..m : \E g \in [0..n -> S] : Rec(n, g)}
<1>1. 0 \in T
  <2>. DEFINE h == [i \in 0..0 |-> e]
  <2>1. h \in [0..0 -> S] /\ h[0] = e
    OBVIOUS
  <2>2. 1..0 = {} /\ 0 \in 0..m
    OBVIOUS
  <2>. HIDE DEF h
  <2>. QED  BY <2>1, <2>2 DEF Recursion
<1>2. ASSUME NEW n \in 1..m, n - 1 \in T PROVE n \in T
  <2>1. PICK g \in [0..(n - 1) -> S] : Rec(n - 1, g)
    BY <1>2
  <2>. DEFINE h == [i \in 0..n |-> IF i = n THEN F[<<g[n - 1], n>>] ELSE g[i]]
  <2>2. n - 1 \in 0..(n - 1) /\ \A i \in 0..n : i # n => i \in 0..(n - 1)
    OBVIOUS
  <2>3. h \in [0..n -> S]
    BY <2>1, <2>2
  <2>4. \A i \in 0..(n - 1) : h[i] = g[i]
    OBVIOUS
  <2>5. h[n] = F[<<g[n - 1], n>>]
    OBVIOUS
  <2>6. h[0] = e
    BY <2>1, <2>4 DEF Recursion
  <2>7. ASSUME NEW i \in 1..n PROVE h[i] = F[<<h[i - 1], i>>]
    <3>. HIDE DEF h
    <3>1. h[i - 1] = g[i - 1]
      BY <2>4
    <3>2. CASE i = n
      BY <2>5, <3>1, <3>2
    <3>3. CASE i # n
      <4>1. i \in 1..(n - 1) /\ i \in 0..(n - 1)
        BY <3>3
      <4>. QED BY <2>1, <2>4, <3>1, <4>1 DEF Recursion
    <3>. QED  BY <3>2, <3>3
  <2>. HIDE DEF h
  <2>8. Rec(n, h)
    BY <2>6, <2>7 DEF Recursion
  <2>. QED  BY <2>3, <2>8
<1>. HIDE DEF T
<1>3. m \in 0..m /\ \A n \in 0..m : n \in T
  BY <1>1, <1>2, UpTo
<1>. QED  BY <1>3 DEF T

(* What the recursive function in Without is, step by step.                *)
Steps(g, s, w) ==
    /\ g[0] = <<>> /\ Without(s, w) = g[Len(s)]
    /\ \A i \in 1..Len(s) : g[i] = IF s[i] = w THEN g[i - 1] ELSE Append(g[i - 1], s[i])

LEMMA WithoutSteps ==
  ASSUME NEW W, NEW s \in Seq(W), NEW w
  PROVE  \E g \in [0..Len(s) -> Seq(W)] : Steps(g, s, w)
<1>. DEFINE Step(g, i) == IF s[i] = w THEN g[i - 1] ELSE Append(g[i - 1], s[i])
            Rec(g) == g = [i \in 0..Len(s) |-> IF i = 0 THEN <<>> ELSE Step(g, i)]
            f == CHOOSE g : Rec(g)
            m == Len(s)
            S == Seq(W)
            e == <<>>
            F == [p \in S \X (1..m) |-> IF s[p[2]] = w THEN p[1] ELSE Append(p[1], s[p[2]])]
<1>1. F \in [S \X (1..m) -> S]
  OBVIOUS
<1>2. m \in Nat /\ e \in S
  OBVIOUS
<1>3. \E g \in [0..m -> S] : Recursion(g, m, e, F)
  <2>. HIDE DEF F, m, S, e
  <2>. QED  BY <1>1, <1>2, RecursionWorks
<1>. PICK g \in [0..m -> S] : Recursion(g, m, e, F)
  BY <1>3
<1>4. ASSUME NEW i \in 1..Len(s) PROVE i - 1 \in 0..Len(s) /\ g[i] = Step(g, i)
  <2>1. i - 1 \in 0..m
    BY <1>2
  <2>2. g[i - 1] \in S /\ g[i] = F[<<g[i - 1], i>>]
    <3>. HIDE DEF F
    <3>. QED  BY <2>1 DEF Recursion
  <2>3. <<g[i - 1], i>> \in S \X (1..m)
    BY <2>2
  <2>4. F[<<g[i - 1], i>>] = Step(g, i)
    BY <2>3
  <2>. QED  BY <2>1, <2>2, <2>4
<1>5. Rec(g)
  <2>1. \A i \in 0..Len(s) : g[i] = IF i = 0 THEN <<>> ELSE Step(g, i)
    <3>. HIDE DEF Step, F
    <3>. QED  BY <1>2, <1>4 DEF Recursion
  <2>. HIDE DEF Step
  <2>. QED  BY <2>1
<1>6. Rec(f)
  <2>. HIDE DEF Rec
  <2>. QED  BY <1>5
<1>7. Without(s, w) = f[Len(s)]
  BY DEF Without
<1>. HIDE DEF f
<1>8. f[0] = <<>> /\ \A i \in 1..Len(s) : f[i] = Step(f, i)
  <2>1. 0 \in 0..Len(s) /\ \A i \in 1..Len(s) : i \in 0..Len(s) /\ i # 0
    BY <1>2
  <2>. HIDE DEF Step
  <2>. QED  BY <1>6, <2>1
<1>9. \A n \in 0..Len(s) : n \in {k \in 0..Len(s) : f[k] = g[k]}
  <2>. DEFINE T == {k \in 0..Len(s) : f[k] = g[k]}
  <2>1. 0 \in T
    <3>. HIDE DEF F
    <3>. QED  BY <1>2, <1>8 DEF Recursion
  <2>2. ASSUME NEW n \in 1..Len(s), n - 1 \in T PROVE n \in T
    <3>1. f[n] = Step(f, n) /\ g[n] = Step(g, n) /\ f[n - 1] = g[n - 1]
      BY <1>4, <1>8, <2>2
    <3>. QED  BY <3>1
  <2>. HIDE DEF T
  <2>3. \A n \in 0..Len(s) : n \in T
    BY <1>2, <2>1, <2>2, UpTo
  <2>. QED  BY <2>3 DEF T
<1>10. m \in 0..m
  BY <1>2
<1>. HIDE DEF F
<1>. QED  BY <1>4, <1>7, <1>9, <1>10 DEF Recursion, Steps

(* It leaves everything but w.                                              *)
LEMMA WithoutSeq ==
  ASSUME NEW W, NEW s \in Seq(W), NEW w
  PROVE  /\ Without(s, w) \in Seq(W)
         /\ ToSet(Without(s, w)) = ToSet(s) \ {w}
<1>0. Len(s) \in Nat /\ (\A i \in 1..Len(s) : s[i] \in W) /\ DOMAIN s = 1..Len(s)
  OBVIOUS
<1>. DEFINE Elements(q) == {q[i] : i \in DOMAIN q}
<1>1. PICK g \in [0..Len(s) -> Seq(W)] : Steps(g, s, w)
  BY WithoutSteps
<1>. DEFINE T == {n \in 0..Len(s) : Elements(g[n]) = {s[i] : i \in 1..n} \ {w}}
<1>2. 0 \in T
  <2>1. Elements(g[0]) = {}
    BY <1>1 DEF Steps
  <2>. QED  BY <1>0, <2>1
<1>3. ASSUME NEW n \in 1..Len(s), n - 1 \in T PROVE n \in T
  <2>1. 1..n = (1..(n-1)) \cup {n}
    OBVIOUS
  <2>2. {s[i] : i \in 1..n} = {s[i] : i \in 1..(n-1)} \cup {s[n]}
    BY <2>1
  <2>. DEFINE q == g[n - 1]
  <2>3. q \in Seq(W) /\ Elements(q) = {s[i] : i \in 1..(n-1)} \ {w} /\ s[n] \in W
    BY <1>0, <1>3
  <2>4. g[n] = IF s[n] = w THEN q ELSE Append(q, s[n])
    BY <1>1 DEF Steps
  <2>. HIDE DEF q
  <2>5. Elements(Append(q, s[n])) = Elements(q) \cup {s[n]}
    <3>1. /\ DOMAIN Append(q, s[n]) = DOMAIN q \cup {Len(q) + 1}
          /\ \A i \in DOMAIN q : Append(q, s[n])[i] = q[i]
          /\ Append(q, s[n])[Len(q) + 1] = s[n]
      BY <2>3
    <3>. QED  BY <3>1
  <2>. HIDE DEF Elements
  <2>. QED  BY <2>2, <2>3, <2>4, <2>5
<1>4. \A n \in 0..Len(s) : n \in T
  <2>. HIDE DEF T
  <2>. QED  BY <1>0, <1>2, <1>3, UpTo
<1>5. Len(s) \in 0..Len(s)
  BY <1>0
<1>6. Without(s, w) \in Seq(W) /\ Elements(Without(s, w)) = {s[i] : i \in DOMAIN s} \ {w}
  <2>1. Without(s, w) = g[Len(s)]
    BY <1>1 DEF Steps
  <2>2. Elements(g[Len(s)]) = {s[i] : i \in 1..Len(s)} \ {w}
    BY <1>4, <1>5
  <2>. HIDE DEF Elements
  <2>. QED  BY <1>0, <1>5, <2>1, <2>2
<1>. QED  BY <1>6 DEF ToSet

(* A list that is added to, or read from.                                  *)
LEMMA ElementsOfSeq ==
  ASSUME NEW W, NEW s \in Seq(W)
  PROVE  /\ \A e \in W : Append(s, e) \in Seq(W) /\ ToSet(Append(s, e)) = ToSet(s) \cup {e}
         /\ s # <<>> => /\ Head(s) \in W /\ Tail(s) \in Seq(W)
                        /\ ToSet(s) = {Head(s)} \cup ToSet(Tail(s))
<1>1. ASSUME NEW e \in W
      PROVE  Append(s, e) \in Seq(W) /\ ToSet(Append(s, e)) = ToSet(s) \cup {e}
  <2>1. /\ Append(s, e) \in Seq(W) /\ DOMAIN Append(s, e) = DOMAIN s \cup {Len(s) + 1}
        /\ \A i \in DOMAIN s : Append(s, e)[i] = s[i]
        /\ Append(s, e)[Len(s) + 1] = e
    OBVIOUS
  <2>. QED  BY <2>1 DEF ToSet
<1>2. ASSUME s # <<>>
      PROVE  /\ Head(s) \in W /\ Tail(s) \in Seq(W)
             /\ ToSet(s) = {Head(s)} \cup ToSet(Tail(s))
  <2>1. /\ Tail(s) \in Seq(W) /\ Head(s) \in W /\ Head(s) = s[1] /\ 1 \in DOMAIN s
        /\ \A i \in DOMAIN Tail(s) : i + 1 \in DOMAIN s /\ Tail(s)[i] = s[i + 1]
        /\ \A i \in DOMAIN s : i # 1 => i - 1 \in DOMAIN Tail(s) /\ Tail(s)[i - 1] = s[i]
    BY <1>2
  <2>2. \A i \in DOMAIN s : s[i] \in {Head(s)} \cup ToSet(Tail(s))
    <3>1. \A i \in DOMAIN s : i # 1 => s[i] \in ToSet(Tail(s))
      BY <2>1 DEF ToSet
    <3>. QED  BY <2>1, <3>1
  <2>3. \A i \in DOMAIN Tail(s) : Tail(s)[i] \in ToSet(s)
    BY <2>1 DEF ToSet
  <2>4. Head(s) \in ToSet(s)
    BY <2>1 DEF ToSet
  <2>. QED  BY <2>1, <2>2, <2>3, <2>4 DEF ToSet
<1>. QED  BY <1>1, <1>2

--------------------------------------------------------------------------------
(* No signal wakes the owner of a watch while the ring is full.            *)
OwnersServed == \A w \in Watches : Owner[w] \notin Signalled

(* From wanting watch_mutex to the cancelled events a thread has a watch   *)
(* in hand, its own but for the suspend's.                                 *)
WatchWork == {"watching", "unwatching", "registering", "unregistering", "cancelling"}

InHand ==
    \A t \in Threads :
        IF pc[t] \in WatchWork
        THEN arg[t] \in Watches /\ (t \in Users => Owner[arg[t]] = t)
        ELSE arg[t] = None

(* The list has it or has it not.                                          *)
OnList ==
    /\ watches \subseteq Watches
    /\ \A t \in Users :
          /\ pc[t] \in {"watching", "unregistering", "cancelling"} => arg[t] \notin watches
          /\ pc[t] \in {"unwatching", "registering"} => arg[t] \in watches

(* watch_mutex is held for reading while a request about a watch is under  *)
(* way, and by the suspend from the last of these to the last watch that   *)
(* is registered again.                                                    *)
WatchLocked ==
    /\ watch_readers = {t \in Users : pc[t] \in {"registering", "unregistering"}}
    /\ watch_writer = (stage \in {"watches", "requests", "saved", "resuming"})
    /\ stage \in {"requests", "saved", "resuming"} => watch_readers = {}
    /\ stage = "resuming" =>
          /\ todo \subseteq watches
          /\ pc[Suspender] = "registering" => arg[Suspender] \in todo

(* xenstored has answered t.                                               *)
Served(t) == request_mutex = t /\ wire = None

(* What xenstored knows: the watches of the list, less those on their way  *)
(* to it, and those on their way off.                                      *)
Known ==
    /\ registered \subseteq Watches
    /\ \A w \in registered :
          w \in watches \/ /\ pc[Owner[w]] = "unregistering" /\ arg[Owner[w]] = w
                           /\ ~Served(Owner[w])
    /\ \A w \in watches :
          \/ w \in registered
          \/ pc[Owner[w]] = "registering" /\ arg[Owner[w]] = w
          \/ stage = "resuming" /\ w \in todo
    /\ \A t \in Threads : pc[t] = "registering" => (arg[t] \in registered <=> Served(t))
    /\ stage = "resuming" =>
          \A w \in todo \cap registered : pc[Suspender] = "registering" /\ arg[Suspender] = w

(* So a registration is never refused.                                     *)
Accepted ==
    \A t \in Threads : pc[t] = "registering" /\ request_mutex = t =>
        /\ \A i \in DOMAIN inbox : inbox[i].type = "reply" => inbox[i].ok
        /\ \A i \in DOMAIN reply_list : reply_list[i].ok

OnItsWay(w) == w \in ToSet(watch_events) \/ [type |-> "event", watch |-> w] \in ToSet(inbox)

(* A change no callback has seen has an event on its way.                  *)
Announced == \A w \in registered \cap watches \cap news : OnItsWay(w)

(* Callbacks run and are queued for watches of the list, or while          *)
(* unregister_xenbus_watch is about to wait for them.                      *)
Expected ==
    /\ watch_events \in Seq(Watches) /\ handling \in Watches \cup {None}
    /\ \A w \in Watches : handling = w \/ w \in ToSet(watch_events) =>
          w \in watches \/ Owner[w] = Xenwatch \/ arg[Owner[w]] = w

WInv == InHand /\ OnList /\ WatchLocked /\ Known /\ Accepted /\ Announced /\ Expected

--------------------------------------------------------------------------------
(* What a step leaves alone keeps its part of the invariant.               *)
Alike == /\ \A t \in Threads : \A k \in WatchWork : pc'[t] = k <=> pc[t] = k
         /\ arg' = arg

LEMMA AlikeKeeps ==
  ASSUME WInv, Alike
  PROVE  /\ InHand'
         /\ watches' = watches => OnList'
         /\ UNCHANGED <<watches, watch_readers, watch_writer, stage, todo>> => WatchLocked'
         /\ /\ UNCHANGED <<watches, registered, stage, todo>>
            /\ \A t \in Threads : pc[t] \in {"registering", "unregistering"} =>
                  (Served(t)' <=> Served(t))
            => Known'
         /\ UNCHANGED <<request_mutex, inbox, reply_list>> => Accepted'
         /\ UNCHANGED <<watches, watch_events, handling>> => Expected'
<1>0. Suspender \in Threads /\ Users \subseteq Threads /\ Owner \in [Watches -> Users]
  BY XsAssumption DEF Threads
<1>1. \A t \in Threads : /\ pc'[t] \in WatchWork <=> pc[t] \in WatchWork
                         /\ \A k \in WatchWork : pc'[t] = k <=> pc[t] = k
  BY DEF Alike
<1>. USE DEF WatchWork
<1>2. InHand'
  BY <1>1 DEF WInv, InHand, Alike
<1>3. watches' = watches => OnList'
  BY <1>0, <1>1 DEF WInv, OnList, Alike
<1>4. UNCHANGED <<watches, watch_readers, watch_writer, stage, todo>> => WatchLocked'
  BY <1>0, <1>1 DEF WInv, WatchLocked, Alike
<1>5. ASSUME UNCHANGED <<watches, registered, stage, todo>>,
             \A t \in Threads : pc[t] \in {"registering", "unregistering"} =>
                  (Served(t)' <=> Served(t))
      PROVE  Known'
  <2>1. watches \subseteq Watches /\ registered \subseteq Watches
    BY DEF WInv, OnList, Known
  <2>2. \A w \in Watches : Owner[w] \in Threads
    BY <1>0
  <2>. QED  BY <1>0, <1>1, <1>5, <2>1, <2>2 DEF WInv, Known, Alike
<1>6. UNCHANGED <<request_mutex, inbox, reply_list>> => Accepted'
  BY <1>1 DEF WInv, Accepted
<1>7. UNCHANGED <<watches, watch_events, handling>> => Expected'
  BY DEF WInv, Expected, Alike
<1>. QED  BY <1>2, <1>3, <1>4, <1>5, <1>6, <1>7

(* Who may have a reply to come. *)
LEMMA Wires ==
  ASSUME IInv
  PROVE  /\ request_mutex = None => wire = None /\ reply_list = <<>> /\ NoReply(inbox)
         /\ stage \notin {"requests", "saved"} =>
               \A t \in Threads : request_mutex = t => Talking(t)
         /\ wire # None => /\ wire \in Threads /\ Talking(wire) /\ Asked(wire)
                           /\ stage \notin {"requests", "saved"}
<1>1. None \notin Threads /\ Suspender \in Threads
  BY XsAssumption DEF Threads
<1>. QED  BY <1>1 DEF IInv, Wired, Silent, Talking, Asked, Answered, Listed

(* A step that has nothing to do with watches.                             *)
Elsewhere ==
    /\ UNCHANGED <<watches, watch_readers, watch_writer, stage, todo, registered, news>>
    /\ UNCHANGED <<watch_events, handling, request_mutex, wire, inbox, reply_list>>

LEMMA PlainKeeps ==
  ASSUME WInv, Alike, Elsewhere
  PROVE  WInv'
<1>1. Announced'
  BY DEF WInv, Announced, OnItsWay, Elsewhere
<1>2. \A t \in Threads : Served(t)' <=> Served(t)
  BY DEF Served, Elsewhere
<1>. QED  BY <1>1, <1>2, AlikeKeeps DEF Elsewhere, WInv

LEMMA InitW == Init => WInv
<1>. SUFFICES ASSUME Init PROVE WInv
  OBVIOUS
<1>0. None \notin Watches /\ Users \subseteq Threads
  BY XsAssumption DEF Threads
<1>1. /\ pc = [t \in Threads |-> "idle"] /\ arg = [t \in Threads |-> None]
      /\ watches = {} /\ watch_events = <<>> /\ registered = {} /\ handling = None
      /\ watch_readers = {} /\ watch_writer = FALSE /\ stage = "running" /\ news = {}
  BY DEF Init
<1>. USE DEF WatchWork
<1>2. InHand /\ OnList
  BY <1>0, <1>1 DEF InHand, OnList
<1>3. WatchLocked /\ Known
  <2>1. \A t \in Threads : pc[t] = "idle"
    BY <1>1
  <2>2. {t \in Users : pc[t] \in {"registering", "unregistering"}} = {}
    BY <1>0, <2>1
  <2>3. stage \notin {"watches", "requests", "saved", "resuming"}
    BY <1>1
  <2>4. WatchLocked
    <3>1. (stage \in {"watches", "requests", "saved", "resuming"}) = FALSE
      BY <2>3
    <3>. QED  BY <1>1, <2>2, <2>3, <3>1, Zenon DEF WatchLocked
  <2>. QED  BY <1>1, <2>1, <2>4 DEF Known
<1>4. Accepted /\ Announced
  BY <1>1 DEF Accepted, Announced
<1>5. Expected
  <2>1. ToSet(watch_events) = {} /\ watch_events \in Seq(Watches)
    BY <1>1 DEF ToSet
  <2>. QED  BY <1>0, <1>1, <2>1 DEF Expected
<1>. QED  BY <1>2, <1>3, <1>4, <1>5 DEF WInv

(* A thread wants watch_mutex.                                             *)
LEMMA WantKeeps ==
  ASSUME IInv, WInv, NEW t \in Users, NEW w \in Watches, pc[t] = "idle",
         NEW x \in {"watching", "unwatching"}, WantWatch(t, w, x)
  PROVE  WInv'
<1>0. /\ t \in Threads /\ t # Suspender /\ Suspender \in Threads /\ Suspender \notin Users
      /\ Users \subseteq Threads
      /\ Owner \in [Watches -> Users] /\ None \notin Watches /\ Owner[w] = t
      /\ (w \in watches <=> x = "unwatching")
  BY XsAssumption DEF Threads, WantWatch
<1>1. /\ \A u \in Threads : pc'[u] = IF u = t THEN x ELSE pc[u]
      /\ \A u \in Threads : arg'[u] = IF u = t THEN w ELSE arg[u]
  BY <1>0 DEF WantWatch, Go, IInv, Shapes
<1>2. Elsewhere
  BY DEF Elsewhere, WantWatch, txnVars, watchVars, talkVars, eventVars, suspVars, storeVars
<1>3. arg[t] = None
  BY <1>0 DEF WInv, InHand, WatchWork
<1>. USE DEF WatchWork, Elsewhere
<1>4. InHand'
  BY <1>0, <1>1 DEF WInv, InHand
<1>5. OnList'
  BY <1>0, <1>1, <1>2 DEF WInv, OnList
<1>6. WatchLocked'
  BY <1>0, <1>1, <1>2 DEF WInv, WatchLocked
<1>7. Known'
  <2>1. watches \subseteq Watches
    BY DEF WInv, OnList
  <2>. QED  BY <1>0, <1>1, <1>2, <2>1 DEF WInv, Known, Served
<1>8. Accepted'
  BY <1>1, <1>2 DEF WInv, Accepted
<1>9. Announced'
  BY <1>2 DEF WInv, Announced, OnItsWay
<1>10. Expected'
  BY <1>0, <1>1, <1>2, <1>3 DEF WInv, Expected
<1>. QED  BY <1>4, <1>5, <1>6, <1>7, <1>8, <1>9, <1>10 DEF WInv

(* It has the mutex, and the list changes.                                 *)
LEMMA ChangeWatchKeeps ==
  ASSUME IInv, WInv, NEW t \in Users, ChangeWatch(t)
  PROVE  WInv'
<1>. DEFINE a == arg[t]
<1>0. /\ t \in Threads /\ t # Suspender /\ Suspender \in Threads /\ Suspender \notin Users
      /\ Users \subseteq Threads
      /\ Owner \in [Watches -> Users] /\ None \notin Watches
  BY XsAssumption DEF Threads
<1>1. /\ pc[t] \in {"watching", "unwatching"} /\ watch_writer = FALSE
      /\ watch_readers' = watch_readers \cup {t}
      /\ watches' = IF pc[t] = "watching" THEN watches \cup {a} ELSE watches \ {a}
      /\ UNCHANGED <<arg, watch_writer, stage, todo, registered, news>>
      /\ UNCHANGED <<watch_events, handling, request_mutex, wire, inbox, reply_list>>
  BY DEF WInv, WatchLocked, ChangeWatch, txnVars, talkVars, eventVars, suspVars, storeVars
<1>2. \A u \in Threads : pc'[u] = IF u # t THEN pc[u] ELSE
                             IF pc[t] = "watching" THEN "registering" ELSE "unregistering"
  BY <1>0, <1>1 DEF ChangeWatch, Go, IInv, Shapes
<1>3. /\ a \in Watches /\ Owner[a] = t /\ (a \in watches <=> pc[t] = "unwatching")
      /\ \A u \in Users : u # t => arg[u] # a
  <2>1. a \in Watches /\ Owner[a] = t
    BY <1>0, <1>1 DEF WInv, InHand, WatchWork
  <2>2. a \in watches <=> pc[t] = "unwatching"
    BY <1>1 DEF WInv, OnList
  <2>3. \A u \in Users : u # t => arg[u] # a
    BY <1>0, <2>1 DEF WInv, InHand, WatchWork
  <2>. QED  BY <2>1, <2>2, <2>3
<1>4. stage \notin {"watches", "requests", "saved", "resuming"}
  BY <1>1 DEF WInv, WatchLocked
<1>5. request_mutex # t
  BY <1>0, <1>1, <1>4, Wires DEF Talking, Requests
<1>6. pc[t] = "watching" => a \notin registered
  BY <1>1, <1>3 DEF WInv, Known
<1>. HIDE DEF a
<1>. USE DEF WatchWork
<1>7. InHand'
  BY <1>0, <1>1, <1>2, <1>3 DEF WInv, InHand
<1>8. OnList'
  <2>1. watches' \subseteq Watches
    BY <1>1, <1>3 DEF WInv, OnList
  <2>2. ASSUME NEW u \in Users
        PROVE  /\ pc'[u] \in {"watching", "unregistering", "cancelling"} => arg'[u] \notin watches'
               /\ pc'[u] \in {"unwatching", "registering"} => arg'[u] \in watches'
    <3>1. CASE u = t
      BY <1>0, <1>1, <1>2, <3>1 DEF a
    <3>2. CASE u # t
      BY <1>0, <1>1, <1>2, <1>3, <3>2 DEF WInv, OnList
    <3>. QED  BY <3>1, <3>2
  <2>. QED  BY <2>1, <2>2 DEF OnList
<1>9. WatchLocked'
  BY <1>0, <1>1, <1>2, <1>4 DEF WInv, WatchLocked
<1>10. Known'
  <2>1. watches \subseteq Watches /\ registered \subseteq Watches
    BY DEF WInv, OnList, Known
  <2>2. \A w \in registered' :
          w \in watches' \/ /\ pc'[Owner[w]] = "unregistering" /\ arg'[Owner[w]] = w
                            /\ ~Served(Owner[w])'
    BY <1>0, <1>1, <1>2, <1>3, <1>5, <2>1 DEF WInv, Known, Served, a
  <2>3. \A w \in watches' :
          \/ w \in registered'
          \/ pc'[Owner[w]] = "registering" /\ arg'[Owner[w]] = w
    BY <1>0, <1>1, <1>2, <1>3, <1>4, <2>1 DEF WInv, Known, a
  <2>4. \A u \in Threads : pc'[u] = "registering" => (arg'[u] \in registered' <=> Served(u)')
    BY <1>0, <1>1, <1>2, <1>5, <1>6 DEF WInv, Known, Served, a
  <2>. QED  BY <1>1, <1>4, <2>1, <2>2, <2>3, <2>4 DEF Known
<1>11. Accepted'
  BY <1>1, <1>2, <1>5 DEF WInv, Accepted
<1>12. Announced'
  BY <1>1, <1>6 DEF WInv, Announced, OnItsWay
<1>13. Expected'
  BY <1>0, <1>1, <1>3 DEF WInv, Expected, a
<1>. QED  BY <1>7, <1>8, <1>9, <1>10, <1>11, <1>12, <1>13 DEF WInv

(* Events of the watch are cancelled, and no callback of it runs but the   *)
(* one that cancels them.                                                  *)
LEMMA CancelKeeps ==
  ASSUME IInv, WInv, NEW t \in Users, CancelEvents(t)
  PROVE  WInv'
<1>. DEFINE a == arg[t]
<1>0. /\ t \in Threads /\ t # Suspender /\ Suspender \in Threads /\ Suspender \notin Users
      /\ Users \subseteq Threads
      /\ Owner \in [Watches -> Users] /\ None \notin Watches
  BY XsAssumption DEF Threads
<1>1. /\ pc[t] = "cancelling" /\ (t = Xenwatch \/ handling = None)
      /\ UNCHANGED <<watches, watch_readers, watch_writer, stage, todo, registered, news>>
      /\ UNCHANGED <<handling, request_mutex, wire, inbox, reply_list>>
  BY DEF CancelEvents, txnVars, watchVars, talkVars, suspVars, storeVars
<1>2. /\ \A u \in Threads : pc'[u] = IF u # t THEN pc[u] ELSE "idle"
      /\ \A u \in Threads : arg'[u] = IF u # t THEN arg[u] ELSE None
  BY <1>0 DEF CancelEvents, Go, IInv, Shapes
<1>3. watch_events' \in Seq(Watches) /\ ToSet(watch_events') = ToSet(watch_events) \ {a}
  BY WithoutSeq DEF CancelEvents, WInv, Expected
<1>4. a \notin watches
  BY <1>1 DEF WInv, OnList
<1>. HIDE DEF a
<1>. USE DEF WatchWork
<1>5. InHand'
  BY <1>0, <1>2 DEF WInv, InHand
<1>6. OnList'
  BY <1>0, <1>1, <1>2 DEF WInv, OnList
<1>7. WatchLocked'
  BY <1>0, <1>1, <1>2 DEF WInv, WatchLocked
<1>8. Known'
  <2>1. watches \subseteq Watches /\ registered \subseteq Watches
    BY DEF WInv, OnList, Known
  <2>. QED  BY <1>0, <1>1, <1>2, <2>1 DEF WInv, Known, Served
<1>9. Accepted'
  BY <1>1, <1>2 DEF WInv, Accepted
<1>10. Announced'
  BY <1>1, <1>3, <1>4 DEF WInv, Announced, OnItsWay
<1>11. Expected'
  BY <1>0, <1>1, <1>2, <1>3 DEF WInv, Expected, a
<1>. QED  BY <1>5, <1>6, <1>7, <1>8, <1>9, <1>10, <1>11 DEF WInv

(* A request goes out, or its thread is woken by a signal.                 *)
LEMMA SendKeepsW ==
  ASSUME IInv, WInv, OwnersServed, NEW t \in Threads, Send(t)
  PROVE  WInv'
<1>0. /\ Users \subseteq Threads /\ Signalled \subseteq Users /\ None \notin Threads
      /\ Suspender \notin Users
  BY XsAssumption DEF Threads
<1>1. pc[t] \in Requests /\ request_mutex = None
      /\ UNCHANGED <<watch_writer, reply_list, watch_events, handling, stage>>
      /\ UNCHANGED <<inbox, registered, news>>
  BY DEF Send, eventVars
<1>2. wire = None /\ reply_list = <<>> /\ NoReply(inbox)
  BY <1>1, Wires
<1>3. CASE request_mutex' = t /\ wire' = t
           /\ UNCHANGED <<pc, arg, watch_readers, watches, transaction_count, txn, holders, todo>>
  <2>1. Alike
    BY <1>3 DEF Alike
  <2>2. \A u \in Threads : ~Served(u) /\ ~Served(u)'
    BY <1>0, <1>1, <1>3 DEF Served
  <2>3. Accepted'
    BY <1>1, <1>2, <1>3 DEF Accepted, NoReply
  <2>4. Announced'
    BY <1>1, <1>3 DEF WInv, Announced, OnItsWay
  <2>. QED  BY <1>1, <1>3, <2>1, <2>2, <2>3, <2>4, AlikeKeeps DEF WInv
<1>4. CASE t \in Signalled /\ GiveUp(t)
  <2>1. \A w \in Watches : Owner[w] # t
    BY <1>4 DEF OwnersServed
  <2>2. pc[t] \notin WatchWork /\ arg[t] = None /\ t # Suspender /\ t \notin watch_readers
    BY <1>0, <1>4, <2>1 DEF WInv, InHand, WatchLocked, WatchWork
  <2>3. Go(t, "idle") \/ pc' = pc
    BY <1>4, <2>2 DEF GiveUp, Finish, WatchWork
  <2>4. arg' = arg
    BY <1>4, <2>2 DEF GiveUp, Finish, IInv, Shapes, WatchWork
  <2>5. Alike
    BY <2>2, <2>3, <2>4 DEF Alike, Go, IInv, Shapes, WatchWork
  <2>6. UNCHANGED <<watches, watch_readers, todo, request_mutex, wire>>
    BY <1>4, <2>2 DEF GiveUp, Finish, WatchWork
  <2>. QED  BY <1>1, <2>5, <2>6, PlainKeeps DEF Elsewhere
<1>. QED  BY <1>3, <1>4 DEF Send

(* A reply is read: a registration is over, or events are to be cancelled. *)
LEMMA GetReplyKeepsW ==
  ASSUME IInv, WInv, NEW t \in Threads, GetReply(t)
  PROVE  WInv'
<1>. DEFINE a == arg[t]
            ok == Head(reply_list).ok
<1>0. /\ Users \subseteq Threads /\ None \notin Threads /\ None \notin Watches
      /\ Suspender \in Threads /\ Suspender \notin Users
      /\ t # Suspender => t \in Users
      /\ Owner \in [Watches -> Users]
  BY XsAssumption DEF Threads
<1>1. /\ request_mutex = t /\ pc[t] \in Requests /\ reply_list # <<>>
      /\ Finish(t, ok)
      /\ request_mutex' = None
      /\ UNCHANGED <<watch_writer, watch_events, handling, stage>>
      /\ UNCHANGED <<wire, inbox, registered, news>>
  BY DEF GetReply, eventVars, storeVars
<1>2. stage \notin {"requests", "saved"}
  BY <1>0, <1>1 DEF IInv, Wired, Silent
<1>3. Served(t)
  BY <1>1, <1>2, Wires DEF Talking, Asked, Answered, Listed, Served
<1>4. \A u \in Threads : ~Served(u)' /\ (u # t => ~Served(u))
  BY <1>0, <1>1 DEF Served
<1>5. Accepted'
  BY <1>0, <1>1 DEF Accepted
<1>6. pc[t] = "registering" => ok
  <2>1. 1 \in DOMAIN reply_list /\ Head(reply_list) = reply_list[1]
    BY <1>1 DEF IInv, Shapes
  <2>. QED  BY <1>1, <2>1 DEF WInv, Accepted
<1>7. watches' = watches /\ Announced'
  <2>1. watches' = watches
    BY <1>1, <1>6 DEF Finish
  <2>. QED  BY <1>1, <2>1 DEF WInv, Announced, OnItsWay
<1>8. /\ \A u \in Threads : pc'[u] = IF u # t THEN pc[u] ELSE
                               IF pc[t] = "unregistering" THEN "cancelling" ELSE "idle"
      /\ \A u \in Threads : arg'[u] = IF u = t /\ pc[t] # "unregistering" THEN None ELSE arg[u]
  BY <1>1 DEF Finish, Go, IInv, Shapes
<1>9. /\ watch_readers' = watch_readers \ {t}
      /\ todo' = IF t = Suspender THEN todo \ {a} ELSE todo
  BY <1>1 DEF Finish
<1>10. t = Suspender => pc[t] = "registering" /\ stage = "resuming"
  BY <1>1 DEF IInv, Staged, Requests
<1>. HIDE DEF a, ok
<1>. USE DEF WatchWork
<1>11. InHand'
  BY <1>0, <1>8 DEF WInv, InHand
<1>12. OnList'
  BY <1>0, <1>7, <1>8 DEF WInv, OnList
<1>13. WatchLocked'
  <2>1. watch_readers' = {u \in Users : pc'[u] \in {"registering", "unregistering"}}
    BY <1>0, <1>8, <1>9 DEF WInv, WatchLocked
  <2>2. stage = "resuming" =>
          /\ todo' \subseteq watches'
          /\ pc'[Suspender] = "registering" => arg'[Suspender] \in todo'
    BY <1>0, <1>7, <1>8, <1>9 DEF WInv, WatchLocked
  <2>. QED  BY <1>1, <1>9, <2>1, <2>2 DEF WInv, WatchLocked
<1>14. Known'
  <2>1. watches \subseteq Watches /\ registered \subseteq Watches
    BY DEF WInv, OnList, Known
  <2>2. \A w \in registered' :
          w \in watches' \/ /\ pc'[Owner[w]] = "unregistering" /\ arg'[Owner[w]] = w
                            /\ ~Served(Owner[w])'
    BY <1>0, <1>1, <1>3, <1>4, <1>7, <1>8, <2>1 DEF WInv, Known
  <2>3. \A w \in watches' :
          \/ w \in registered'
          \/ pc'[Owner[w]] = "registering" /\ arg'[Owner[w]] = w
          \/ stage' = "resuming" /\ w \in todo'
    <3>1. pc[t] = "registering" => a \in registered
      BY <1>3 DEF WInv, Known, a
    <3>2. ASSUME NEW w \in watches, w \notin registered
          PROVE  \/ pc[Owner[w]] = "registering" /\ arg[Owner[w]] = w
                 \/ stage = "resuming" /\ w \in todo
      BY <3>2 DEF WInv, Known
    <3>3. \A w \in watches : Owner[w] \in Users
      BY <1>0, <2>1
    <3>. QED  BY <1>0, <1>1, <1>7, <1>8, <1>9, <1>10, <3>1, <3>2, <3>3 DEF a
  <2>4. \A u \in Threads : pc'[u] = "registering" => (arg'[u] \in registered' <=> Served(u)')
    BY <1>1, <1>4, <1>8 DEF WInv, Known
  <2>5. stage' = "resuming" =>
          \A w \in todo' \cap registered' : pc'[Suspender] = "registering" /\ arg'[Suspender] = w
    BY <1>0, <1>1, <1>8, <1>9 DEF WInv, Known, a
  <2>. QED  BY <1>1, <2>1, <2>2, <2>3, <2>4, <2>5 DEF Known
<1>15. Expected'
  <2>1. pc[t] = "registering" /\ t \in Users => a \in watches
    BY DEF WInv, OnList, a
  <2>2. pc[t] \notin WatchWork => a = None
    BY DEF WInv, InHand, a
  <2>3. pc[t] \in WatchWork => pc[t] \in {"registering", "unregistering"}
    BY <1>1 DEF Requests
  <2>. QED  BY <1>0, <1>1, <1>7, <1>8, <2>1, <2>2, <2>3 DEF WInv, Expected, a
<1>. QED  BY <1>5, <1>7, <1>11, <1>12, <1>13, <1>14, <1>15 DEF WInv

(* xenstored answers: it takes a watch on, with its first event, or off.   *)
LEMMA AnswerKeepsW ==
  ASSUME IInv, WInv, ServerAnswers
  PROVE  WInv'
<1>. DEFINE t == wire
            a == arg[t]
<1>0. /\ Users \subseteq Threads /\ None \notin Threads
      /\ Suspender \in Threads /\ Suspender \notin Users
      /\ \A u \in Threads : u # Suspender => u \in Users
      /\ Owner \in [Watches -> Users]
  BY XsAssumption DEF Threads
<1>1. /\ wire # None /\ wire' = None
      /\ UNCHANGED <<watches, watch_readers, watch_writer, stage, todo, pc, arg>>
      /\ UNCHANGED <<watch_events, handling, request_mutex, reply_list>>
  BY DEF ServerAnswers, txnVars, watchVars, talkVars, userVars, eventVars, suspVars
<1>2. /\ t \in Threads /\ pc[t] \in Requests /\ request_mutex = t
      /\ reply_list = <<>> /\ NoReply(inbox) /\ stage \notin {"requests", "saved"}
  BY <1>1, Wires DEF Talking, Asked
<1>3. Alike
  BY <1>1 DEF Alike
<1>4. \A u \in Threads : ~Served(u) /\ (Served(u)' <=> u = t)
  BY <1>0, <1>1, <1>2 DEF Served
<1>5. inbox \in Seq(Msgs) /\ arg[t] \in Watches \cup {None}
  BY <1>2 DEF IInv, Shapes, Msgs
<1>6. PICK ok \in BOOLEAN :
         LET new   == IF pc[t] = "registering" /\ ok THEN {a} ELSE {}
             reply == [type |-> "reply", from |-> t, ok |-> ok]
             event == [type |-> "event", watch |-> a]
         IN  /\ pc[t] = "registering" => (ok <=> a \notin registered)
             /\ registered' = IF pc[t] = "unregistering" THEN registered \ {a}
                              ELSE registered \cup new
             /\ news' = news \cup new
             /\ inbox' = IF new = {} THEN Append(inbox, reply)
                         ELSE Append(Append(inbox, reply), event)
  BY DEF ServerAnswers
<1>. DEFINE reply == [type |-> "reply", from |-> t, ok |-> ok]
            event == [type |-> "event", watch |-> a]
            box   == Append(inbox, reply)
<1>7. reply \in Msgs /\ event \in Msgs
  BY <1>2, <1>5 DEF Msgs, Replies, Events
<1>8. /\ box \in Seq(Msgs) /\ ToSet(box) = ToSet(inbox) \cup {reply}
      /\ Append(box, event) \in Seq(Msgs)
      /\ ToSet(Append(box, event)) = ToSet(inbox) \cup {reply, event}
  <2>. HIDE DEF reply, event
  <2>1. box \in Seq(Msgs) /\ ToSet(box) = ToSet(inbox) \cup {reply}
    BY <1>5, <1>7, ElementsOfSeq
  <2>. HIDE DEF box
  <2>. QED  BY <1>7, <2>1, ElementsOfSeq
<1>9. pc[t] = "registering" => a \notin registered /\ ok
  BY <1>2, <1>4, <1>6 DEF WInv, Known
<1>10. \A m \in ToSet(inbox) : m.type = "event"
  BY <1>2 DEF NoReply, ToSet
<1>11. pc[t] = "registering" => a \in watches
  <2>1. t = Suspender => stage = "resuming" /\ a \in todo /\ todo \subseteq watches
    BY <1>2 DEF IInv, Staged, WInv, WatchLocked, Requests
  <2>. QED  BY <1>0, <1>2, <2>1 DEF WInv, OnList
<1>12. pc[t] = "unregistering" => a \notin watches /\ t \in Users
  BY <1>0, <1>2 DEF WInv, OnList, IInv, Staged
<1>13. /\ registered' = IF pc[t] = "unregistering" THEN registered \ {a} ELSE
                        IF pc[t] = "registering" THEN registered \cup {a} ELSE registered
       /\ news' = IF pc[t] = "registering" THEN news \cup {a} ELSE news
       /\ inbox' = IF pc[t] = "registering" THEN Append(box, event) ELSE box
  BY <1>6, <1>9
<1>14. pc[t] = "registering" => reply.ok = TRUE
  BY <1>9
<1>15. event = [type |-> "event", watch |-> a] /\ event.type = "event"
  OBVIOUS
<1>. HIDE DEF t, a, reply, event, box
<1>16. ToSet(inbox) \subseteq ToSet(inbox') /\ (pc[t] = "registering" => event \in ToSet(inbox'))
  BY <1>8, <1>13
<1>17. Accepted'
  <2>1. ASSUME NEW u \in Threads, pc'[u] = "registering", request_mutex' = u,
               NEW i \in DOMAIN inbox', inbox'[i].type = "reply"
        PROVE  inbox'[i].ok
    <3>1. pc[t] = "registering"
      BY <1>1, <1>2, <2>1
    <3>2. inbox'[i] \in ToSet(inbox')
      BY DEF ToSet
    <3>3. inbox'[i] = reply
      BY <1>8, <1>10, <1>13, <1>15, <2>1, <3>1, <3>2
    <3>. QED  BY <1>14, <3>1, <3>3
  <2>. QED  BY <1>1, <1>2, <2>1 DEF Accepted
<1>18. Announced'
  BY <1>1, <1>13, <1>15, <1>16 DEF WInv, Announced, OnItsWay
<1>19. Known'
  <2>1. watches \subseteq Watches /\ registered' \subseteq Watches
    BY <1>11, <1>13 DEF WInv, OnList, Known
  <2>2. pc[t] = "registering" /\ stage = "resuming" => t = Suspender
    BY <1>0, <1>2 DEF WInv, WatchLocked
  <2>3. \A w \in registered' :
          w \in watches' \/ /\ pc'[Owner[w]] = "unregistering" /\ arg'[Owner[w]] = w
                            /\ ~Served(Owner[w])'
    <3>1. \A w \in Watches : Owner[w] \in Threads
      BY <1>0
    <3>. QED  BY <1>1, <1>4, <1>11, <1>13, <2>1, <3>1 DEF WInv, Known, a
  <2>4. \A w \in watches' :
          \/ w \in registered'
          \/ pc'[Owner[w]] = "registering" /\ arg'[Owner[w]] = w
          \/ stage' = "resuming" /\ w \in todo'
    BY <1>1, <1>12, <1>13 DEF WInv, Known
  <2>5. ASSUME NEW u \in Threads, pc[u] = "registering"
        PROVE  arg[u] \in registered' <=> u = t
    <3>1. CASE u = t
      BY <1>13, <2>5, <3>1 DEF a
    <3>2. CASE u # t
      <4>1. arg[u] \notin registered
        BY <1>4, <2>5 DEF WInv, Known
      <4>2. ASSUME pc[t] = "registering" PROVE arg[u] # a
        <5>1. t \in Users /\ u \in Users
          <6>1. pc[t] = "registering" /\ t \in Users => stage # "resuming"
            BY <2>2, <4>2, <1>0
          <6>2. u = Suspender \/ t = Suspender => stage = "resuming"
            BY <2>5, <4>2 DEF IInv, Staged
          <6>3. u \in Users => stage # "resuming"
            BY <2>5 DEF WInv, WatchLocked
          <6>. QED  BY <1>0, <1>2, <3>2, <4>2, <6>1, <6>2, <6>3
        <5>2. Owner[arg[t]] = t /\ Owner[arg[u]] = u
          BY <1>2, <2>5, <4>2, <5>1 DEF WInv, InHand, WatchWork
        <5>. QED  BY <3>2, <5>2 DEF a
      <4>. QED  BY <1>13, <3>2, <4>1, <4>2
    <3>. QED  BY <3>1, <3>2
  <2>6. ASSUME stage = "resuming", NEW w \in todo \cap registered'
        PROVE  pc[Suspender] = "registering" /\ arg[Suspender] = w
    <3>1. CASE w \in registered
      BY <2>6, <3>1 DEF WInv, Known
    <3>2. CASE w \notin registered
      BY <1>13, <2>2, <2>6, <3>2 DEF a
    <3>. QED  BY <3>1, <3>2
  <2>. QED  BY <1>1, <1>4, <2>1, <2>3, <2>4, <2>5, <2>6 DEF Known
<1>. QED  BY <1>1, <1>3, <1>17, <1>18, <1>19, AlikeKeeps DEF WInv

(* A node changes.                                                         *)
LEMMA ChangeKeepsW ==
  ASSUME IInv, WInv, NEW w \in Watches, NodeChanges(w)
  PROVE  WInv'
<1>. DEFINE event == [type |-> "event", watch |-> w]
<1>1. /\ news' = news \cup {w} /\ inbox' = Append(inbox, event)
      /\ UNCHANGED <<watches, watch_readers, watch_writer, stage, todo, pc, arg, registered>>
      /\ UNCHANGED <<watch_events, handling, request_mutex, wire, reply_list>>
  BY DEF NodeChanges, txnVars, watchVars, talkVars, userVars, eventVars, suspVars
<1>2. Alike
  BY <1>1 DEF Alike
<1>3. inbox \in Seq(Msgs) /\ event \in Msgs /\ event.type = "event"
  BY DEF IInv, Shapes, Msgs, Events
<1>4. event = [type |-> "event", watch |-> w]
  OBVIOUS
<1>. HIDE DEF event
<1>5. ToSet(inbox') = ToSet(inbox) \cup {event}
  BY <1>1, <1>3, ElementsOfSeq
<1>6. Announced'
  BY <1>1, <1>4, <1>5 DEF WInv, Announced, OnItsWay
<1>7. Accepted'
  <2>1. \A i \in DOMAIN inbox' : \/ i \in DOMAIN inbox /\ inbox'[i] = inbox[i]
                               \/ inbox'[i] = event
    BY <1>1, <1>3
  <2>. QED  BY <1>1, <1>3, <2>1 DEF WInv, Accepted
<1>8. \A t \in Threads : Served(t)' <=> Served(t)
  BY <1>1 DEF Served
<1>. QED  BY <1>1, <1>2, <1>6, <1>7, <1>8, AlikeKeeps DEF WInv

(* A message is delivered: an event is queued as long as its watch is      *)
(* listed. *)
LEMMA DeliverKeepsW ==
  ASSUME IInv, WInv, DeliverMsg
  PROVE  WInv'
<1>. DEFINE msg == Head(inbox)
<1>1. /\ inbox # <<>> /\ inbox' = Tail(inbox)
      /\ IF msg.type = "reply"
         THEN reply_list' = Append(reply_list, msg) /\ watch_events' = watch_events
         ELSE /\ watch_events' = IF msg.watch \in watches THEN Append(watch_events, msg.watch)
                                 ELSE watch_events
              /\ reply_list' = reply_list
      /\ UNCHANGED <<watches, watch_readers, watch_writer, stage, todo, pc, arg, registered>>
      /\ UNCHANGED <<handling, request_mutex, wire, news>>
  BY DEF DeliverMsg, txnVars, watchVars, userVars, suspVars
<1>2. Alike
  BY <1>1 DEF Alike
<1>3. /\ inbox \in Seq(Msgs) /\ reply_list \in Seq(Replies)
      /\ watch_events \in Seq(Watches) /\ watches \subseteq Watches
  BY DEF IInv, Shapes, Msgs, WInv, Expected, OnList
<1>4. msg \in Msgs /\ ToSet(inbox) = {msg} \cup ToSet(inbox') /\ inbox' \in Seq(Msgs)
  BY <1>1, <1>3, ElementsOfSeq
<1>5. \A w : msg = [type |-> "event", watch |-> w] => msg.type = "event" /\ msg.watch = w
  OBVIOUS
<1>6. /\ \A i \in DOMAIN inbox' : i + 1 \in DOMAIN inbox /\ inbox'[i] = inbox[i + 1]
      /\ 1 \in DOMAIN inbox /\ msg = inbox[1]
  BY <1>1, <1>3
<1>. HIDE DEF msg
<1>7. /\ ToSet(watch_events) \subseteq ToSet(watch_events') /\ watch_events' \in Seq(Watches)
      /\ \A w \in ToSet(watch_events') : w \in ToSet(watch_events) \/ w \in watches
      /\ msg.type # "reply" /\ msg.watch \in watches => msg.watch \in ToSet(watch_events')
  <2>1. CASE msg.type # "reply" /\ msg.watch \in watches
    <3>1. watch_events' = Append(watch_events, msg.watch) /\ msg.watch \in Watches
      BY <1>1, <1>3, <2>1
    <3>2. /\ Append(watch_events, msg.watch) \in Seq(Watches)
          /\ ToSet(Append(watch_events, msg.watch)) = ToSet(watch_events) \cup {msg.watch}
      BY <1>3, <3>1, ElementsOfSeq
    <3>. QED  BY <2>1, <3>1, <3>2
  <2>2. CASE ~(msg.type # "reply" /\ msg.watch \in watches)
    BY <1>1, <1>3, <2>2
  <2>. QED  BY <2>1, <2>2
<1>8. Announced'
  <2>1. ASSUME NEW w \in watches, [type |-> "event", watch |-> w] \in ToSet(inbox)
        PROVE  OnItsWay(w)'
    <3>. DEFINE e == [type |-> "event", watch |-> w]
    <3>1. e \in ToSet(inbox') \/ msg = e
      BY <1>4, <2>1
    <3>2. msg = e => w \in ToSet(watch_events')
      BY <1>5, <1>7
    <3>. QED  BY <3>1, <3>2 DEF OnItsWay
  <2>. QED  BY <1>1, <1>7, <2>1 DEF WInv, Announced, OnItsWay
<1>9. Accepted'
  <2>1. ASSUME NEW t \in Threads, pc[t] = "registering", request_mutex = t
        PROVE  /\ \A i \in DOMAIN inbox' : inbox'[i].type = "reply" => inbox'[i].ok
               /\ \A i \in DOMAIN reply_list' : reply_list'[i].ok
    <3>1. /\ \A i \in DOMAIN inbox : inbox[i].type = "reply" => inbox[i].ok
          /\ \A i \in DOMAIN reply_list : reply_list[i].ok
      BY <2>1 DEF WInv, Accepted
    <3>2. msg.type = "reply" => msg \in Replies
      BY <1>4, MsgTypes
    <3>3. \A i \in DOMAIN reply_list' :
             \/ i \in DOMAIN reply_list /\ reply_list'[i] = reply_list[i]
             \/ msg.type = "reply" /\ reply_list'[i] = msg
      <4>1. CASE msg.type = "reply"
        BY <1>1, <1>3, <3>2, <4>1, AppendProperties
      <4>2. CASE msg.type # "reply"
        BY <1>1, <4>2
      <4>. QED  BY <4>1, <4>2
    <3>4. \A i \in DOMAIN reply_list' : reply_list'[i].ok
      BY <1>6, <3>1, <3>3
    <3>. QED  BY <1>6, <3>1, <3>4
  <2>. QED  BY <1>1, <2>1 DEF Accepted
<1>10. Expected'
  BY <1>1, <1>7 DEF WInv, Expected
<1>11. \A t \in Threads : Served(t)' <=> Served(t)
  BY <1>1 DEF Served
<1>. QED  BY <1>1, <1>2, <1>8, <1>9, <1>10, <1>11, AlikeKeeps DEF WInv

(* The xenwatch thread takes an event, calls the callback and is done.     *)
LEMMA XenwatchKeepsW ==
  ASSUME WInv, XenwatchTakes \/ XenwatchDone
  PROVE  WInv'
<1>0. None \notin Watches
  BY XsAssumption
<1>1. /\ UNCHANGED <<watches, watch_readers, watch_writer, stage, todo, pc, arg, registered>>
      /\ UNCHANGED <<request_mutex, wire, inbox, reply_list>>
  BY DEF XenwatchTakes, XenwatchDone, txnVars, watchVars, talkVars, userVars, suspVars, storeVars
<1>2. Alike
  BY <1>1 DEF Alike
<1>3. \A t \in Threads : Served(t)' <=> Served(t)
  BY <1>1 DEF Served
<1>4. CASE XenwatchTakes
  <2>1. /\ watch_events # <<>> /\ handling' = Head(watch_events)
        /\ watch_events' = Tail(watch_events) /\ news' = news \ {handling'}
    BY <1>4 DEF XenwatchTakes
  <2>2. /\ handling' \in Watches /\ watch_events' \in Seq(Watches)
        /\ ToSet(watch_events) = {handling'} \cup ToSet(watch_events')
    BY <2>1, ElementsOfSeq DEF WInv, Expected
  <2>3. Announced'
    BY <1>1, <2>1, <2>2 DEF WInv, Announced, OnItsWay
  <2>4. Expected'
    BY <1>1, <2>2 DEF WInv, Expected
  <2>. QED  BY <1>1, <1>2, <1>3, <2>3, <2>4, AlikeKeeps DEF WInv
<1>5. CASE XenwatchDone
  <2>1. handling' = None /\ UNCHANGED <<watch_events, news>>
    BY <1>5 DEF XenwatchDone, storeVars
  <2>2. Announced'
    BY <1>1, <2>1 DEF WInv, Announced, OnItsWay
  <2>3. Expected'
    BY <1>0, <1>1, <2>1 DEF WInv, Expected
  <2>. QED  BY <1>1, <1>2, <1>3, <2>2, <2>3, AlikeKeeps DEF WInv
<1>. QED  BY <1>4, <1>5

(* The locks of a suspend, taken: with the last reader gone no request     *)
(* about a watch is under way.                                             *)
LEMMA LockKeepsW ==
  ASSUME IInv, WInv,
         SuspendTransactions \/ SuspendWatches \/ SuspendRequests \/ SuspendResponses
  PROVE  WInv'
<1>0. None \notin Threads /\ Users \subseteq Threads
      /\ (\A t \in Threads : t # Suspender => t \in Users)
  BY XsAssumption DEF Threads
<1>1. /\ UNCHANGED <<watches, watch_readers, todo, pc, arg, registered, news>>
      /\ UNCHANGED <<watch_events, handling, wire, inbox, reply_list>>
  BY DEF SuspendTransactions, SuspendWatches, SuspendRequests, SuspendResponses, txnVars,
         watchVars, talkVars, userVars, eventVars, storeVars
<1>2. Alike
  BY <1>1 DEF Alike
<1>3. stage # "resuming" /\ stage' # "resuming"
  BY DEF SuspendTransactions, SuspendWatches, SuspendRequests, SuspendResponses
<1>4. request_mutex' = request_mutex
      \/ \A t \in Threads : pc[t] \notin {"registering", "unregistering"}
  <2>1. CASE SuspendRequests
    <3>1. watch_readers = {} /\ pc[Suspender] = "idle"
      BY <1>3, <2>1 DEF SuspendRequests, IInv, Staged
    <3>. QED  BY <1>0, <3>1 DEF WInv, WatchLocked
  <2>2. CASE ~SuspendRequests
    BY <2>2 DEF SuspendTransactions, SuspendWatches, SuspendResponses, talkVars
  <2>. QED  BY <2>1, <2>2
<1>5. Accepted'
  BY <1>1, <1>4 DEF WInv, Accepted
<1>6. Announced'
  BY <1>1 DEF WInv, Announced, OnItsWay
<1>7. Known'
  <2>1. registered \subseteq Watches /\ watches \subseteq Watches
        /\ \A w \in Watches : Owner[w] \in Threads
    BY <1>0, XsAssumption DEF WInv, Known, OnList
  <2>2. \A t \in Threads : pc[t] \in {"registering", "unregistering"} => (Served(t)' <=> Served(t))
    BY <1>1, <1>4 DEF Served
  <2>. QED  BY <1>1, <1>3, <2>1, <2>2 DEF WInv, Known
<1>8. WatchLocked'
  <2>1. /\ watch_writer = (stage \in {"watches", "requests", "saved"})
        /\ watch_writer' = (stage' \in {"watches", "requests", "saved"})
    <3>. DEFINE S == {"watches", "requests", "saved"}
    <3>1. watch_writer = (stage \in {"watches", "requests", "saved", "resuming"})
      BY DEF WInv, WatchLocked
    <3>2. (stage \in {"watches", "requests", "saved", "resuming"}) = (stage \in S)
      BY <1>3
    <3>3. watch_writer = (stage \in S)
      BY <3>1, <3>2, Zenon
    <3>4. CASE SuspendWatches
      <4>1. watch_writer' = TRUE /\ (stage' \in S) = TRUE
        BY <3>4 DEF SuspendWatches
      <4>. QED  BY <3>3, <4>1, Zenon
    <3>5. CASE SuspendTransactions \/ SuspendRequests \/ SuspendResponses
      <4>1. watch_writer' = watch_writer /\ (stage' \in S) = (stage \in S)
        BY <3>5 DEF SuspendTransactions, SuspendRequests, SuspendResponses, watchVars
      <4>. QED  BY <3>3, <4>1, Zenon
    <3>. QED  BY <3>4, <3>5
  <2>2. stage' \in {"requests", "saved"} => watch_readers = {}
    BY DEF SuspendTransactions, SuspendWatches, SuspendRequests, SuspendResponses, WInv,
           WatchLocked
  <2>. QED  BY <1>1, <1>3, <2>1, <2>2 DEF WInv, WatchLocked
<1>. QED  BY <1>1, <1>2, <1>5, <1>6, <1>7, <1>8, AlikeKeeps DEF WInv

(* The locks given back: on another host every watch of the list is to be  *)
(* registered again, and at the end of xs_resume it is.                    *)
LEMMA UnlockKeepsW ==
  ASSUME IInv, WInv, SuspendCancel \/ Resume \/ ResumeDone
  PROVE  WInv'
<1>0. None \notin Threads /\ Users \subseteq Threads
      /\ (\A t \in Threads : t # Suspender => t \in Users)
  BY XsAssumption DEF Threads
<1>1. /\ UNCHANGED <<watches, watch_readers, pc, arg, news>>
      /\ UNCHANGED <<watch_events, handling, wire, reply_list>>
  BY DEF SuspendCancel, Resume, ResumeDone, Unlock, watchVars, talkVars, userVars, eventVars,
         storeVars
<1>2. Alike
  BY <1>1 DEF Alike
<1>3. /\ watch_readers = {}
      /\ \A t \in Threads : pc[t] \notin {"registering", "unregistering"}
      /\ stage \in {"saved", "resuming"}
  <2>1. stage \in {"saved", "resuming"} /\ pc[Suspender] = "idle"
    BY DEF SuspendCancel, Resume, ResumeDone, IInv, Staged
  <2>. QED  BY <1>0, <2>1 DEF WInv, WatchLocked
<1>4. Accepted'
  BY <1>1, <1>3 DEF Accepted
<1>5. registered \subseteq Watches /\ watches \subseteq Watches
      /\ \A w \in Watches : Owner[w] \in Threads
  BY <1>0, XsAssumption DEF WInv, Known, OnList
<1>6. registered \subseteq watches
  BY <1>3, <1>5 DEF WInv, Known
<1>7. CASE SuspendCancel \/ ResumeDone
  <2>1. /\ stage' = "running" /\ watch_writer' = FALSE
        /\ UNCHANGED <<registered, todo, inbox>>
        /\ stage = "resuming" => todo = {}
    BY <1>7 DEF SuspendCancel, ResumeDone, storeVars
  <2>2. WatchLocked'
    <3>1. (stage' \in {"watches", "requests", "saved", "resuming"}) = FALSE
      BY <2>1
    <3>2. watch_readers' = {t \in Users : pc'[t] \in {"registering", "unregistering"}}
      BY <1>1 DEF WInv, WatchLocked
    <3>. QED  BY <2>1, <3>1, <3>2, Zenon DEF WatchLocked
  <2>3. Known'
    BY <1>1, <1>3, <1>5, <1>6, <2>1 DEF WInv, Known
  <2>4. Announced'
    BY <1>1, <2>1 DEF WInv, Announced, OnItsWay
  <2>. QED  BY <1>1, <1>2, <1>4, <2>2, <2>3, <2>4, AlikeKeeps DEF WInv
<1>8. CASE Resume
  <2>1. /\ stage' = "resuming" /\ stage = "saved" /\ watch_writer' = watch_writer
        /\ registered' = {} /\ todo' = watches
    BY <1>8 DEF Resume
  <2>2. WatchLocked'
    BY <1>0, <1>1, <1>3, <2>1 DEF WInv, WatchLocked, IInv, Staged
  <2>3. Known'
    BY <1>1, <1>3, <2>1 DEF Known
  <2>4. Announced'
    BY <2>1 DEF Announced
  <2>. QED  BY <1>1, <1>2, <1>4, <2>2, <2>3, <2>4, AlikeKeeps DEF WInv
<1>. QED  BY <1>7, <1>8

(* A watch is to be registered again.                                      *)
LEMMA ResumeWatchKeepsW ==
  ASSUME IInv, WInv, NEW w \in Watches, ResumeWatch(w)
  PROVE  WInv'
<1>0. /\ Users \subseteq Threads /\ None \notin Threads
      /\ Suspender \in Threads /\ Suspender \notin Users
      /\ Owner \in [Watches -> Users]
  BY XsAssumption DEF Threads
<1>1. /\ stage = "resuming" /\ pc[Suspender] = "idle" /\ w \in todo
      /\ UNCHANGED <<watches, watch_readers, watch_writer, stage, todo, registered, news>>
      /\ UNCHANGED <<watch_events, handling, request_mutex, wire, inbox, reply_list>>
  BY DEF ResumeWatch, txnVars, watchVars, talkVars, eventVars, suspVars, storeVars
<1>2. /\ \A u \in Threads : pc'[u] = IF u # Suspender THEN pc[u] ELSE "registering"
      /\ \A u \in Threads : arg'[u] = IF u # Suspender THEN arg[u] ELSE w
  BY DEF ResumeWatch, Go, IInv, Shapes
<1>3. request_mutex # Suspender
  BY <1>0, <1>1, Wires DEF Talking, Requests
<1>4. w \notin registered
  BY <1>1 DEF WInv, Known
<1>. USE DEF WatchWork
<1>5. InHand'
  BY <1>0, <1>2 DEF WInv, InHand
<1>6. OnList'
  BY <1>0, <1>1, <1>2 DEF WInv, OnList
<1>7. WatchLocked'
  BY <1>0, <1>1, <1>2 DEF WInv, WatchLocked
<1>8. Known'
  <2>1. watches \subseteq Watches /\ registered \subseteq Watches
        /\ \A v \in Watches : Owner[v] \in Users
    BY <1>0 DEF WInv, OnList, Known
  <2>2. \A u \in Threads : Served(u)' <=> Served(u)
    BY <1>1 DEF Served
  <2>3. \A u \in Threads : pc'[u] = "registering" => (arg'[u] \in registered' <=> Served(u)')
    BY <1>1, <1>2, <1>3, <1>4 DEF WInv, Known, Served
  <2>. QED  BY <1>0, <1>1, <1>2, <2>1, <2>2, <2>3 DEF WInv, Known
<1>9. Accepted'
  BY <1>1, <1>2, <1>3 DEF WInv, Accepted
<1>10. Announced'
  BY <1>1 DEF WInv, Announced, OnItsWay
<1>11. Expected'
  BY <1>0, <1>1, <1>2 DEF WInv, Expected
<1>. QED  BY <1>5, <1>6, <1>7, <1>8, <1>9, <1>10, <1>11 DEF WInv

(* Steps of the users, the plain ones and those about watches.             *)
LEMMA UserKeepsW ==
  ASSUME IInv, WInv, NEW t \in Users, UserNext(t) \/ FileRelease(t) \/ ReleaseNext(t)
  PROVE  WInv'
<1>0. t \in Threads
  BY DEF Threads
<1>1. ASSUME NEW x, pc[t] \in {"idle", "opening"}, x \in {"idle", "opening", "starting", "ending",
             "dropping", "asking"}, Go(t, x) \/ pc' = pc,
             UNCHANGED <<arg, watchVars, talkVars, eventVars, suspVars, storeVars>>
      PROVE  WInv'
  <2>1. Alike
    BY <1>0, <1>1 DEF Alike, WatchWork, Go, IInv, Shapes
  <2>2. Elsewhere
    BY <1>1 DEF Elsewhere, watchVars, talkVars, eventVars, suspVars, storeVars
  <2>. QED  BY <2>1, <2>2, PlainKeeps
<1>2. CASE TransactionStart(t)
  BY <1>1, <1>2 DEF TransactionStart, Free
<1>3. CASE TransactionCount(t)
  BY <1>1, <1>3 DEF TransactionCount
<1>4. CASE TransactionEnd(t)
  BY <1>1, <1>4 DEF TransactionEnd, Free
<1>5. CASE Ask(t)
  BY <1>1, <1>5 DEF Ask, Free
<1>6. CASE FileRelease(t)
  BY <1>1, <1>6 DEF FileRelease, Free
<1>7. CASE ReleaseNext(t)
  <2>1. CASE t \in txn \cup holders
    BY <1>1, <1>7, <2>1 DEF ReleaseNext
  <2>2. CASE pc[t] = "idle" /\ \E w \in Watches : WantWatch(t, w, "unwatching")
    BY <2>2, WantKeeps
  <2>3. CASE pc[t] = "idle" /\ UNCHANGED <<pc, arg, watchVars, talkVars, eventVars, suspVars,
                                           storeVars>>
    BY <1>1, <2>3
  <2>. QED  BY <1>7, <2>1, <2>2, <2>3 DEF ReleaseNext
<1>8. ASSUME NEW w \in Watches, RegisterWatch(t, w) \/ UnregisterWatch(t, w)
      PROVE  WInv'
  BY <1>8, WantKeeps DEF RegisterWatch, UnregisterWatch, Free
<1>. QED  BY <1>2, <1>3, <1>4, <1>5, <1>6, <1>7, <1>8, ChangeWatchKeeps, CancelKeeps DEF UserNext

(* The types of what no argument above is about.                           *)
Kinds ==
    /\ response_mutex \in {None, Suspender, "xenbus"}
    /\ news \subseteq Watches /\ todo \subseteq Watches /\ closing \subseteq Files
    /\ stage \in {"running", "counting", "watches", "requests", "saved", "resuming"}
    /\ changes \in 0..MaxChanges /\ suspends \in 0..MaxSuspends

LEMMA KindsKeep ==
  ASSUME IInv, WInv, Kinds, [Next]_vars
  PROVE  Kinds'
<1>0. MaxChanges \in Nat /\ MaxSuspends \in Nat /\ Files \subseteq Users
  BY XsAssumption DEF Users
<1>. USE DEF Kinds
<1>1. ASSUME NEW t \in Users, UserNext(t)
      PROVE  Kinds'
  <2>1. UNCHANGED <<response_mutex, closing, news, todo, stage, changes, suspends>>
    BY <1>1 DEF UserNext, TransactionStart, TransactionCount, TransactionEnd, Ask, ChangeWatch,
                CancelEvents, RegisterWatch, UnregisterWatch, WantWatch, talkVars, suspVars,
                storeVars
  <2>. QED  BY <2>1
<1>2. ASSUME NEW f \in Files, FileRelease(f) \/ ReleaseNext(f)
      PROVE  Kinds'
  <2>1. closing' \subseteq Files
    BY <1>2 DEF FileRelease, ReleaseNext, WantWatch
  <2>2. UNCHANGED <<response_mutex, news, todo, stage, changes, suspends>>
    BY <1>2 DEF FileRelease, ReleaseNext, WantWatch, talkVars, suspVars, storeVars
  <2>. QED  BY <2>1, <2>2
<1>3. ASSUME NEW t \in Threads, Send(t) \/ GetReply(t)
      PROVE  Kinds'
  <2>1. todo' \subseteq todo
    BY <1>3 DEF Send, GiveUp, GetReply, Finish
  <2>2. UNCHANGED <<response_mutex, closing, news, stage, changes, suspends>>
    BY <1>3 DEF Send, GetReply, storeVars
  <2>. QED  BY <2>1, <2>2
<1>4. ASSUME NEW w \in Watches, NodeChanges(w)
      PROVE  Kinds'
  <2>1. changes' \in 0..MaxChanges /\ news' \subseteq Watches
    BY <1>0, <1>4 DEF NodeChanges
  <2>2. UNCHANGED <<response_mutex, closing, todo, stage, suspends>>
    BY <1>4 DEF NodeChanges, talkVars, userVars, suspVars
  <2>. QED  BY <2>1, <2>2
<1>5. CASE ServerAnswers
  <2>1. wire \in Threads
    BY <1>5, Wires DEF ServerAnswers
  <2>2. pc[wire] = "registering" => arg[wire] \in Watches
    BY <2>1 DEF WInv, InHand, WatchWork
  <2>3. news' = news \/ (news' = news \cup {arg[wire]} /\ pc[wire] = "registering")
    BY <1>5 DEF ServerAnswers
  <2>4. UNCHANGED <<response_mutex, closing, todo, stage, changes, suspends>>
    BY <1>5 DEF ServerAnswers, talkVars, userVars, suspVars
  <2>. QED  BY <2>2, <2>3, <2>4
<1>6. CASE ProcessMsg \/ DeliverMsg \/ XenwatchTakes \/ XenwatchDone
  <2>1. news' \subseteq news /\ response_mutex' \in {response_mutex, None, "xenbus"}
    BY <1>6 DEF ProcessMsg, DeliverMsg, XenwatchTakes, XenwatchDone, talkVars, storeVars
  <2>2. UNCHANGED <<closing, todo, stage, changes, suspends>>
    BY <1>6 DEF ProcessMsg, DeliverMsg, XenwatchTakes, XenwatchDone, userVars, suspVars, storeVars
  <2>. QED  BY <2>1, <2>2
<1>7. CASE SuspendNext
  <2>1. response_mutex' \in {response_mutex, None, Suspender}
    BY <1>7 DEF SuspendNext, SuspendTransactions, SuspendWatches, SuspendRequests,
                SuspendResponses, SuspendCancel, Resume, ResumeDone, ResumeWatch, Unlock, talkVars
  <2>2. todo' \in {todo, watches} /\ watches \subseteq Watches
    BY <1>7 DEF SuspendNext, SuspendTransactions, SuspendWatches, SuspendRequests,
                SuspendResponses, SuspendCancel, Resume, ResumeDone, ResumeWatch, suspVars,
                WInv, OnList
  <2>3. stage' \in {stage, "running", "counting", "watches", "requests", "saved", "resuming"}
    BY <1>7 DEF SuspendNext, SuspendTransactions, SuspendWatches, SuspendRequests,
                SuspendResponses, SuspendCancel, Resume, ResumeDone, ResumeWatch, suspVars
  <2>4. suspends' = suspends \/ (suspends < MaxSuspends /\ suspends' = suspends + 1)
    BY <1>7 DEF SuspendNext, SuspendTransactions, SuspendWatches, SuspendRequests,
                SuspendResponses, SuspendCancel, Resume, ResumeDone, ResumeWatch, Unlock, suspVars
  <2>5. UNCHANGED <<closing, news, changes>>
    BY <1>7 DEF SuspendNext, SuspendTransactions, SuspendWatches, SuspendRequests,
                SuspendResponses, SuspendCancel, Resume, ResumeDone, ResumeWatch, Unlock,
                userVars, storeVars
  <2>. QED  BY <1>0, <2>1, <2>2, <2>3, <2>4, <2>5
<1>8. CASE UNCHANGED vars
  BY <1>8 DEF vars, talkVars, userVars, suspVars, storeVars
<1>. QED  BY <1>1, <1>2, <1>3, <1>4, <1>5, <1>6, <1>7, <1>8 DEF Next

LEMMA StepW ==
  ASSUME IInv, WInv, OwnersServed, [Next]_vars
  PROVE  WInv'
<1>0. Files \subseteq Users
  BY DEF Users
<1>1. CASE ServerAnswers \/ DeliverMsg \/ \E w \in Watches : NodeChanges(w)
  BY <1>1, AnswerKeepsW, DeliverKeepsW, ChangeKeepsW
<1>2. CASE ProcessMsg \/ UNCHANGED vars
  <2>1. Alike
    BY <1>2 DEF ProcessMsg, Alike, vars, userVars
  <2>2. Elsewhere
    BY <1>2 DEF ProcessMsg, Elsewhere, vars, watchVars, talkVars, eventVars, suspVars, storeVars
  <2>. QED  BY <2>1, <2>2, PlainKeeps
<1>3. CASE SuspendNext
  BY <1>3, LockKeepsW, UnlockKeepsW, ResumeWatchKeepsW DEF SuspendNext
<1>. QED  BY <1>0, <1>1, <1>2, <1>3, UserKeepsW, SendKeepsW, GetReplyKeepsW, XenwatchKeepsW DEF Next

LEMMA WatchInvariant ==
  ASSUME FilesServed, OwnersServed
  PROVE  Spec => [](IInv /\ WInv /\ Kinds)
<1>1. Init => IInv /\ WInv /\ Kinds
  <2>1. Init => Kinds
    BY XsAssumption DEF Init, Kinds
  <2>. QED  BY <2>1, InitInv, InitW
<1>2. IInv /\ WInv /\ Kinds /\ [Next]_vars => (IInv /\ WInv /\ Kinds)'
  BY StepInv, StepW, KindsKeep
<1>. QED  BY <1>1, <1>2, PTL DEF Spec

--------------------------------------------------------------------------------
(* Once unregister_xenbus_watch has returned no callback of the watch runs *)
(* and none is queued (xenbus_xs.c:788 to 806), so its owner may free it:  *)
(* whatever callbacks, suspends and resumes come in between.               *)
THEOREM WatchMayBeFreed ==
  ASSUME FilesServed, OwnersServed
  PROVE  Spec => []NoCallbackAfterUnregister
<1>1. WInv => NoCallbackAfterUnregister
  BY DEF WInv, Expected, NoCallbackAfterUnregister
<1>. QED  BY <1>1, WatchInvariant, PTL

(* A registered watch stays known to xenstored, and no change of its node  *)
(* is missed, over suspends and resumes on other hosts too                 *)
(* (register_xenbus_watch, xenbus_xs.c:734 to 760; xs_resume, 818 to 838). *)
THEOREM WatchesStayLive ==
  ASSUME FilesServed, OwnersServed
  PROVE  Spec => []WatchesLive
<1>1. ASSUME IInv, WInv, Kinds PROVE XsTypeOK
  <2>1. request_mutex \in Threads \cup {None} /\ wire \in Threads \cup {None}
    <3>1. Suspender \in Threads
      BY DEF Threads
    <3>. QED  BY <1>1, <3>1 DEF IInv, Wired, Talking, Silent, Asked, Answered, Listed
  <2>2. transaction_count \in Nat
    BY <1>1, FS_CardinalityType DEF IInv, Counted
  <2>3. transaction_mutex \in {None, Suspender} /\ holders \subseteq Files
    BY <1>1 DEF IInv, Staged, Counted
  <2>4. watch_readers \subseteq Users /\ watch_writer \in BOOLEAN
    <3>1. watch_writer = (stage \in {"watches", "requests", "saved", "resuming"})
      BY <1>1 DEF WInv, WatchLocked
    <3>2. (stage \in {"watches", "requests", "saved", "resuming"}) \in BOOLEAN
      OBVIOUS
    <3>3. watch_writer \in BOOLEAN
      BY <3>1, <3>2, Zenon
    <3>. QED  BY <1>1, <3>3 DEF WInv, WatchLocked
  <2>5. /\ watches \subseteq Watches /\ registered \subseteq Watches
        /\ watch_events \in Seq(Watches) /\ handling \in Watches \cup {None}
    BY <1>1 DEF WInv, OnList, Known, Expected
  <2>6. pc \in [Threads -> Requests \cup {"idle", "opening", "watching", "unwatching",
                                  "cancelling"}]
    BY <1>1 DEF IInv, Shapes, Waits
  <2>7. arg \in [Threads -> Watches \cup {None}] /\ txn \subseteq Users
    BY <1>1 DEF IInv, Shapes
  <2>. QED  BY <1>1, <2>1, <2>2, <2>3, <2>4, <2>5, <2>6, <2>7 DEF XsTypeOK, Kinds
<1>2. WInv => \A w \in watches :
        stage = "resuming" \/ pc[Owner[w]] = "registering"
        \/ /\ w \in registered
           /\ w \in news => \/ w \in ToSet(watch_events)
                             \/ [type |-> "event", watch |-> w] \in ToSet(inbox)
  BY DEF WInv, Known, Announced, OnItsWay
<1>3. IInv /\ WInv /\ Kinds => WatchesLive
  BY <1>1, <1>2 DEF WatchesLive
<1>. QED  BY <1>3, WatchInvariant, PTL
================================================================================
