----------------------------- MODULE AutoResend -----------------------------
(***************************************************************************)
(* The auto resend engine (src/auto_resend/src/MpAutoResendEngine.cpp and  *)
(* MpMsgPool.cpp) on top of the message transport                          *)
(* (src/data_msg/src/MpMsgTransport.cpp).                                  *)
(*                                                                         *)
(* The engine keeps a pool of unsent messages per user and hands them to   *)
(* the transport one at a time.  Application threads and the pjsip worker  *)
(* thread "sip" (which reports the status of a request, a buddy that came  *)
(* online, or delivers a message whose handler sends another) run its      *)
(* methods under four locks.  A step is a critical section: it ends where  *)
(* the thread waits for its next lock, with the locks it keeps in "held".  *)
(***************************************************************************)
EXTENDS Integers, Sequences, FiniteSets

CONSTANTS
  User,        \* serials of the buddies
  NoUser,      \* the serial "null" of the transport's first message
  App,         \* application threads
  LastMsg,     \* messages are 1 .. LastMsg, in the order they are added
  Uid,         \* message -> the uid its creator gave it
  Invitation,  \* messages of type MP_TYPE_INVITATION
  Retries,     \* number of transfers the transport tries per message
  IntMax,      \* INT_MAX, above every weight the engine counts up to
  Bound        \* bound: how often each operation of Budget happens

MsgId == 1 .. LastMsg
Thread == App \cup {"sip"}
Lock == {"msg", "pool", "started", "db"}
Budget == {"remove", "resend", "toggle", "online", "sync", "fail", "stop"}

ASSUME NamesDiffer == "sip" \notin App /\ NoUser \notin User
ASSUME EngineConstantsOK ==
  /\ LastMsg \in Nat /\ Uid \in [MsgId -> Nat] /\ Invitation \subseteq MsgId
  /\ Retries \in Nat \ {0} /\ IntMax \in Nat \ {0}
  /\ Bound \in [Budget -> Nat]

\* Where a thread is: the section it enters next.
Label == {"idle", "start", "send", "scan", "stop", "notify", "settle", "mark",
          "restart", "erase", "sync"}

Message == [id : MsgId, done : BOOLEAN]       \* done: MpMsgPayload::processed_
Pool == [msgs : Seq(Message), weight : Nat, dirty : BOOLEAN]
EmptyPool == [msgs |-> <<>>, weight |-> 1, dirty |-> FALSE]

VARIABLES
  users,       \* serials with an entry in userPool_
  pool,        \* their entries; EmptyPool for the others
  priority,    \* priority_
  autoResend,  \* autoResendEnabled_
  started,     \* started_
  slot,        \* the transport's msg_ (live: its number of retries is not 0) and counter_
  pc, held,    \* thread -> where it is, the locks it has
  target,      \* thread -> serial its method works on
  status,      \* MP_MESSAGE_SENT or not, as the worker's callback was told
  sipUp,       \* the SIP stack is started
  pending,     \* requests the SIP stack will report a status for
  added,       \* messages added so far
  sent, removed,  \* history: messages transferred, and removed by the application
  used         \* operation -> how much of its bound is used

engine == <<users, pool, priority>>
flags == <<autoResend, started>>
threads == <<pc, held, target, status>>
network == <<slot, sipUp, pending>>
history == <<added, sent, removed>>
vars == <<engine, flags, threads, network, history, used>>

Init ==
  /\ users = {} /\ pool = [u \in User |-> EmptyPool] /\ priority = <<>>
  /\ autoResend = FALSE /\ started = FALSE
  /\ slot = [user |-> NoUser, id |-> 0, live |-> FALSE, counter |-> 0]
  /\ pc = [t \in Thread |-> "idle"] /\ held = [t \in Thread |-> {}]
  /\ target = [t \in Thread |-> NoUser] /\ status = FALSE
  /\ sipUp = TRUE /\ pending = 0
  /\ added = 0 /\ sent = {} /\ removed = {}
  /\ used = [b \in Budget |-> 0]

-----------------------------------------------------------------------------
\* No other thread has the lock.
Free(t, lock) == \A x \in Thread \ {t} : lock \notin held[x]

\* t leaves its section for label, with exactly these locks.
Leave(t, label, locks) ==
  /\ pc' = [pc EXCEPT ![t] = label]
  /\ held' = [held EXCEPT ![t] = locks]

Spend(b) == used[b] < Bound[b] /\ used' = [used EXCEPT ![b] = @ + 1]

Least(S) == CHOOSE i \in S : \A j \in S : i <= j

(***************************************************************************)
(* MpMsgPool.                                                              *)
(***************************************************************************)
\* setWeight takes an int: IntMax + 1 becomes negative, and negatives become 0.
Weight(w) == IF w > IntMax THEN 0 ELSE w

\* The first message with a uid is the one that is marked or removed.
WithUid(msgs, uid) == {i \in DOMAIN msgs : Uid[msgs[i].id] = uid}

MarkMsg(msgs, uid, done) ==
  IF WithUid(msgs, uid) = {} THEN msgs
  ELSE [msgs EXCEPT ![Least(WithUid(msgs, uid))].done = done]

\* Mutant of RmMessage: it takes the first message, whatever its uid.
RmFirstMessage(msgs, uid) == IF msgs = <<>> THEN msgs ELSE Tail(msgs)

RmMessage(msgs, uid) ==
  IF WithUid(msgs, uid) = {} THEN msgs
  ELSE LET i == Least(WithUid(msgs, uid))
       IN  SubSeq(msgs, 1, i - 1) \o SubSeq(msgs, i + 1, Len(msgs))

MarkAll(msgs, done) == [i \in DOMAIN msgs |-> [msgs[i] EXCEPT !.done = done]]

\* getMessage: the indexes it may choose from; it returns the first.  Without
\* one it returns a message without retries, which is not sent.
Eligible(msgs) ==
  IF autoResend THEN DOMAIN msgs \cap {1}
  ELSE {i \in DOMAIN msgs : msgs[i].id \in Invitation \/ ~msgs[i].done}

MarkUserPoolAsClean(q) ==
  [msgs |-> IF autoResend THEN MarkAll(q.msgs, FALSE) ELSE q.msgs,
   weight |-> 0, dirty |-> FALSE]

MarkUserPoolProcessed(q) ==
  [msgs |-> MarkAll(q.msgs, TRUE), weight |-> IntMax, dirty |-> q.dirty]

-----------------------------------------------------------------------------
(***************************************************************************)
(* Adding messages, and startEngine.                                       *)
(***************************************************************************)
\* Mutant of AddMessageInternal: the newest message comes first.
AddMessageInFront(t, u, done) ==
  /\ added < LastMsg /\ Free(t, "pool")
  /\ added' = added + 1
  /\ users' = users \cup {u}
  /\ pool' = [pool EXCEPT ![u] = MarkUserPoolAsClean(
                [pool[u] EXCEPT !.msgs = <<[id |-> added + 1, done |-> done]>> \o @])]
  /\ priority' = IF u \in users THEN priority ELSE Append(priority, u)

\* addMessageInternal; every message is new.
AddMessageInternal(t, u, done) ==
  /\ added < LastMsg /\ Free(t, "pool")
  /\ added' = added + 1
  /\ users' = users \cup {u}
  /\ pool' = [pool EXCEPT ![u] = MarkUserPoolAsClean(
                [pool[u] EXCEPT !.msgs = Append(@, [id |-> added + 1, done |-> done])])]
  /\ priority' = IF u \in users THEN priority ELSE Append(priority, u)

\* Mutant of AddMessage: the engine is not started.
AddMessageOnly(t, u) ==
  /\ pc[t] = "idle"
  /\ AddMessageInternal(t, u, FALSE)
  /\ UNCHANGED <<flags, pc, held, target, status, network, sent, removed, used>>

AddMessage(t, u) ==
  /\ pc[t] = "idle"
  /\ AddMessageInternal(t, u, FALSE)
  /\ Leave(t, "start", {})
  /\ UNCHANGED <<flags, target, status, network, sent, removed, used>>

\* A pass over the databases: dbConnLock_ is kept to the end.
SyncBegin(t) ==
  /\ pc[t] = "idle" /\ added < LastMsg /\ Free(t, "db")
  /\ Spend("sync")
  /\ Leave(t, "sync", {"db"})
  /\ UNCHANGED <<engine, flags, target, status, network, history>>

SyncAdd(t, u, done) ==
  /\ pc[t] = "sync"
  /\ AddMessageInternal(t, u, done)
  /\ \/ added + 1 < LastMsg /\ UNCHANGED <<pc, held>>
     \/ Leave(t, "idle", {})
  /\ UNCHANGED <<flags, target, status, network, sent, removed, used>>

\* Mutant of StartEngine: it does not ask whether the engine runs already.
StartEngineAnyway(t) ==
  /\ pc[t] = "start" /\ sipUp /\ Free(t, "started")
  /\ started' = TRUE
  /\ Leave(t, "send", {"started"})
  /\ UNCHANGED <<engine, autoResend, target, status, network, history, used>>

\* startEngine, up to the call of sendMessage.
StartEngine(t) ==
  /\ pc[t] = "start"
  /\ IF ~sipUp THEN Leave(t, "idle", {}) /\ UNCHANGED started
     ELSE /\ Free(t, "started")
          /\ started' = TRUE
          /\ IF started THEN Leave(t, "idle", {}) ELSE Leave(t, "send", {"started"})
  /\ UNCHANGED <<engine, autoResend, target, status, network, history, used>>

-----------------------------------------------------------------------------
(***************************************************************************)
(* sendMessage, run under startedLock_.                                    *)
(***************************************************************************)
\* An entry of priority_ whose pool was removed is compared through end(): the
\* weight read there is whatever lies behind the map, the same for all of them.
SortWeight(u, garbage) == IF u \in users THEN pool[u].weight ELSE garbage

\* sortMessages is a bubble sort, hence stable.
Sorted(garbage) ==
  LET w(i) == SortWeight(priority[i], garbage)
      Before(i, j) == w(i) < w(j) \/ (w(i) = w(j) /\ i <= j)
      Place(i) == Cardinality({j \in DOMAIN priority : Before(j, i)})
  IN  [k \in DOMAIN priority |->
         priority[CHOOSE i \in DOMAIN priority : Place(i) = k]]

SortMessages(t) ==
  /\ pc[t] = "send" /\ Free(t, "pool")
  /\ \E garbage \in -1 .. IntMax + 1 : priority' = Sorted(garbage)
  /\ Leave(t, "scan", held[t] \cup {"pool"})
  /\ UNCHANGED <<users, pool, flags, target, status, network, history, used>>

\* Entries of priority_ the loop does not pass over: a clean pool with a
\* message to send, or a dirty one that has not been given up yet.
CanSend(u) == u \in users /\ ~pool[u].dirty /\ Eligible(pool[u].msgs) # {}
MustGiveUp(u) == u \in users /\ pool[u].dirty /\ pool[u].weight # IntMax
Stops == {i \in DOMAIN priority : CanSend(priority[i]) \/ MustGiveUp(priority[i])}

\* markUserPoolProcessed reports every message under dbConnLock_.
ScanGivesUp(t) ==
  /\ pc[t] = "scan" /\ Stops # {}
  /\ LET u == priority[Least(Stops)]
     IN  /\ MustGiveUp(u) /\ Free(t, "db")
         /\ pool' = [pool EXCEPT ![u] = MarkUserPoolProcessed(@)]
  /\ UNCHANGED <<users, priority, flags, threads, network, history, used>>

\* pjsua_im_send may fail at once; nothing is reported then, and nobody looks
\* at the result.
SendMsg ==
  \/ /\ sipUp /\ pending' = pending + 1
     /\ UNCHANGED used
  \/ /\ sipUp /\ Spend("fail") /\ UNCHANGED pending
  \/ /\ ~sipUp /\ UNCHANGED <<pending, used>>

ScanSends(t) ==
  /\ pc[t] = "scan" /\ Stops # {}
  /\ LET u == priority[Least(Stops)]
         m == pool[u].msgs[Least(Eligible(pool[u].msgs))]
     IN  /\ CanSend(u) /\ Free(t, "msg")
         /\ slot' = [user |-> u, id |-> m.id, live |-> TRUE, counter |-> Retries]
  /\ SendMsg
  /\ Leave(t, "idle", {})
  /\ UNCHANGED <<engine, flags, target, status, sipUp, added, sent, removed>>

\* Mutant of ScanEnds: startedLock_ is given up before started_ is reset.
ScanEndsUnlocked(t) ==
  /\ pc[t] = "scan" /\ Stops = {}
  /\ Leave(t, "stop", {})
  /\ UNCHANGED <<engine, flags, target, status, network, history, used>>

ScanEnds(t) ==
  /\ pc[t] = "scan" /\ Stops = {}
  /\ Leave(t, "stop", held[t] \ {"pool"})
  /\ UNCHANGED <<engine, flags, target, status, network, history, used>>

\* started_ is reset after the pools are unlocked, still under startedLock_.
Stop(t) ==
  /\ pc[t] = "stop"
  /\ started' = FALSE
  /\ Leave(t, "idle", {})
  /\ UNCHANGED <<engine, autoResend, target, status, network, history, used>>

-----------------------------------------------------------------------------
(***************************************************************************)
(* The pjsip worker: onSendMsgDone, which keeps msgLock_ throughout, and   *)
(* messageStatus below it.                                                 *)
(***************************************************************************)
\* Mutant of OnSendMsgDone: one transfer too many.
OnSendMsgDoneOnceMore(ok) ==
  /\ pc["sip"] = "idle" /\ pending > 0 /\ Free("sip", "msg")
  /\ slot' = [slot EXCEPT !.counter = @ - 1, !.live = ~ok /\ slot.counter > 0]
  /\ IF slot'.live THEN UNCHANGED <<pending, status, pc, held>>
     ELSE pending' = pending - 1 /\ status' = ok /\ Leave("sip", "notify", {"msg"})
  /\ UNCHANGED <<engine, flags, target, sipUp, history, used>>

OnSendMsgDone(ok) ==
  /\ pc["sip"] = "idle" /\ pending > 0 /\ Free("sip", "msg")
  /\ \/ \* the message was deleted
        /\ ~slot.live
        /\ pending' = pending - 1
        /\ UNCHANGED <<slot, threads, used>>
     \/ \* another transfer
        /\ slot.live /\ ~ok /\ slot.counter > 1
        /\ slot' = [slot EXCEPT !.counter = @ - 1]
        /\ \/ UNCHANGED <<pending, used>>
           \/ Spend("fail") /\ pending' = pending - 1
        /\ UNCHANGED threads
     \/ \* sent, or given up
        /\ slot.live /\ (ok \/ slot.counter <= 1)
        /\ slot' = [slot EXCEPT !.counter = @ - 1, !.live = FALSE]
        /\ pending' = pending - 1
        /\ status' = ok
        /\ Leave("sip", "notify", {"msg"})
        /\ UNCHANGED <<target, used>>
  /\ UNCHANGED <<engine, flags, sipUp, history>>

\* Mutant of Notify: whatever the status, the message counts as sent.
NotifySuccess ==
  /\ pc["sip"] = "notify" /\ Free("sip", "db")
  /\ sent' = sent \cup {slot.id}
  /\ Leave("sip", "settle", held["sip"])
  /\ UNCHANGED <<engine, flags, target, status, network, added, removed, used>>

\* messageStatus: the connectors are told first.
Notify ==
  /\ pc["sip"] = "notify" /\ Free("sip", "db")
  /\ sent' = IF status THEN sent \cup {slot.id} ELSE sent
  /\ Leave("sip", "settle", held["sip"])
  /\ UNCHANGED <<engine, flags, target, status, network, added, removed, used>>

\* Mutant of WithoutPriority: the entry behind the first one is erased.
WithoutNextPriority(u) ==
  LET i == Least({j \in DOMAIN priority : priority[j] = u})
  IN  SubSeq(priority, 1, i) \o SubSeq(priority, i + 2, Len(priority))

\* The first entry of u is erased from priority_.
WithoutPriority(u) ==
  LET i == Least({j \in DOMAIN priority : priority[j] = u})
  IN  SubSeq(priority, 1, i - 1) \o SubSeq(priority, i + 1, Len(priority))

\* Mutant of SettleSent: the message is marked and stays in the pool.
SettleSentOnlyMarks ==
  /\ pc["sip"] = "settle" /\ Free("sip", "pool") /\ status
  /\ pool' = IF slot.user \notin users THEN pool
             ELSE [pool EXCEPT ![slot.user].msgs = MarkMsg(@, Uid[slot.id], TRUE)]
  /\ Leave("sip", "restart", held["sip"])
  /\ UNCHANGED <<users, priority, flags, target, status, network, history, used>>

\* The message leaves the pool; the pool leaves with its last message.
SettleSent ==
  /\ pc["sip"] = "settle" /\ Free("sip", "pool") /\ status
  /\ LET u == slot.user
         rest == RmMessage(MarkMsg(pool[u].msgs, Uid[slot.id], TRUE), Uid[slot.id])
     IN  IF u \notin users THEN UNCHANGED engine
         ELSE IF rest = <<>>
         THEN /\ users' = users \ {u}
              /\ pool' = [pool EXCEPT ![u] = EmptyPool]
              /\ priority' = WithoutPriority(u)
         ELSE /\ pool' = [pool EXCEPT ![u].msgs = rest, ![u].weight = Weight(@ + 1)]
              /\ UNCHANGED <<users, priority>>
  /\ Leave("sip", "restart", held["sip"])
  /\ UNCHANGED <<flags, target, status, network, history, used>>

\* The user is unreachable: its pool waits for better times.
SettleFailed ==
  /\ pc["sip"] = "settle" /\ Free("sip", "pool") /\ ~status
  /\ IF slot.user \in users
     THEN /\ pool' = [pool EXCEPT ![slot.user].msgs = MarkMsg(@, Uid[slot.id], TRUE),
                                  ![slot.user].dirty = TRUE]
          /\ Leave("sip", "mark", held["sip"] \cup {"pool"})
     ELSE UNCHANGED pool /\ Leave("sip", "restart", held["sip"])
  /\ UNCHANGED <<users, priority, flags, target, status, network, history, used>>

\* Mutant of MarkFailed: no other message is tried after a failure.
MarkFailedOnly ==
  /\ pc["sip"] = "mark" /\ Free("sip", "db")
  /\ pool' = IF pool[slot.user].weight = IntMax THEN pool
             ELSE [pool EXCEPT ![slot.user] = MarkUserPoolProcessed(@)]
  /\ Leave("sip", "idle", {})
  /\ UNCHANGED <<users, priority, flags, target, status, network, history, used>>

MarkFailed ==
  /\ pc["sip"] = "mark" /\ Free("sip", "db")
  /\ pool' = IF pool[slot.user].weight = IntMax THEN pool
             ELSE [pool EXCEPT ![slot.user] = MarkUserPoolProcessed(@)]
  /\ Leave("sip", "restart", held["sip"] \ {"pool"})
  /\ UNCHANGED <<users, priority, flags, target, status, network, history, used>>

\* The next message, whatever started_ says.
Restart ==
  /\ pc["sip"] = "restart" /\ Free("sip", "started")
  /\ Leave("sip", "send", held["sip"] \cup {"started"})
  /\ UNCHANGED <<engine, flags, target, status, network, history, used>>

\* buddy_state2 for a buddy that is online.
BuddyOnline(u) ==
  /\ pc["sip"] = "idle" /\ u \in users /\ Free("sip", "pool")
  /\ Spend("online")
  /\ pool' = [pool EXCEPT ![u] = MarkUserPoolAsClean(@)]
  /\ Leave("sip", "start", {})
  /\ UNCHANGED <<users, priority, flags, target, status, network, history>>

-----------------------------------------------------------------------------
(***************************************************************************)
(* The application's other calls.                                          *)
(***************************************************************************)
\* removeMessagesForSerial: the transport forgets the current message ...
RemoveMessages(t, u) ==
  /\ pc[t] = "idle" /\ Free(t, "msg")
  /\ Spend("remove")
  /\ slot' = IF slot.user = u THEN [slot EXCEPT !.live = FALSE] ELSE slot
  /\ target' = [target EXCEPT ![t] = u]
  /\ Leave(t, "erase", {})
  /\ UNCHANGED <<engine, flags, status, sipUp, pending, history>>

\* ... and the engine the pool, but not its entry in priority_.
Erase(t) ==
  /\ pc[t] = "erase" /\ Free(t, "pool")
  /\ LET u == target[t]
     IN  /\ users' = users \ {u}
         /\ pool' = [pool EXCEPT ![u] = EmptyPool]
         /\ removed' = removed \cup {pool[u].msgs[i].id : i \in DOMAIN pool[u].msgs}
  /\ Leave(t, "idle", {})
  /\ UNCHANGED <<priority, flags, target, status, network, added, sent, used>>

\* resendMessage, when the pool has a message with that uid.
ResendMessage(t, u, uid) ==
  /\ pc[t] = "idle" /\ Free(t, "pool")
  /\ u \in users /\ WithUid(pool[u].msgs, uid) # {}
  /\ Spend("resend")
  /\ pool' = [w \in User |->
       IF w = u THEN [msgs |-> MarkMsg(pool[u].msgs, uid, FALSE),
                      weight |-> 0, dirty |-> FALSE]
       ELSE IF w \in users THEN [pool[w] EXCEPT !.weight = Weight(@ + 1)]
       ELSE pool[w]]
  /\ Leave(t, "start", {})
  /\ UNCHANGED <<users, priority, flags, target, status, network, history>>

SetAutoResendEnabled(t, enabled) ==
  /\ pc[t] = "idle" /\ Free(t, "started")
  /\ Spend("toggle")
  /\ autoResend' = enabled
  /\ Leave(t, IF enabled /\ ~autoResend THEN "start" ELSE "idle", {})
  /\ UNCHANGED <<engine, started, target, status, network, history>>

-----------------------------------------------------------------------------
(***************************************************************************)
(* The SIP stack below: stopSIPStack waits for the worker and takes every  *)
(* open request with it; startSIPStack brings it back.                     *)
(***************************************************************************)
StopSIPStack ==
  /\ sipUp /\ pc["sip"] = "idle"
  /\ Spend("stop")
  /\ sipUp' = FALSE /\ pending' = 0
  /\ UNCHANGED <<engine, flags, threads, slot, history>>

StartSIPStack ==
  /\ ~sipUp /\ sipUp' = TRUE
  /\ UNCHANGED <<engine, flags, threads, slot, pending, history, used>>

-----------------------------------------------------------------------------
\* What a thread does once it is inside a method.
Run(t) ==
  \/ StartEngine(t) \/ SortMessages(t)
  \/ ScanGivesUp(t) \/ ScanSends(t) \/ ScanEnds(t) \/ Stop(t)
  \/ Erase(t)
  \/ \E u \in User, done \in BOOLEAN : SyncAdd(t, u, done)

Callback == Notify \/ SettleSent \/ SettleFailed \/ MarkFailed \/ Restart

Call(t) ==
  \/ SyncBegin(t)
  \/ \E u \in User : AddMessage(t, u) \/ RemoveMessages(t, u)
  \/ \E u \in User, m \in MsgId : ResendMessage(t, u, Uid[m])
  \/ \E enabled \in BOOLEAN : SetAutoResendEnabled(t, enabled)

Report == \E ok \in BOOLEAN : OnSendMsgDone(ok)

Next ==
  \/ \E t \in Thread : Run(t)
  \/ \E t \in App : Call(t)
  \/ \E u \in User : AddMessage("sip", u) \/ BuddyOnline(u)
  \/ Callback \/ Report
  \/ StopSIPStack \/ StartSIPStack

Spec == Init /\ [][Next]_vars

\* Threads are scheduled, locks are granted, and pjsip reports a status for
\* every request it accepted.
Fairness ==
  /\ \A t \in Thread : WF_vars(Run(t))
  /\ WF_vars(Callback) /\ WF_vars(Report)

FairSpec == Spec /\ Fairness

-----------------------------------------------------------------------------
(***************************************************************************)
(* Properties.                                                             *)
(***************************************************************************)
\* Every variable has its type.
TypeOK ==
  /\ users \subseteq User /\ pool \in [User -> Pool] /\ priority \in Seq(User)
  /\ autoResend \in BOOLEAN /\ started \in BOOLEAN
  /\ slot \in [user : User \cup {NoUser}, id : MsgId \cup {0},
               live : BOOLEAN, counter : Nat]
  /\ pc \in [Thread -> Label] /\ held \in [Thread -> SUBSET Lock]
  /\ target \in [Thread -> User \cup {NoUser}] /\ status \in BOOLEAN
  /\ sipUp \in BOOLEAN /\ pending \in Nat
  /\ added \in 0 .. LastMsg /\ sent \subseteq MsgId /\ removed \subseteq MsgId
  /\ used \in [Budget -> Nat]

\* The transport has one slot and the SIP stack reports no message id: a status
\* can only be told apart from another because at most one request is open, and
\* a message in the slot is never overwritten before its status is known.
OneInFlight == pending <= 1 /\ (pending = 1 \/ slot.live => started)

\* The lock a thread waits for, if it waits for one.
Waits(t) ==
  CASE pc[t] \in {"notify", "mark"} -> {"db"}
    [] pc[t] \in {"send", "settle", "erase", "sync"} -> {"pool"}
    [] pc[t] \in {"start", "restart"} -> {"started"}
    [] pc[t] = "scan" /\ Stops # {} ->
         IF MustGiveUp(priority[Least(Stops)]) THEN {"db"} ELSE {"msg"}
    [] OTHER -> {}

\* startEngine takes startedLock_, userPoolLock_ and msgLock_ in this order and
\* the worker's callback in the opposite one; no two threads ever wait for each
\* other, because the callback only runs while started_ keeps the others out.
NoDeadlock ==
  \A t, x \in Thread :
    t # x => ~(Waits(t) \cap held[x] # {} /\ Waits(x) \cap held[t] # {})

\* A message that can be sent is not forgotten: the engine runs, or a thread is
\* about to start it, even when it is added while the engine decides to stop.
NoLostWakeup ==
  (\E u \in User : CanSend(u)) => started \/ \E t \in Thread : pc[t] = "start"

\* A running engine has a request whose status will make it go on, or a thread
\* at work on the next one.
Running ==
  started => \/ pending > 0
             \/ \E t \in Thread : "started" \in held[t]
             \/ pc["sip"] \in {"notify", "settle", "mark", "restart"}

Queued(m) == \E u \in users : \E i \in DOMAIN pool[u].msgs : pool[u].msgs[i].id = m

\* A message leaves its pool when it was transferred or when the application
\* removed it, and never in place of another one.
NoMessageLost == \A m \in 1 .. added : m \in sent \cup removed \/ Queued(m)

\* Every pool with messages has its place in the sending order.
PoolsPrioritised == \A u \in users : \E i \in DOMAIN priority : priority[i] = u

\* Every message is settled: transferred, removed, or given up with its pool.
Settled(m) ==
  \/ m \in sent \cup removed
  \/ \A u \in users : \A i \in DOMAIN pool[u].msgs :
       pool[u].msgs[i].id = m => pool[u].dirty \/ pool[u].msgs[i].done
EveryMessageSettled == \A m \in MsgId : (added >= m) ~> Settled(m)

-----------------------------------------------------------------------------
(***************************************************************************)
(* The engine keeps the promises of Outbox, when messages have uids of     *)
(* their own.  A message has left its queue once it is transferred, also   *)
(* while settling it is still to come, and it is in flight until its       *)
(* result is settled or nobody waits for it any more.                      *)
(***************************************************************************)
Queue == [u \in User |-> {pool[u].msgs[i].id : i \in DOMAIN pool[u].msgs} \ sent]
Parked == {m \in MsgId \ sent : \E u \in users : \E i \in DOMAIN pool[u].msgs :
             pool[u].msgs[i].id = m /\ pool[u].msgs[i].done}
Unreachable == {u \in User : pool[u].dirty}
InFlight ==
  IF slot.live \/ pc["sip"] = "notify" \/ (pc["sip"] = "settle" /\ ~status)
  THEN {[user |-> slot.user, id |-> slot.id]} ELSE {}

O == INSTANCE Outbox WITH
       queue <- Queue, parked <- Parked, unreachable <- Unreachable,
       flight <- InFlight, added <- 1 .. added

\* The engine of MpAutoResendEngine.cpp, its pools and the transport implement
\* Outbox: one transfer at a time, in the order of each user's messages except
\* for those given up, and no message that was transferred is sent again, stays
\* queued, or is lost for another one.
ImplementsOutbox == O!Spec

-----------------------------------------------------------------------------
(***************************************************************************)
(* What the documentation says and the code does not do.                   *)
(***************************************************************************)
\* SmkexSessionInfo.h:48, "through autoresend the message is sent until it is
\* received" (in Romanian): with the uid 1 that Smkex.cpp:90 gives every
\* message, no message disappears before it was transferred.
SentUntilReceived == \A m \in 1 .. added : m \in sent \/ Queued(m)

\* MpTestAutoResendEngine.cpp:472, where the engine goes on with another user
\* once the messages of the current one are removed, and
\* MpAutoResendEngine.h:128, where adding a message "starts the engine if
\* necessary": a message that can be sent is, or fails with its pool.
MessagesAreSettled == EveryMessageSettled
=============================================================================
