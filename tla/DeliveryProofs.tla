--------------------------- MODULE DeliveryProofs ---------------------------
(***************************************************************************)
(* Proof that the engine delivers as Channel says, for any number of       *)
(* users, messages and retries, whatever uids the messages have, with      *)
(* removals, failures, passes over the databases and stops of the stack.   *)
(*                                                                         *)
(* A pool is never reordered and nothing in it becomes eager to be sent    *)
(* again: it thins out or grows by a message with a higher number.  So the *)
(* message in the slot, the least of the eager ones when it was taken, is  *)
(* not passed by another of its user while its transfer is under way, and  *)
(* what arrived of it passes no eager message.                             *)
(***************************************************************************)
EXTENDS Delivery, OutboxProofs

-----------------------------------------------------------------------------
(***************************************************************************)
(* What happens to the messages of one pool.                               *)
(***************************************************************************)
\* The messages getMessage may choose from while nothing is unparked.
Eager(msgs) ==
  {msgs[i].id : i \in {j \in DOMAIN msgs : msgs[j].id \in Invitation \/ ~msgs[j].done}}

\* Some messages are gone or parked; none is new or moved.
Thins(old, new) ==
  /\ new \in Seq(Message) /\ Rising(new)
  /\ Ids(new) \subseteq Ids(old) /\ Eager(new) \subseteq Eager(old)

\* Eager messages are messages.
LEMMA EagerIn == ASSUME NEW msgs \in Seq(Message) PROVE Eager(msgs) \subseteq Ids(msgs)
BY DEF Eager, Ids

\* A selection of a pool's messages in their order, with as many or more marks.
LEMMA SelectionThins ==
  ASSUME NEW msgs \in Seq(Message), NEW new \in Seq(Message), Rising(msgs),
         NEW f \in [1 .. Len(new) -> 1 .. Len(msgs)],
         \A k, l \in 1 .. Len(new) : k < l => f[k] < f[l],
         \A k \in 1 .. Len(new) : /\ new[k].id = msgs[f[k]].id
                                  /\ msgs[f[k]].done => new[k].done
  PROVE  Thins(msgs, new)
<1>1. DOMAIN new = 1 .. Len(new) /\ DOMAIN msgs = 1 .. Len(msgs)
  BY LenProperties
<1>2. \A k \in DOMAIN new : f[k] \in DOMAIN msgs
  BY <1>1
<1>3. Rising(new)
  <2> SUFFICES ASSUME NEW k \in DOMAIN new, NEW l \in DOMAIN new, k < l
               PROVE  new[k].id < new[l].id
    BY DEF Rising
  <2>1. f[k] < f[l] /\ f[k] \in DOMAIN msgs /\ f[l] \in DOMAIN msgs
    BY <1>1, <1>2
  <2>2. msgs[f[k]].id < msgs[f[l]].id
    BY <2>1 DEF Rising
  <2> QED
    BY <1>1, <2>2
<1>4. Ids(new) \subseteq Ids(msgs)
  BY <1>1, <1>2 DEF Ids
<1>5. Eager(new) \subseteq Eager(msgs)
  <2> SUFFICES ASSUME NEW k \in DOMAIN new, new[k].id \in Invitation \/ ~new[k].done
               PROVE  new[k].id \in Eager(msgs)
    BY DEF Eager
  <2>1. f[k] \in {j \in DOMAIN msgs : msgs[j].id \in Invitation \/ ~msgs[j].done}
    BY <1>1, <1>2
  <2> QED
    BY <1>1, <2>1 DEF Eager
<1> QED
  BY <1>3, <1>4, <1>5 DEF Thins

\* The same messages in the same places.
LEMMA SamePlacesThin ==
  ASSUME NEW msgs \in Seq(Message), NEW new \in Seq(Message), Rising(msgs),
         Len(new) = Len(msgs),
         \A k \in 1 .. Len(msgs) : /\ new[k].id = msgs[k].id
                                   /\ msgs[k].done => new[k].done
  PROVE  Thins(msgs, new)
<1> DEFINE f == [k \in 1 .. Len(new) |-> k]
<1>1. f \in [1 .. Len(new) -> 1 .. Len(msgs)] /\ \A k \in 1 .. Len(new) : f[k] = k
  OBVIOUS
<1> HIDE DEF f
<1> QED
  BY <1>1, SelectionThins

\* A pool left alone, and an empty one.
LEMMA StayingThins ==
  ASSUME NEW msgs \in Seq(Message), Rising(msgs)
  PROVE  Thins(msgs, msgs) /\ Thins(msgs, <<>>)
BY EmptyIds DEF Thins, Eager

\* One thinning after another.
LEMMA ThinsAgain ==
  ASSUME NEW a, NEW b, NEW c, Thins(a, b), Thins(b, c)
  PROVE  Thins(a, c)
BY DEF Thins

\* A mark thins, whichever message has the uid.
LEMMA MarkMsgThins ==
  ASSUME NEW msgs \in Seq(Message), NEW uid, Rising(msgs)
  PROVE  Thins(msgs, MarkMsg(msgs, uid, TRUE))
<1> DEFINE new == MarkMsg(msgs, uid, TRUE)
<1>1. /\ new \in Seq(Message) /\ Len(new) = Len(msgs)
      /\ \A i \in 1 .. Len(msgs) :
           /\ new[i].id = msgs[i].id
           /\ \/ new[i].done = msgs[i].done
              \/ Uid[msgs[i].id] = uid /\ new[i].done = TRUE
  BY MarkMsgKeeps, Zenon
<1> HIDE DEF new
<1>2. Thins(msgs, new)
  BY <1>1, SamePlacesThin
<1> QED
  BY <1>2 DEF new

\* So does a mark on all of them.
LEMMA MarkAllThins ==
  ASSUME NEW msgs \in Seq(Message), Rising(msgs)
  PROVE  Thins(msgs, MarkAll(msgs, TRUE))
<1> DEFINE new == MarkAll(msgs, TRUE)
<1>1. /\ new \in Seq(Message) /\ Len(new) = Len(msgs)
      /\ \A i \in 1 .. Len(msgs) : new[i].id = msgs[i].id /\ new[i].done = TRUE
  BY MarkAllKeeps
<1> HIDE DEF new
<1>2. Thins(msgs, new)
  BY <1>1, SamePlacesThin
<1> QED
  BY <1>2 DEF new

\* And so does a removal, although with equal uids it may take another message
\* than the one that was transferred.
LEMMA RmMessageThins ==
  ASSUME NEW msgs \in Seq(Message), NEW uid, Rising(msgs)
  PROVE  Thins(msgs, RmMessage(msgs, uid))
<1>1. CASE WithUid(msgs, uid) = {}
  BY <1>1, StayingThins DEF RmMessage
<1>2. CASE WithUid(msgs, uid) # {}
  <2> DEFINE i == Least(WithUid(msgs, uid))
             r == Cut(msgs, i)
             f == [k \in 1 .. Len(r) |-> IF k < i THEN k ELSE k + 1]
  <2>1. i \in 1 .. Len(msgs) /\ RmMessage(msgs, uid) = r
    BY <1>2, WithUidLeast DEF RmMessage, Cut
  <2> HIDE DEF i
  <2>2. /\ r \in Seq(Message) /\ Len(r) = Len(msgs) - 1 /\ Len(msgs) \in Nat
        /\ \A k \in 1 .. Len(msgs) - 1 : r[k] = IF k < i THEN msgs[k] ELSE msgs[k + 1]
    BY <2>1, CutOut, LenProperties, Zenon
  <2> HIDE DEF r
  <2>3. /\ f \in [1 .. Len(r) -> 1 .. Len(msgs)]
        /\ \A k \in 1 .. Len(r) : f[k] = IF k < i THEN k ELSE k + 1
    BY <2>1, <2>2
  <2> HIDE DEF f
  <2>4. \A k, l \in 1 .. Len(r) : k < l => f[k] < f[l]
    BY <2>1, <2>2, <2>3
  <2>5. \A k \in 1 .. Len(r) : r[k] = msgs[f[k]]
    <3> TAKE k \in 1 .. Len(r)
    <3>1. k \in 1 .. Len(msgs) - 1
      BY <2>2
    <3> QED
      BY <2>2, <2>3, <3>1
  <2>6. Thins(msgs, r)
    <3>1. \A k \in 1 .. Len(r) : /\ r[k].id = msgs[f[k]].id
                                  /\ msgs[f[k]].done => r[k].done
      BY <2>5
    <3> QED
      BY <2>2, <2>3, <2>4, <3>1, SelectionThins, SMTT(60)
  <2> QED
    BY <2>1, <2>6
<1> QED
  BY <1>1, <1>2

-----------------------------------------------------------------------------
(***************************************************************************)
(* What a step does to all pools.                                          *)
(***************************************************************************)
Ordered == ~autoResend /\ \A u \in User : Rising(pool[u].msgs)

\* The pools in P become those in Q.
PoolsThin(P, Q) == \A u \in User : Thins(P[u].msgs, Q[u].msgs)

\* A message with the next number joins u's pool.
Grows(u) ==
  /\ added' = added + 1 /\ added' \in MsgId
  /\ \E done \in BOOLEAN :
       pool'[u].msgs = Append(pool[u].msgs, [id |-> added + 1, done |-> done])
  /\ \A w \in User \ {u} : pool'[w].msgs = pool[w].msgs

\* The next pools are the old ones thinned out, or grown by one message.
PoolsMove ==
  /\ ~autoResend'
  /\ \/ added' = added /\ PoolsThin(pool, pool')
     \/ \E u \in User : Grows(u)

\* The messages of a pool.
LEMMA PoolOf == ASSUME Base, NEW u \in User PROVE pool[u] \in Pool /\ pool[u].msgs \in Seq(Message)
BY DEF Base, TypeOK, Pool

\* A change to one pool, and to the marks of the others not at all.
LEMMA OnePoolThins ==
  ASSUME Base, Ordered, NEW u \in User, NEW q, pool' = [pool EXCEPT ![u] = q],
         Thins(pool[u].msgs, q.msgs)
  PROVE  PoolsThin(pool, pool')
<1> SUFFICES ASSUME NEW w \in User PROVE Thins(pool[w].msgs, pool'[w].msgs)
  BY DEF PoolsThin
<1>1. pool'[w] = IF w = u THEN q ELSE pool[w]
  BY DEF Base, TypeOK
<1>2. Thins(pool[w].msgs, pool[w].msgs)
  BY PoolOf, StayingThins DEF Ordered
<1> QED
  BY <1>1, <1>2

\* Pools that are left alone.
LEMMA PoolsStayPut ==
  ASSUME Base, Ordered, UNCHANGED <<pool, autoResend, added>>
  PROVE  PoolsMove
<1>1. \A u \in User : Thins(pool[u].msgs, pool[u].msgs)
  BY PoolOf, StayingThins DEF Ordered
<1> QED
  BY <1>1 DEF PoolsMove, PoolsThin, Ordered

\* Adding a message.
LEMMA AddingGrows ==
  ASSUME Base, Ordered, NEW t \in Thread, NEW u \in User, NEW done \in BOOLEAN,
         AddMessageInternal(t, u, done), UNCHANGED autoResend
  PROVE  PoolsMove
<1> DEFINE m == [id |-> added + 1, done |-> done]
           q == [pool[u] EXCEPT !.msgs = Append(@, m)]
<1>1. added' = added + 1 /\ added' \in MsgId
  BY EngineConstantsOK DEF AddMessageInternal, Base, TypeOK, MsgId
<1>2. pool' = [pool EXCEPT ![u] = MarkUserPoolAsClean(q)]
  BY DEF AddMessageInternal
<1>3. q.msgs = Append(pool[u].msgs, m)
  BY PoolOf DEF Pool
<1> HIDE DEF q
<1>4. MarkUserPoolAsClean(q).msgs = q.msgs
  BY DEF MarkUserPoolAsClean, Ordered
<1>5. pool'[u].msgs = q.msgs /\ \A w \in User \ {u} : pool'[w] = pool[w]
  BY <1>2, <1>4 DEF Base, TypeOK
<1>6. Grows(u)
  BY <1>1, <1>3, <1>5 DEF Grows
<1> QED
  BY <1>6 DEF PoolsMove, Ordered

\* Giving a pool up.
LEMMA GivingUpThins ==
  ASSUME Base, Ordered, NEW u \in User, UNCHANGED <<autoResend, added>>,
         pool' = [pool EXCEPT ![u] = MarkUserPoolProcessed(@)]
  PROVE  PoolsMove
<1>1. MarkUserPoolProcessed(pool[u]).msgs = MarkAll(pool[u].msgs, TRUE)
  BY DEF MarkUserPoolProcessed
<1>2. Thins(pool[u].msgs, MarkAll(pool[u].msgs, TRUE))
  BY PoolOf, MarkAllThins DEF Ordered
<1> QED
  BY <1>1, <1>2, OnePoolThins DEF PoolsMove, Ordered

\* A buddy that comes online: its parked messages stay parked.
LEMMA OnlineThins ==
  ASSUME Base, Ordered, NEW u \in User, BuddyOnline(u)
  PROVE  PoolsMove
<1>1. pool' = [pool EXCEPT ![u] = MarkUserPoolAsClean(pool[u])]
      /\ UNCHANGED <<autoResend, added>>
  BY DEF BuddyOnline, flags, history
<1>2. MarkUserPoolAsClean(pool[u]).msgs = pool[u].msgs
  BY DEF MarkUserPoolAsClean, Ordered
<1>3. Thins(pool[u].msgs, pool[u].msgs)
  BY PoolOf, StayingThins DEF Ordered
<1> QED
  BY <1>1, <1>2, <1>3, OnePoolThins DEF PoolsMove, Ordered

\* Removing a pool.
LEMMA ErasingThins ==
  ASSUME Base, Ordered, NEW t \in Thread, Erase(t)
  PROVE  PoolsMove
<1>1. PICK u \in User : pool' = [pool EXCEPT ![u] = EmptyPool]
  BY DEF Erase, Base, SlotInUse
<1>2. UNCHANGED <<autoResend, added>>
  BY DEF Erase, flags
<1>3. Thins(pool[u].msgs, EmptyPool.msgs)
  BY PoolOf, StayingThins DEF Ordered, EmptyPool
<1> QED
  BY <1>1, <1>2, <1>3, OnePoolThins DEF PoolsMove, Ordered

\* Settling a success: the slot's message goes, or one with the same uid.
LEMMA SettlingSentThins ==
  ASSUME Base, Ordered, SettleSent
  PROVE  PoolsMove
<1> DEFINE u == slot.user
           uid == Uid[slot.id]
           marked == MarkMsg(pool[u].msgs, uid, TRUE)
           rest == RmMessage(marked, uid)
<1>1. u \in User /\ UNCHANGED <<autoResend, added>>
  BY DEF SettleSent, Base, SlotInUse, flags, history
<1>2. Thins(pool[u].msgs, marked)
  BY <1>1, PoolOf, MarkMsgThins DEF Ordered
<1>3. Thins(marked, rest)
  <2> HIDE DEF marked
  <2>1. marked \in Seq(Message) /\ Rising(marked)
    BY <1>2 DEF Thins
  <2> QED
    BY <2>1, RmMessageThins
<1>4. Thins(pool[u].msgs, rest)
  BY <1>2, <1>3, ThinsAgain
<1>5. pool[u] \in Pool
  BY <1>1, PoolOf
<1>6. IF u \notin users THEN UNCHANGED engine
      ELSE IF rest = <<>> THEN users' = users \ {u} /\ pool' = [pool EXCEPT ![u] = EmptyPool]
      ELSE /\ pool' = [pool EXCEPT ![u] = [pool[u] EXCEPT !.msgs = rest,
                                                          !.weight = Weight(pool[u].weight + 1)]]
           /\ UNCHANGED users
  BY <1>1, <1>5 DEF SettleSent, Base, TypeOK
<1> HIDE DEF rest, marked, u
<1>7. CASE UNCHANGED pool
  BY <1>1, <1>7, PoolsStayPut
<1>8. CASE pool' = [pool EXCEPT ![u] = EmptyPool]
  <2>1. Thins(pool[u].msgs, EmptyPool.msgs)
    BY <1>1, PoolOf, StayingThins DEF Ordered, EmptyPool
  <2> QED
    BY <1>1, <1>8, <2>1, OnePoolThins DEF PoolsMove, Ordered
<1>9. CASE pool' = [pool EXCEPT ![u] = [pool[u] EXCEPT !.msgs = rest,
                                                      !.weight = Weight(pool[u].weight + 1)]]
  <2> DEFINE q == [pool[u] EXCEPT !.msgs = rest, !.weight = Weight(pool[u].weight + 1)]
  <2>1. q.msgs = rest
    BY <1>5 DEF Pool
  <2>2. pool' = [pool EXCEPT ![u] = q]
    BY <1>9
  <2> HIDE DEF q
  <2> QED
    BY <1>1, <1>4, <2>1, <2>2, OnePoolThins DEF PoolsMove, Ordered
<1> QED
  BY <1>6, <1>7, <1>8, <1>9 DEF engine

\* Settling a failure.
LEMMA SettlingFailedThins ==
  ASSUME Base, Ordered, SettleFailed \/ MarkFailed
  PROVE  PoolsMove
<1> DEFINE u == slot.user
           marked == MarkMsg(pool[u].msgs, Uid[slot.id], TRUE)
<1>1. u \in User /\ UNCHANGED <<autoResend, added>>
  BY DEF SettleFailed, MarkFailed, Base, SlotInUse, flags, history
<1>2. CASE SettleFailed /\ u \in users
  <2> DEFINE q == [pool[u] EXCEPT !.msgs = marked, !.dirty = TRUE]
  <2>1. pool' = [pool EXCEPT ![u] = q]
    BY <1>1, <1>2 DEF SettleFailed, Base, TypeOK
  <2>2. q.msgs = marked
    BY <1>1, PoolOf DEF Pool
  <2>3. Thins(pool[u].msgs, marked)
    BY <1>1, PoolOf, MarkMsgThins DEF Ordered
  <2> HIDE DEF q, marked
  <2> QED
    BY <1>1, <2>1, <2>2, <2>3, OnePoolThins DEF PoolsMove, Ordered
<1>3. CASE SettleFailed /\ u \notin users
  BY <1>1, <1>3, PoolsStayPut DEF SettleFailed
<1>4. CASE MarkFailed
  BY <1>1, <1>4, PoolsStayPut, GivingUpThins DEF MarkFailed
<1> QED
  BY <1>2, <1>3, <1>4

\* Every step of the engine thins its pools out, or adds a message to one.
LEMMA EngineMoves == ASSUME Base, Ordered, Next PROVE PoolsMove
<1>0. \A b \in {"toggle", "resend"} : ~(used[b] < Bound[b])
  BY NothingUnparked DEF Base, TypeOK, Budget
<1>1. ASSUME NEW t \in Thread,
             \/ StartEngine(t) \/ SortMessages(t) \/ ScanSends(t) \/ ScanEnds(t) \/ Stop(t)
      PROVE  PoolsMove
  BY <1>1, PoolsStayPut
  DEF StartEngine, SortMessages, ScanSends, ScanEnds, Stop, engine, flags, history
<1>2. ASSUME NEW t \in Thread, ScanGivesUp(t) PROVE PoolsMove
  <2> DEFINE u == priority[Least(Stops)]
  <2>1. /\ u \in User /\ UNCHANGED <<autoResend, added>>
        /\ pool' = [pool EXCEPT ![u] = MarkUserPoolProcessed(@)]
    BY <1>2 DEF ScanGivesUp, MustGiveUp, Base, TypeOK, flags, history
  <2> HIDE DEF u
  <2> QED
    BY <2>1, GivingUpThins
<1>3. ASSUME NEW t \in Thread, NEW u \in User, NEW done \in BOOLEAN, SyncAdd(t, u, done)
      PROVE  PoolsMove
  BY <1>3, AddingGrows DEF SyncAdd, flags
<1>4. ASSUME NEW t \in Thread, NEW u \in User, AddMessage(t, u) PROVE PoolsMove
  BY <1>4, AddingGrows DEF AddMessage, flags
<1>5. ASSUME NEW t \in App, Call(t) PROVE PoolsMove
  <2>1. t \in Thread
    BY DEF Thread
  <2>2. CASE SyncBegin(t) \/ \E u \in User : RemoveMessages(t, u)
    BY <2>2, PoolsStayPut DEF SyncBegin, RemoveMessages, engine, flags, history
  <2>3. CASE \/ \E u \in User, m \in MsgId : ResendMessage(t, u, Uid[m])
             \/ \E enabled \in BOOLEAN : SetAutoResendEnabled(t, enabled)
    BY <1>0, <2>3 DEF ResendMessage, SetAutoResendEnabled, Spend
  <2> QED
    BY <1>4, <1>5, <2>1, <2>2, <2>3 DEF Call
<1>6. CASE Callback
  BY <1>6, PoolsStayPut, SettlingSentThins, SettlingFailedThins
  DEF Callback, Notify, Restart, engine, flags, history
<1>7. CASE Report \/ StopSIPStack \/ StartSIPStack
  BY <1>7, PoolsStayPut
  DEF Report, OnSendMsgDone, StopSIPStack, StartSIPStack, engine, flags, history
<1>8. "sip" \in Thread
  BY DEF Thread
<1> QED
  BY <1>1, <1>2, <1>3, <1>4, <1>5, <1>6, <1>7, <1>8, OnlineThins, ErasingThins DEF Next, Run

-----------------------------------------------------------------------------
(***************************************************************************)
(* The invariant.                                                          *)
(***************************************************************************)
\* What is in a pool or arrived for a user was offered for it.
Tracked ==
  /\ offered \in [User -> SUBSET MsgId] /\ inbox \in [User -> Seq(MsgId)]
  /\ \A u \in User : /\ Ids(pool[u].msgs) \subseteq offered[u]
                     /\ offered[u] \subseteq 1 .. added
                     /\ \A i \in DOMAIN inbox[u] : inbox[u][i] \in offered[u]

\* No eager message was passed by one that arrived.
InTurn == \A u \in User : \A m \in Eager(pool[u].msgs) : C!Overtakes(m, inbox[u])

\* The message under way: nothing of its user has passed it, nor will.
Foremost ==
  transfer # "none" =>
    /\ slot.user \in User /\ slot.id \in offered[slot.user]
    /\ C!Overtakes(slot.id, inbox[slot.user])
    /\ \A m \in Eager(pool[slot.user].msgs) : slot.id <= m

\* A transfer under way, even one whose stack was stopped, keeps every thread
\* out of sendMessage.
Exclusive ==
  /\ transfer \in {"none", "open", "arrived"}
  /\ transfer # "none" => started /\ ~Working /\ \A t \in Thread : ~Engaged(t)
  /\ pending > 0 => transfer # "none"

\* A success to be recorded is of a message that arrived.
Truthful ==
  /\ transfer = "arrived" => Arrived(slot.id)
  /\ pc["sip"] \in {"notify", "settle"} /\ status => Arrived(slot.id)
  /\ SentHasArrived

DeliveryInv == Ordered /\ Tracked /\ InTurn /\ Foremost /\ Exclusive /\ Truthful

\* offered and inbox in an engine's step.
Records ==
  /\ offered' = [u \in User |-> offered[u] \cup Ids(pool'[u].msgs)]
  /\ UNCHANGED inbox

\* Thinned out pools offer nothing new.
LEMMA ThinningOffersNothing ==
  ASSUME Tracked, Records, added' = added, PoolsThin(pool, pool')
  PROVE  UNCHANGED <<offered, inbox>>
<1>1. \A u \in User : Ids(pool'[u].msgs) \subseteq offered[u]
  BY DEF Tracked, PoolsThin, Thins
<1>2. \A u \in User : offered'[u] = offered[u]
  BY <1>1 DEF Records
<1>3. offered' = offered
  BY <1>2 DEF Records, Tracked
<1> QED
  BY <1>3 DEF Records

\* A pool that grows offers its new message.
LEMMA GrowingOffers ==
  ASSUME Base, Ordered, Tracked, Records, NEW u \in User, Grows(u)
  PROVE  /\ C!Offer(u, added + 1)
         /\ offered' = [offered EXCEPT ![u] = @ \cup {added + 1}]
         /\ Rising(pool'[u].msgs)
         /\ Ids(pool'[u].msgs) = Ids(pool[u].msgs) \cup {added + 1}
         /\ Eager(pool'[u].msgs) \subseteq Eager(pool[u].msgs) \cup {added + 1}
<1>1. PICK done \in BOOLEAN :
        pool'[u].msgs = Append(pool[u].msgs, [id |-> added + 1, done |-> done])
  BY DEF Grows
<1> DEFINE m == [id |-> added + 1, done |-> done]
           msgs == pool[u].msgs
<1>2. m \in Message /\ msgs \in Seq(Message) /\ Rising(msgs) /\ added \in Nat
  <2>1. m \in Message
    BY DEF Grows, Message
  <2>2. added \in Nat
    BY DEF Base, TypeOK
  <2> QED
    BY <2>1, <2>2, PoolOf DEF Ordered
<1>3. \A w \in User : \A k \in offered[w] : k \in Nat /\ k < added + 1
  BY <1>2 DEF Tracked
<1>4. \A x \in Ids(msgs) : x < m.id
  BY <1>3 DEF Tracked
<1>5. /\ Ids(Append(msgs, m)) = Ids(msgs) \cup {added + 1}
      /\ Rising(Append(msgs, m))
  BY <1>2, <1>4, AppendIds
<1>6. Eager(Append(msgs, m)) \subseteq Eager(msgs) \cup {added + 1}
  <2> DEFINE new == Append(msgs, m)
  <2>1. /\ DOMAIN new = 1 .. Len(msgs) + 1 /\ DOMAIN msgs = 1 .. Len(msgs)
        /\ Len(msgs) \in Nat /\ new[Len(msgs) + 1] = m
        /\ \A i \in 1 .. Len(msgs) : new[i] = msgs[i]
    BY <1>2, AppendProperties, LenProperties
  <2> HIDE DEF new
  <2>2. \A i \in DOMAIN new : new[i].id = added + 1 \/ (i \in DOMAIN msgs /\ new[i] = msgs[i])
    BY <2>1
  <2>3. Eager(new) \subseteq Eager(msgs) \cup {added + 1}
    BY <2>2 DEF Eager
  <2> QED
    BY <2>3 DEF new
<1>7. offered' = [offered EXCEPT ![u] = @ \cup {added + 1}]
  <2>1. offered'[u] = offered[u] \cup {added + 1}
    BY <1>1, <1>5 DEF Records, Tracked
  <2>2. \A w \in User \ {u} : offered'[w] = offered[w]
    BY DEF Records, Tracked, Grows
  <2>3. offered' = [w \in User |-> IF w = u THEN offered[w] \cup {added + 1} ELSE offered[w]]
    BY <2>1, <2>2 DEF Records
  <2> QED
    BY <2>3 DEF Tracked
<1> QED
  BY <1>1, <1>3, <1>5, <1>6, <1>7 DEF C!Offer, Records

-----------------------------------------------------------------------------
(***************************************************************************)
(* Every step keeps the invariant, and is one of Channel or none.          *)
(***************************************************************************)
\* An eager message of a next pool was eager before, or is the newest of all.
EagerKept ==
  \A u \in User : \A m \in Eager(pool'[u].msgs) :
    m \in Eager(pool[u].msgs) \/ (m \in MsgId /\ \A k \in offered[u] : k <= m)

\* What moving the pools means for what is offered and what arrived.
LEMMA MovesKeepOrder ==
  ASSUME Base, Ordered, Tracked, InTurn, PoolsMove, Records
  PROVE  /\ Ordered' /\ Tracked' /\ InTurn' /\ EagerKept
         /\ \A u \in User : offered[u] \subseteq offered'[u]
         /\ [C!Next]_(C!channel)
<1>0. added \in Nat /\ UNCHANGED inbox /\ ~autoResend'
  BY DEF Base, TypeOK, Records, PoolsMove
<1>1. CASE added' = added /\ PoolsThin(pool, pool')
  <2>1. UNCHANGED <<offered, inbox>>
    BY <1>1, ThinningOffersNothing
  <2>2. \A u \in User : /\ Rising(pool'[u].msgs)
                        /\ Ids(pool'[u].msgs) \subseteq Ids(pool[u].msgs)
                        /\ Eager(pool'[u].msgs) \subseteq Eager(pool[u].msgs)
    BY <1>1 DEF PoolsThin, Thins
  <2>3. Ordered'
    BY <1>0, <2>2 DEF Ordered
  <2>4. Tracked'
    BY <1>1, <2>1, <2>2 DEF Tracked
  <2>5. EagerKept
    BY <2>2 DEF EagerKept
  <2>6. InTurn'
    BY <2>1, <2>2 DEF InTurn, C!Overtakes
  <2> QED
    BY <2>1, <2>3, <2>4, <2>5, <2>6 DEF C!channel
<1>2. CASE \E u \in User : Grows(u)
  <2>1. PICK u \in User : Grows(u)
    BY <1>2
  <2>2. /\ C!Offer(u, added + 1)
        /\ offered' = [offered EXCEPT ![u] = @ \cup {added + 1}]
        /\ Rising(pool'[u].msgs)
        /\ Ids(pool'[u].msgs) = Ids(pool[u].msgs) \cup {added + 1}
        /\ Eager(pool'[u].msgs) \subseteq Eager(pool[u].msgs) \cup {added + 1}
    BY <2>1, GrowingOffers
  <2>3. /\ added' = added + 1 /\ added + 1 \in MsgId
        /\ \A w \in User \ {u} : pool'[w].msgs = pool[w].msgs
    BY <2>1 DEF Grows
  <2>4. \A w \in User : \A k \in offered[w] : k \in Nat /\ k <= added + 1
    BY <1>0 DEF Tracked
  <2>5. Ordered'
    BY <1>0, <2>2, <2>3 DEF Ordered
  <2>6. /\ offered'[u] = offered[u] \cup {added + 1}
        /\ \A w \in User \ {u} : offered'[w] = offered[w]
        /\ offered' \in [User -> SUBSET MsgId]
    BY <2>2, <2>3 DEF Tracked
  <2>7. Tracked'
    <3>1. ASSUME NEW w \in User
          PROVE  /\ Ids(pool'[w].msgs) \subseteq offered'[w]
                 /\ offered'[w] \subseteq 1 .. added'
                 /\ \A i \in DOMAIN inbox[w] : inbox[w][i] \in offered'[w]
      <4>1. /\ Ids(pool[w].msgs) \subseteq offered[w] /\ offered[w] \subseteq 1 .. added
            /\ \A i \in DOMAIN inbox[w] : inbox[w][i] \in offered[w]
        BY DEF Tracked
      <4>2. CASE w = u
        BY <1>0, <2>2, <2>3, <2>6, <4>1, <4>2
      <4>3. CASE w # u
        BY <1>0, <2>3, <2>6, <4>1, <4>3
      <4> QED
        BY <4>2, <4>3
    <3> QED
      BY <1>0, <2>6, <3>1 DEF Tracked
  <2>8. EagerKept
    BY <2>2, <2>3, <2>4 DEF EagerKept
  <2>9. InTurn'
    <3> SUFFICES ASSUME NEW w \in User, NEW m \in Eager(pool'[w].msgs)
                 PROVE  C!Overtakes(m, inbox[w])
      BY <1>0 DEF InTurn, C!Overtakes
    <3>1. CASE m \in Eager(pool[w].msgs)
      BY <3>1 DEF InTurn
    <3>2. CASE m \notin Eager(pool[w].msgs)
      BY <2>8, <3>2 DEF EagerKept, Tracked, C!Overtakes
    <3> QED
      BY <3>1, <3>2
  <2> QED
    BY <2>2, <2>3, <2>5, <2>6, <2>7, <2>8, <2>9 DEF C!Next
<1> QED
  BY <1>1, <1>2 DEF PoolsMove

\* The message under way stays foremost while the pools move.
LEMMA ForemostStays ==
  ASSUME Tracked, Foremost, EagerKept, UNCHANGED inbox,
         \A u \in User : offered[u] \subseteq offered'[u],
         slot'.user = slot.user, slot'.id = slot.id, transfer' # "none" => transfer # "none"
  PROVE  Foremost'
<1> SUFFICES ASSUME transfer # "none"
             PROVE  /\ slot.user \in User /\ slot.id \in offered'[slot.user]
                    /\ C!Overtakes(slot.id, inbox[slot.user])
                    /\ \A m \in Eager(pool'[slot.user].msgs) : slot.id <= m
  BY DEF Foremost, C!Overtakes
<1>1. /\ slot.user \in User /\ slot.id \in offered[slot.user]
      /\ C!Overtakes(slot.id, inbox[slot.user])
      /\ \A m \in Eager(pool[slot.user].msgs) : slot.id <= m
  BY DEF Foremost
<1>2. \A m \in Eager(pool'[slot.user].msgs) : slot.id <= m
  BY <1>1 DEF EagerKept
<1> QED
  BY <1>1, <1>2

\* getMessage takes the least of the eager messages, which no other has passed.
LEMMA ForemostTaken ==
  ASSUME Base, Ordered, Tracked, InTurn, NEW t \in Thread, ScanSends(t),
         UNCHANGED inbox, \A u \in User : offered[u] \subseteq offered'[u]
  PROVE  Foremost'
<1> DEFINE u == priority[Least(Stops)]
           msgs == pool[u].msgs
           i == Least(Eligible(msgs))
<1>1. /\ CanSend(u) /\ slot'.user = u /\ slot'.id = msgs[i].id /\ UNCHANGED pool
  BY DEF ScanSends, engine
<1> HIDE DEF u
<1>2. u \in User /\ Eligible(msgs) # {} /\ msgs \in Seq(Message) /\ Rising(msgs)
  BY <1>1, PoolOf DEF CanSend, Base, TypeOK, Ordered
<1>3. i \in Eligible(msgs) /\ \A j \in Eligible(msgs) : i <= j
  <2>1. Eligible(msgs) \in SUBSET Nat
    BY <1>2 DEF Eligible
  <2> QED
    BY <1>2, <2>1, LeastIsLeast
<1>4. Eligible(msgs) = {j \in DOMAIN msgs : msgs[j].id \in Invitation \/ ~msgs[j].done}
  BY DEF Eligible, Ordered
<1> HIDE DEF i
<1>5. msgs[i].id \in Eager(msgs) /\ msgs[i].id \in Ids(msgs)
  BY <1>3, <1>4 DEF Eager, Ids
<1>6. \A m \in Eager(msgs) : msgs[i].id <= m
  <2> SUFFICES ASSUME NEW j \in Eligible(msgs) PROVE msgs[i].id <= msgs[j].id
    BY <1>4 DEF Eager
  <2>1. i \in DOMAIN msgs /\ j \in DOMAIN msgs /\ DOMAIN msgs = 1 .. Len(msgs)
    BY <1>2, <1>3, <1>4
  <2>2. msgs[i].id \in Nat /\ msgs[j].id \in Nat /\ i <= j
    <3>1. msgs[i] \in Message /\ msgs[j] \in Message
      BY <1>2, <2>1, ElementOfSeq
    <3> QED
      BY <1>3, <3>1 DEF Message, MsgId
  <2>3. CASE i = j
    BY <2>2, <2>3
  <2>4. CASE i < j
    BY <1>2, <2>1, <2>2, <2>4 DEF Rising
  <2> QED
    BY <2>1, <2>2, <2>3, <2>4
<1>7. msgs[i].id \in offered'[u] /\ C!Overtakes(msgs[i].id, inbox[u])
  BY <1>2, <1>5 DEF Tracked, InTurn
<1> QED
  BY <1>1, <1>2, <1>6, <1>7 DEF Foremost, C!Overtakes

-----------------------------------------------------------------------------
\* A step that changes nobody's place, or leads one thread away from the
\* sections of the engine.
Retreats ==
  \A x \in Thread : pc'[x] = pc[x] \/ pc'[x] \notin Sections \cup Callbacks

\* A thread that leaves for the outside.
LEMMA LeavingRetreats ==
  ASSUME Base, NEW t \in Thread, NEW l, NEW locks, Leave(t, l, locks),
         l \notin Sections \cup Callbacks
  PROVE  Retreats
BY LeaveIs DEF Retreats

\* Beside a transfer threads only call, add and erase; they enter no section.
LEMMA AsideRetreats ==
  ASSUME Base, Aside, started, ~Working, \A t \in Thread : ~Engaged(t)
  PROVE  Retreats /\ started' /\ UNCHANGED <<status, sent>>
<1>1. ASSUME NEW t \in Thread, \/ SortMessages(t) \/ ScanGivesUp(t)
                               \/ ScanEnds(t) \/ Stop(t)
      PROVE  FALSE
  BY <1>1 DEF SortMessages, ScanGivesUp, ScanEnds, Stop, Engaged, Sections
<1>2. CASE Callback
  BY <1>2 DEF Callback, Notify, SettleSent, SettleFailed, MarkFailed, Restart,
              Working, Callbacks
<1>3. ASSUME NEW t \in Thread, StartEngine(t)
      PROVE  Retreats /\ started' /\ UNCHANGED <<status, sent>>
  <2>1. \E locks : Leave(t, "idle", locks)
    BY <1>3 DEF StartEngine
  <2>2. Retreats
    BY <2>1, LeavingRetreats DEF Sections, Callbacks
  <2> QED
    BY <1>3, <2>2 DEF StartEngine, history
<1>4. ASSUME NEW t \in Thread,
             \/ Erase(t) \/ SyncBegin(t)
             \/ \E u \in User : AddMessage(t, u) \/ RemoveMessages(t, u)
             \/ \E u \in User, m \in MsgId : ResendMessage(t, u, Uid[m])
             \/ \E enabled \in BOOLEAN : SetAutoResendEnabled(t, enabled)
             \/ \E u \in User, done \in BOOLEAN : SyncAdd(t, u, done)
      PROVE  Retreats /\ started' /\ UNCHANGED <<status, sent>>
  <2>1. \/ UNCHANGED pc
        \/ \E l \in {"idle", "start", "erase", "sync"} : \E locks : Leave(t, l, locks)
    BY <1>4 DEF Erase, SyncBegin, AddMessage, RemoveMessages, ResendMessage,
                SetAutoResendEnabled, SyncAdd
  <2>2. Retreats
    BY <2>1, LeavingRetreats DEF Retreats, Sections, Callbacks
  <2>3. started' /\ UNCHANGED <<status, sent>>
    BY <1>4 DEF Erase, SyncBegin, AddMessage, RemoveMessages, ResendMessage,
                SetAutoResendEnabled, SyncAdd, AddMessageInternal, flags, history
  <2> QED
    BY <2>2, <2>3
<1>5. ASSUME NEW u \in User, BuddyOnline(u)
      PROVE  Retreats /\ started' /\ UNCHANGED <<status, sent>>
  <2>1. Leave("sip", "start", {})
    BY <1>5 DEF BuddyOnline
  <2>2. Retreats
    BY <2>1, LeavingRetreats DEF Thread, Sections, Callbacks
  <2> QED
    BY <1>5, <2>2 DEF BuddyOnline, flags, history
<1>6. CASE StopSIPStack \/ StartSIPStack
  BY <1>6 DEF StopSIPStack, StartSIPStack, Retreats, threads, flags, history
<1>7. App \subseteq Thread /\ "sip" \in Thread
  BY DEF Thread
<1> QED
  BY <1>1, <1>2, <1>3, <1>4, <1>5, <1>6, <1>7 DEF Aside, Call

\* A retreat leaves nobody engaged who was not.
LEMMA RetreatingKeepsOut ==
  ASSUME Retreats, ~Working, \A t \in Thread : ~Engaged(t)
  PROVE  ~Working' /\ \A t \in Thread : ~Engaged(t)'
<1>1. "sip" \in Thread
  BY DEF Thread
<1> QED
  BY <1>1 DEF Retreats, Working, Engaged

\* What neither begins nor ends a transfer leaves the slot's message and opens
\* no request.
LEMMA AsideKeepsSlot ==
  ASSUME Base, Aside
  PROVE  /\ slot'.user = slot.user /\ slot'.id = slot.id
         /\ pending' = pending \/ pending' = 0
<1>1. /\ UNCHANGED slot \/ slot' = [slot EXCEPT !.live = FALSE]
      /\ pending' = pending \/ pending' = 0
  BY DEF Aside, Call, StartEngine, SortMessages, ScanGivesUp, ScanEnds, Stop, Erase,
         SyncAdd, SyncBegin, AddMessage, RemoveMessages, ResendMessage,
         SetAutoResendEnabled, BuddyOnline, Callback, Notify, SettleSent, SettleFailed,
         MarkFailed, Restart, StopSIPStack, StartSIPStack, network, threads
<1>2. slot \in [user : User \cup {NoUser}, id : MsgId \cup {0},
                live : BOOLEAN, counter : Nat]
  BY DEF Base, TypeOK
<1> QED
  BY <1>1, <1>2

\* What the worker is about to record, beside a transfer.
LEMMA AsideTruthful ==
  ASSUME Base, Aside, Truthful, UNCHANGED <<transfer, inbox>>
  PROVE  Truthful'
<1>1. slot'.id = slot.id
  BY AsideKeepsSlot
<1>2. UNCHANGED status
  BY DEF Aside, Call, StartEngine, SortMessages, ScanGivesUp, ScanEnds, Stop, Erase,
         SyncAdd, SyncBegin, AddMessage, RemoveMessages, ResendMessage,
         SetAutoResendEnabled, BuddyOnline, Callback, Notify, SettleSent, SettleFailed,
         MarkFailed, Restart, StopSIPStack, StartSIPStack, threads
<1>3. pc'["sip"] \in {"notify", "settle"} => pc["sip"] \in {"notify", "settle"}
  <2>1. "sip" \in Thread /\ App \subseteq Thread
    BY DEF Thread
  <2>2. ASSUME NEW t \in Thread,
               \/ StartEngine(t) \/ SortMessages(t) \/ ScanGivesUp(t)
               \/ ScanEnds(t) \/ Stop(t) \/ Erase(t) \/ SyncBegin(t)
               \/ \E u \in User : AddMessage(t, u) \/ RemoveMessages(t, u)
               \/ \E u \in User, m \in MsgId : ResendMessage(t, u, Uid[m])
               \/ \E enabled \in BOOLEAN : SetAutoResendEnabled(t, enabled)
               \/ \E u \in User, done \in BOOLEAN : SyncAdd(t, u, done)
        PROVE  \/ UNCHANGED pc
               \/ \E l \in {"idle", "send", "scan", "start", "stop", "erase", "sync"} :
                    \E locks : Leave(t, l, locks)
    BY <2>2 DEF StartEngine, SortMessages, ScanGivesUp, ScanEnds, Stop, Erase, SyncBegin,
                AddMessage, RemoveMessages, ResendMessage, SetAutoResendEnabled, SyncAdd,
                threads
  <2>3. ASSUME NEW u \in User, BuddyOnline(u) PROVE Leave("sip", "start", {})
    BY <2>3 DEF BuddyOnline
  <2>4. CASE Callback
    BY <2>4 DEF Callback, Notify, SettleSent, SettleFailed, MarkFailed, Restart, Leave,
                Base, TypeOK
  <2>5. CASE StopSIPStack \/ StartSIPStack
    BY <2>5 DEF StopSIPStack, StartSIPStack, threads
  <2>6. ASSUME NEW t \in Thread,
               NEW l \in {"idle", "send", "scan", "start", "stop", "erase", "sync"},
               NEW locks, Leave(t, l, locks)
        PROVE  pc'["sip"] = pc["sip"] \/ pc'["sip"] = l
    BY <2>1, <2>6, LeaveIs
  <2> QED
    BY <2>1, <2>2, <2>3, <2>4, <2>5, <2>6 DEF Aside, Call
<1>4. sent' = sent \/ (sent' = sent \cup {slot.id} /\ status /\ pc["sip"] = "notify")
  BY DEF Aside, Call, StartEngine, SortMessages, ScanGivesUp, ScanEnds, Stop, Erase,
         SyncAdd, SyncBegin, AddMessage, RemoveMessages, ResendMessage,
         SetAutoResendEnabled, BuddyOnline, Callback, Notify, SettleSent, SettleFailed,
         MarkFailed, Restart, StopSIPStack, StartSIPStack, AddMessageInternal, history
<1>5. \A m : Arrived(m)' = Arrived(m)
  BY DEF Arrived
<1> QED
  BY <1>1, <1>2, <1>3, <1>4, <1>5 DEF Truthful, SentHasArrived

-----------------------------------------------------------------------------
\* Every step of the engine is one of AutoResend.
LEMMA EngineSteps == EngineStep => Next
BY DEF EngineStep, Transfers, Reported, Aside, Next, Run, Report

\* A thread inside sendMessage opens a transfer where none was under way.
LEMMA TransferBegins ==
  ASSUME Control, Control', Exclusive, Truthful, NEW t \in Thread, Transfers(t),
         UNCHANGED inbox
  PROVE  Exclusive' /\ Truthful'
<1>0. Base /\ pc[t] = "scan" /\ Engaged(t) /\ Leave(t, "idle", {})
  BY DEF Control, Transfers, ScanSends, Engaged, Sections
<1>1. started /\ ~Working /\ pending <= 1 /\ pending # 1 /\ pending \in Nat /\ pending' \in Nat
  BY <1>0 DEF Control, OneTask, Base, TypeOK
<1>2. Retreats
  BY <1>0, LeavingRetreats DEF Sections, Callbacks
<1>3. \A x \in Thread : pc'[x] = IF x = t THEN "idle" ELSE pc[x]
  BY <1>0, LeaveIs
<1>4. \A x \in Thread : ~Engaged(x)'
  <2> SUFFICES ASSUME NEW x \in Thread, Engaged(x)' PROVE FALSE
    OBVIOUS
  <2>1. x # t /\ Engaged(x)
    BY <1>3 DEF Engaged, Sections
  <2> QED
    BY <1>0, <2>1, OneEngaged DEF Control
<1>5. "sip" \in Thread
  BY DEF Thread
<1>6. started' /\ UNCHANGED <<status, sent>>
  BY <1>1 DEF Transfers, ScanSends, flags
<1>7. pc'["sip"] \notin Callbacks
  BY <1>1, <1>3, <1>5 DEF Working, Callbacks
<1>8. Exclusive'
  BY <1>1, <1>4, <1>6, <1>7 DEF Exclusive, Transfers, Working
<1>9. \A m : Arrived(m)' = Arrived(m)
  BY DEF Arrived
<1>10. Truthful'
  BY <1>6, <1>7, <1>9 DEF Truthful, SentHasArrived, Transfers, Callbacks
<1> QED
  BY <1>8, <1>10

\* A status ends the transfer it is about, or the next one of the same message
\* begins; a success is of a message that arrived.
LEMMA TransferEnds ==
  ASSUME Control, Exclusive, Truthful, NEW ok \in BOOLEAN, Reported(ok), UNCHANGED inbox
  PROVE  /\ Exclusive' /\ Truthful' /\ transfer # "none"
         /\ slot'.user = slot.user /\ slot'.id = slot.id
<1>0. /\ Base /\ pending \in Nat /\ pending <= 1 /\ pending > 0
      /\ slot \in [user : User \cup {NoUser}, id : MsgId \cup {0},
                   live : BOOLEAN, counter : Nat]
  BY DEF Control, OneTask, Base, TypeOK, Reported, OnSendMsgDone
<1>1. transfer # "none" /\ started /\ ~Working /\ \A t \in Thread : ~Engaged(t)
  BY <1>0 DEF Exclusive
<1>2. slot'.user = slot.user /\ slot'.id = slot.id
  BY <1>0 DEF Reported, OnSendMsgDone
<1>3. /\ started' /\ UNCHANGED sent
      /\ pending' = pending \/ pending' = pending - 1
      /\ transfer' = IF pending' = pending THEN "open" ELSE "none"
      /\ ok => transfer = "arrived"
      /\ \/ UNCHANGED <<pc, status>>
         \/ status' = ok /\ pending' = pending - 1
  BY <1>1 DEF Reported, OnSendMsgDone, threads, flags, history
<1>4. Exclusive'
  <2>1. CASE pending' = pending
    <3>1. UNCHANGED pc
      BY <1>0, <2>1 DEF Reported, OnSendMsgDone, threads
    <3> QED
      BY <1>1, <1>3, <2>1, <3>1 DEF Exclusive, Working, Engaged
  <2>2. CASE pending' = pending - 1
    BY <1>0, <1>3, <2>2 DEF Exclusive
  <2> QED
    BY <1>3, <2>1, <2>2
<1>5. \A m : Arrived(m)' = Arrived(m)
  BY DEF Arrived
<1>6. Truthful'
  <2>1. pc["sip"] = "idle"
    BY DEF Reported, OnSendMsgDone
  <2> QED
    BY <1>2, <1>3, <1>5, <2>1 DEF Truthful, SentHasArrived
<1> QED
  BY <1>1, <1>2, <1>4, <1>6

\* A step of the engine keeps the invariant and offers a message or none.
LEMMA EngineKeepsDelivery ==
  ASSUME Control, Control', DeliveryInv, EngineStep, Records
  PROVE  DeliveryInv' /\ [C!Next]_(C!channel)
<1>0. Base /\ Ordered /\ Tracked /\ InTurn /\ Foremost /\ Exclusive /\ Truthful
  BY DEF Control, DeliveryInv
<1>1. PoolsMove
  BY <1>0, EngineMoves, EngineSteps
<1>2. /\ Ordered' /\ Tracked' /\ InTurn' /\ EagerKept
      /\ \A u \in User : offered[u] \subseteq offered'[u]
      /\ [C!Next]_(C!channel)
  BY <1>0, <1>1, MovesKeepOrder
<1>3. UNCHANGED inbox
  BY DEF Records
<1>4. ASSUME NEW t \in Thread, Transfers(t)
      PROVE  Foremost' /\ Exclusive' /\ Truthful'
  <2>1. Foremost'
    BY <1>0, <1>2, <1>3, <1>4, ForemostTaken DEF Transfers
  <2> QED
    BY <1>0, <1>3, <1>4, <2>1, TransferBegins
<1>5. ASSUME NEW ok \in BOOLEAN, Reported(ok)
      PROVE  Foremost' /\ Exclusive' /\ Truthful'
  <2>1. /\ Exclusive' /\ Truthful' /\ transfer # "none"
        /\ slot'.user = slot.user /\ slot'.id = slot.id
    BY <1>0, <1>3, <1>5, TransferEnds
  <2>2. Foremost'
    BY <1>0, <1>2, <1>3, <2>1, ForemostStays
  <2> QED
    BY <2>1, <2>2
<1>6. ASSUME Aside, UNCHANGED transfer
      PROVE  Foremost' /\ Exclusive' /\ Truthful'
  <2>1. /\ slot'.user = slot.user /\ slot'.id = slot.id
        /\ pending' = pending \/ pending' = 0
    BY <1>0, <1>6, AsideKeepsSlot
  <2>2. Foremost'
    BY <1>0, <1>2, <1>3, <1>6, <2>1, ForemostStays
  <2>3. Exclusive'
    <3>1. transfer # "none" => started' /\ ~Working' /\ \A t \in Thread : ~Engaged(t)'
      BY <1>0, <1>6, AsideRetreats, RetreatingKeepsOut DEF Exclusive
    <3> QED
      BY <1>0, <1>6, <2>1, <3>1 DEF Exclusive
  <2> QED
    BY <1>0, <1>3, <1>6, <2>2, <2>3, AsideTruthful
<1>7. Foremost' /\ Exclusive' /\ Truthful'
  BY <1>4, <1>5, <1>6 DEF EngineStep
<1> QED
  BY <1>2, <1>7 DEF DeliveryInv

\* What arrives was offered, was not passed, and passes no eager message.
LEMMA ArrivingKeepsDelivery ==
  ASSUME Control, DeliveryInv, Arrive
  PROVE  DeliveryInv' /\ [C!Next]_(C!channel)
<1> DEFINE u == slot.user
           m == slot.id
           n == Len(inbox[u])
<1>0. Ordered /\ Tracked /\ InTurn /\ Foremost /\ Exclusive /\ Truthful
  BY DEF DeliveryInv
<1>1. /\ transfer = "open" /\ transfer' = "arrived"
      /\ inbox' = [inbox EXCEPT ![u] = Append(@, m)]
      /\ UNCHANGED <<offered, users, pool, priority, autoResend, started, pc, held, target,
                     status, slot, sipUp, pending, added, sent, removed, used>>
  BY DEF Arrive, vars, engine, flags, threads, network, history
<1>2. /\ u \in User /\ m \in offered[u] /\ C!Overtakes(m, inbox[u])
      /\ \A k \in Eager(pool[u].msgs) : m <= k
  BY <1>0, <1>1 DEF Foremost
<1>3. m \in MsgId /\ m \in Nat /\ inbox[u] \in Seq(MsgId)
  BY <1>0, <1>2 DEF Tracked, MsgId
<1> HIDE DEF u, m
<1>4. /\ Append(inbox[u], m) \in Seq(MsgId) /\ n \in Nat
      /\ DOMAIN inbox[u] = 1 .. n
      /\ DOMAIN Append(inbox[u], m) = 1 .. n + 1
      /\ Append(inbox[u], m)[n + 1] = m
      /\ \A i \in 1 .. n : Append(inbox[u], m)[i] = inbox[u][i]
  BY <1>3, AppendProperties, LenProperties
<1>5. /\ inbox'[u] = Append(inbox[u], m)
      /\ \A w \in User \ {u} : inbox'[w] = inbox[w]
      /\ inbox' \in [User -> Seq(MsgId)]
  BY <1>0, <1>1, <1>2, <1>4 DEF Tracked
<1> HIDE DEF n
<1>6. \A i \in DOMAIN inbox'[u] : inbox'[u][i] = m \/ \E j \in DOMAIN inbox[u] : inbox'[u][i] = inbox[u][j]
  BY <1>4, <1>5
<1>7. Ordered'
  BY <1>0, <1>1 DEF Ordered
<1>8. Tracked'
  <2>1. ASSUME NEW w \in User
        PROVE  \A i \in DOMAIN inbox'[w] : inbox'[w][i] \in offered[w]
    BY <1>0, <1>2, <1>5, <1>6 DEF Tracked
  <2> QED
    BY <1>0, <1>1, <1>5, <2>1 DEF Tracked
<1>9. ASSUME NEW k, C!Overtakes(k, inbox[u]), m <= k PROVE C!Overtakes(k, inbox'[u])
  BY <1>6, <1>9 DEF C!Overtakes
<1>10. InTurn'
  <2> SUFFICES ASSUME NEW w \in User, NEW k \in Eager(pool[w].msgs)
               PROVE  C!Overtakes(k, inbox'[w])
    BY <1>1 DEF InTurn, C!Overtakes
  <2>1. C!Overtakes(k, inbox[w])
    BY <1>0 DEF InTurn
  <2> QED
    BY <1>2, <1>5, <1>9, <2>1
<1>11. Foremost'
  <2>1. C!Overtakes(m, inbox'[u])
    BY <1>2, <1>3, <1>9
  <2> QED
    BY <1>1, <1>2, <2>1 DEF Foremost, C!Overtakes, u, m
<1>12. Exclusive'
  BY <1>0, <1>1 DEF Exclusive, Working, Engaged
<1>13. Truthful'
  <2>1. Arrived(m)'
    <3>1. n + 1 \in DOMAIN inbox'[u] /\ inbox'[u][n + 1] = m
      BY <1>4, <1>5
    <3>2. m' = m
      BY <1>1 DEF m
    <3> QED
      BY <1>2, <3>1, <3>2 DEF Arrived
  <2>2. ASSUME NEW k, Arrived(k) PROVE Arrived(k)'
    <3>1. PICK w \in User : \E j \in DOMAIN inbox[w] : inbox[w][j] = k
      BY <2>2 DEF Arrived
    <3>2. PICK i \in DOMAIN inbox[w] : inbox[w][i] = k
      BY <3>1
    <3>3. i \in DOMAIN inbox'[w] /\ inbox'[w][i] = k
      BY <1>4, <1>5, <3>2
    <3> QED
      BY <3>3 DEF Arrived
  <2> QED
    BY <1>0, <1>1, <2>1, <2>2 DEF Truthful, SentHasArrived, m
<1>14. C!Arrive(u, m)
  BY <1>1, <1>2 DEF C!Arrive
<1> QED
  BY <1>2, <1>3, <1>7, <1>8, <1>10, <1>11, <1>12, <1>13, <1>14 DEF DeliveryInv, C!Next

-----------------------------------------------------------------------------
(***************************************************************************)
(* The theorems.                                                           *)
(***************************************************************************)
\* At first nothing was offered, and nothing arrived.
LEMMA DeliveryStarts == DeliveryInit => Control /\ DeliveryInv /\ C!Init
<1> SUFFICES ASSUME DeliveryInit PROVE Control /\ DeliveryInv /\ C!Init
  OBVIOUS
<1>1. Control
  BY ControlInit DEF DeliveryInit
<1>2. /\ pool = [u \in User |-> EmptyPool] /\ ~autoResend /\ pending = 0 /\ sent = {}
      /\ pc = [t \in Thread |-> "idle"] /\ transfer = "none"
      /\ offered = [u \in User |-> {}] /\ inbox = [u \in User |-> <<>>]
  BY DEF DeliveryInit, Init
<1>3. \A u \in User : pool[u].msgs = <<>> /\ offered[u] = {} /\ inbox[u] = <<>>
  BY <1>2 DEF EmptyPool
<1>4. Ordered
  BY <1>2, <1>3, EmptyIds DEF Ordered
<1>5. Tracked
  BY <1>2, <1>3, EmptyIds DEF Tracked
<1>6. InTurn
  BY <1>3 DEF InTurn, C!Overtakes
<1>7. Foremost /\ Exclusive /\ Truthful
  BY <1>2 DEF Foremost, Exclusive, Truthful, SentHasArrived, Thread
<1> QED
  BY <1>1, <1>2, <1>4, <1>5, <1>6, <1>7 DEF DeliveryInv, C!Init

\* Every step keeps the invariant and is one of Channel or leaves it alone.
LEMMA DeliveryStep ==
  ASSUME Control, DeliveryInv, [DeliveryNext]_deliveryVars
  PROVE  Control' /\ DeliveryInv' /\ [C!Next]_(C!channel)
<1>1. CASE Arrive
  <2>1. UNCHANGED vars
    BY <1>1 DEF Arrive
  <2> QED
    BY <1>1, <2>1, ControlStep, ArrivingKeepsDelivery
<1>2. CASE EngineStep /\ Records
  <2>1. Control'
    BY <1>2, ControlStep, EngineSteps
  <2> QED
    BY <1>2, <2>1, EngineKeepsDelivery
<1>3. CASE UNCHANGED deliveryVars
  <2>1. UNCHANGED vars /\ UNCHANGED <<transfer, offered, inbox>>
    BY <1>3 DEF deliveryVars
  <2>2. UNCHANGED <<pool, autoResend, started, pc, status, slot, pending, added, sent>>
    BY <2>1 DEF vars, engine, flags, threads, network, history
  <2>3. Ordered' /\ Tracked' /\ InTurn' /\ Foremost'
    BY <2>1, <2>2 DEF DeliveryInv, Ordered, Tracked, InTurn, Foremost, C!Overtakes
  <2>4. Exclusive' /\ Truthful'
    BY <2>1, <2>2 DEF DeliveryInv, Exclusive, Truthful, SentHasArrived, Arrived,
                      Working, Engaged
  <2> QED
    BY <2>1, <2>3, <2>4, ControlStep DEF DeliveryInv, C!channel
<1> QED
  BY <1>1, <1>2, <1>3 DEF DeliveryNext, Records, Ids

\* The parts of the argument hold together in every state.
THEOREM SpecDeliveryInv == DeliverySpec => [](Control /\ DeliveryInv)
BY DeliveryStarts, DeliveryStep, PTL DEF DeliverySpec

\* What the application is told was sent has arrived, for any uids and any
\* number of users, threads, messages, retries and disturbances.
THEOREM SpecSentHasArrived == DeliverySpec => []SentHasArrived
<1>1. Control /\ DeliveryInv => SentHasArrived
  BY DEF DeliveryInv, Truthful
<1> QED
  BY <1>1, SpecDeliveryInv, PTL

\* The engine implements Channel: what reaches a user was offered for it and
\* arrives in the order it was offered, with losses and with repetitions, but
\* never late.  This is what Smkex assumes of the network.
THEOREM SpecImplementsChannel == DeliverySpec => ImplementsChannel
<1>1. DeliveryInit => C!Init
  BY DeliveryStarts
<1>2. Control /\ DeliveryInv /\ [DeliveryNext]_deliveryVars => [C!Next]_(C!channel)
  BY DeliveryStep
<1> QED
  BY <1>1, <1>2, SpecDeliveryInv, PTL DEF DeliverySpec, ImplementsChannel, C!Spec
=============================================================================
