---------------------------- MODULE OutboxProofs ----------------------------
(***************************************************************************)
(* Proof that AutoResend implements Outbox when messages have uids of      *)
(* their own, whatever the threads do, for any number of users, messages   *)
(* and retries, with removals, failures, passes over the databases and     *)
(* stops of the SIP stack.                                                 *)
(*                                                                         *)
(* Control says that one transfer at a time is under way.  What is added   *)
(* here is that the messages of a pool are in the order of their numbers   *)
(* and in no other pool, that the slot's message is of the pool of the     *)
(* slot's user, which has not failed since, and that a message that was    *)
(* transferred is in its pool only until it is settled.                    *)
(***************************************************************************)
EXTENDS AutoResendProofs

-----------------------------------------------------------------------------
(***************************************************************************)
(* What marking, adding and removing do to the messages of one pool.       *)
(***************************************************************************)
Ids(msgs) == {msgs[i].id : i \in DOMAIN msgs}
DoneIds(msgs) == {msgs[i].id : i \in {j \in DOMAIN msgs : msgs[j].done}}
Rising(msgs) == \A i, j \in DOMAIN msgs : i < j => msgs[i].id < msgs[j].id

\* The numbers of a pool's messages.
LEMMA IdsAreMessages ==
  ASSUME NEW msgs \in Seq(Message)
  PROVE  Ids(msgs) \subseteq MsgId /\ DoneIds(msgs) \subseteq Ids(msgs)
<1>1. \A i \in DOMAIN msgs : msgs[i] \in Message
  BY ElementOfSeq, LenProperties
<1> QED
  BY <1>1 DEF Ids, DoneIds, Message

\* Only an empty pool has no messages.
LEMMA EmptyIds ==
  /\ Ids(<<>>) = {} /\ DoneIds(<<>>) = {} /\ Rising(<<>>)
  /\ \A msgs \in Seq(Message) : msgs # <<>> => Ids(msgs) # {}
<1>1. Ids(<<>>) = {} /\ DoneIds(<<>>) = {} /\ Rising(<<>>)
  BY DEF Ids, DoneIds, Rising
<1>2. ASSUME NEW msgs \in Seq(Message), msgs # <<>> PROVE Ids(msgs) # {}
  <2>1. 1 \in DOMAIN msgs
    BY <1>2
  <2> QED
    BY <2>1 DEF Ids
<1> QED
  BY <1>1, <1>2

\* Another sequence with the same messages.
LEMMA SameIds ==
  ASSUME NEW msgs \in Seq(Message), NEW new \in Seq(Message), Len(new) = Len(msgs),
         \A i \in 1 .. Len(msgs) : new[i].id = msgs[i].id
  PROVE  Ids(new) = Ids(msgs) /\ (Rising(msgs) => Rising(new))
<1>1. DOMAIN new = 1 .. Len(msgs) /\ DOMAIN msgs = 1 .. Len(msgs)
  BY LenProperties
<1> QED
  BY <1>1 DEF Ids, Rising

\* A mark that is taken away parks nothing.
LEMMA UnmarkIds ==
  ASSUME NEW msgs \in Seq(Message), NEW uid, NEW done \in BOOLEAN, ~done
  PROVE  /\ MarkMsg(msgs, uid, done) \in Seq(Message)
         /\ Ids(MarkMsg(msgs, uid, done)) = Ids(msgs)
         /\ Rising(msgs) => Rising(MarkMsg(msgs, uid, done))
         /\ DoneIds(MarkMsg(msgs, uid, done)) \subseteq DoneIds(msgs)
<1> DEFINE new == MarkMsg(msgs, uid, done)
<1>1. /\ new \in Seq(Message) /\ Len(new) = Len(msgs)
      /\ \A i \in 1 .. Len(msgs) :
           /\ new[i].id = msgs[i].id
           /\ new[i].done = msgs[i].done \/ new[i].done = done
  BY MarkMsgKeeps
<1> HIDE DEF new
<1>2. DOMAIN new = 1 .. Len(msgs) /\ DOMAIN msgs = 1 .. Len(msgs)
  BY <1>1, LenProperties
<1>3. Ids(new) = Ids(msgs) /\ (Rising(msgs) => Rising(new))
  BY <1>1, SameIds
<1>4. DoneIds(new) \subseteq DoneIds(msgs)
  BY <1>1, <1>2 DEF DoneIds
<1> QED
  BY <1>1, <1>3, <1>4 DEF new

\* Taking a mark away parks nothing.
LEMMA UnmarkMsgIds ==
  ASSUME NEW msgs \in Seq(Message), NEW uid
  PROVE  /\ MarkMsg(msgs, uid, FALSE) \in Seq(Message)
         /\ Ids(MarkMsg(msgs, uid, FALSE)) = Ids(msgs)
         /\ Rising(msgs) => Rising(MarkMsg(msgs, uid, FALSE))
         /\ DoneIds(MarkMsg(msgs, uid, FALSE)) \subseteq DoneIds(msgs)
BY UnmarkIds

\* With uids of their own, a mark parks one message, if it is there.
LEMMA MarkMsgIds ==
  ASSUME DistinctUids, NEW msgs \in Seq(Message), NEW m \in MsgId
  PROVE  /\ MarkMsg(msgs, Uid[m], TRUE) \in Seq(Message)
         /\ Ids(MarkMsg(msgs, Uid[m], TRUE)) = Ids(msgs)
         /\ Rising(msgs) => Rising(MarkMsg(msgs, Uid[m], TRUE))
         /\ DoneIds(MarkMsg(msgs, Uid[m], TRUE)) = DoneIds(msgs) \cup ({m} \cap Ids(msgs))
<1> DEFINE uid == Uid[m]
           new == MarkMsg(msgs, uid, TRUE)
<1>0. DOMAIN msgs = 1 .. Len(msgs) /\ \A i \in 1 .. Len(msgs) : msgs[i] \in Message
  BY ElementOfSeq, LenProperties
<1>1. \A i \in 1 .. Len(msgs) : Uid[msgs[i].id] = uid <=> msgs[i].id = m
  BY <1>0 DEF DistinctUids, Message
<1> HIDE DEF uid
<1>2. /\ new \in Seq(Message) /\ Len(new) = Len(msgs)
      /\ \A i \in 1 .. Len(msgs) :
           /\ new[i].id = msgs[i].id
           /\ new[i].done = msgs[i].done \/ (msgs[i].id = m /\ new[i].done = TRUE)
  <2>1. /\ new \in Seq(Message) /\ Len(new) = Len(msgs)
        /\ \A i \in 1 .. Len(msgs) :
             /\ new[i].id = msgs[i].id
             /\ new[i].done = msgs[i].done \/ (Uid[msgs[i].id] = uid /\ new[i].done = TRUE)
    BY MarkMsgKeeps, Zenon
  <2> QED
    BY <1>1, <2>1, Zenon
<1>3. m \in Ids(msgs) => \E i \in 1 .. Len(msgs) : msgs[i].id = m /\ new[i].done
  <2> SUFFICES ASSUME m \in Ids(msgs)
               PROVE  \E i \in 1 .. Len(msgs) : msgs[i].id = m /\ new[i].done
    OBVIOUS
  <2> DEFINE i == Least(WithUid(msgs, uid))
  <2>1. WithUid(msgs, uid) # {}
    BY <1>0, <1>1 DEF WithUid, Ids
  <2>2. i \in 1 .. Len(msgs) /\ Uid[msgs[i].id] = uid
    BY <2>1, WithUidLeast
  <2>3. new = [msgs EXCEPT ![i].done = TRUE]
    BY <2>1 DEF MarkMsg
  <2> HIDE DEF i, new
  <2>4. new[i].done
    BY <1>0, <2>2, <2>3 DEF Message
  <2> QED
    BY <1>1, <2>2, <2>4
<1> HIDE DEF new
<1>4. DOMAIN new = 1 .. Len(msgs)
  BY <1>2, LenProperties
<1>5. Ids(new) = Ids(msgs) /\ (Rising(msgs) => Rising(new))
  BY <1>2, SameIds
<1>6. DoneIds(new) = DoneIds(msgs) \cup ({m} \cap Ids(msgs))
  <2>1. ASSUME NEW x \in DoneIds(new) PROVE x \in DoneIds(msgs) \cup ({m} \cap Ids(msgs))
    BY <1>0, <1>2, <1>4 DEF DoneIds, Ids
  <2>2. ASSUME NEW x \in DoneIds(msgs) PROVE x \in DoneIds(new)
    BY <1>0, <1>2, <1>4 DEF DoneIds
  <2>3. ASSUME m \in Ids(msgs) PROVE m \in DoneIds(new)
    BY <1>2, <1>3, <1>4, <2>3 DEF DoneIds
  <2> QED
    BY <2>1, <2>2, <2>3
<1> QED
  BY <1>2, <1>5, <1>6 DEF new, uid

\* A mark on all messages.
LEMMA MarkAllIds ==
  ASSUME NEW msgs \in Seq(Message)
  PROVE  /\ \A done \in BOOLEAN :
              /\ MarkAll(msgs, done) \in Seq(Message)
              /\ Ids(MarkAll(msgs, done)) = Ids(msgs)
              /\ Rising(msgs) => Rising(MarkAll(msgs, done))
         /\ DoneIds(MarkAll(msgs, TRUE)) = Ids(msgs)
         /\ DoneIds(MarkAll(msgs, FALSE)) = {}
<1>1. ASSUME NEW done \in BOOLEAN
      PROVE  /\ MarkAll(msgs, done) \in Seq(Message)
             /\ Ids(MarkAll(msgs, done)) = Ids(msgs)
             /\ Rising(msgs) => Rising(MarkAll(msgs, done))
             /\ DoneIds(MarkAll(msgs, done)) = IF done THEN Ids(msgs) ELSE {}
  <2> DEFINE new == MarkAll(msgs, done)
  <2>1. /\ new \in Seq(Message) /\ Len(new) = Len(msgs)
        /\ \A i \in 1 .. Len(msgs) : new[i].id = msgs[i].id /\ new[i].done = done
    BY MarkAllKeeps
  <2> HIDE DEF new
  <2>2. DOMAIN new = 1 .. Len(msgs) /\ DOMAIN msgs = 1 .. Len(msgs)
    BY <2>1, LenProperties
  <2>3. Ids(new) = Ids(msgs) /\ (Rising(msgs) => Rising(new))
    BY <2>1, SameIds
  <2>4. DoneIds(new) = IF done THEN Ids(msgs) ELSE {}
    BY <2>1, <2>2 DEF DoneIds, Ids
  <2> QED
    BY <2>1, <2>3, <2>4 DEF new
<1> QED
  BY <1>1

\* A message with a higher number goes to the end.
LEMMA AppendIds ==
  ASSUME NEW msgs \in Seq(Message), NEW m \in Message, \A x \in Ids(msgs) : x < m.id
  PROVE  /\ Append(msgs, m) \in Seq(Message)
         /\ Ids(Append(msgs, m)) = Ids(msgs) \cup {m.id}
         /\ Rising(msgs) => Rising(Append(msgs, m))
         /\ DoneIds(Append(msgs, m)) = DoneIds(msgs) \cup (IF m.done THEN {m.id} ELSE {})
<1> DEFINE new == Append(msgs, m)
           n == Len(msgs)
<1>1. /\ new \in Seq(Message) /\ Len(new) = n + 1 /\ new[n + 1] = m /\ n \in Nat
      /\ \A i \in 1 .. n : new[i] = msgs[i]
  BY AppendProperties, LenProperties
<1>2. DOMAIN new = 1 .. n + 1 /\ DOMAIN msgs = 1 .. n
  BY <1>1, LenProperties
<1> HIDE DEF new, n
<1>3. DOMAIN new = DOMAIN msgs \cup {n + 1}
      /\ \A i \in DOMAIN msgs : new[i] = msgs[i] /\ i \in Nat /\ i < n + 1
  BY <1>1, <1>2
<1>4. Ids(new) = Ids(msgs) \cup {m.id}
  BY <1>1, <1>3 DEF Ids
<1>5. DoneIds(new) = DoneIds(msgs) \cup (IF m.done THEN {m.id} ELSE {})
  BY <1>1, <1>3 DEF DoneIds
<1>6. Rising(msgs) => Rising(new)
  <2> SUFFICES ASSUME Rising(msgs), NEW i \in DOMAIN new, NEW j \in DOMAIN new, i < j
               PROVE  new[i].id < new[j].id
    BY DEF Rising
  <2>1. i \in DOMAIN msgs
    BY <1>1, <1>2
  <2>2. msgs[i].id < m.id
    BY <2>1 DEF Ids
  <2> QED
    BY <1>1, <1>3, <2>1, <2>2 DEF Rising
<1> QED
  BY <1>1, <1>4, <1>5, <1>6 DEF new

\* The message with a uid goes, and no other.
LEMMA RmMessageIds ==
  ASSUME DistinctUids, NEW msgs \in Seq(Message), NEW m \in MsgId, Rising(msgs)
  PROVE  /\ RmMessage(msgs, Uid[m]) \in Seq(Message)
         /\ Ids(RmMessage(msgs, Uid[m])) = Ids(msgs) \ {m}
         /\ Rising(RmMessage(msgs, Uid[m]))
         /\ DoneIds(RmMessage(msgs, Uid[m])) = DoneIds(msgs) \ {m}
<1> DEFINE uid == Uid[m]
<1>0. DOMAIN msgs = 1 .. Len(msgs) /\ Len(msgs) \in Nat
      /\ \A i \in 1 .. Len(msgs) : msgs[i] \in Message
  BY ElementOfSeq, LenProperties
<1>1. \A i \in 1 .. Len(msgs) : Uid[msgs[i].id] = uid <=> msgs[i].id = m
  BY <1>0 DEF DistinctUids, Message
<1> HIDE DEF uid
<1>2. CASE WithUid(msgs, uid) = {}
  <2>1. m \notin Ids(msgs)
    BY <1>0, <1>1, <1>2 DEF WithUid, Ids
  <2>2. RmMessage(msgs, uid) = msgs
    BY <1>2 DEF RmMessage
  <2> QED
    BY <2>1, <2>2, IdsAreMessages DEF uid
<1>3. CASE WithUid(msgs, uid) # {}
  <2> DEFINE i == Least(WithUid(msgs, uid))
             r == Cut(msgs, i)
  <2>1. i \in 1 .. Len(msgs) /\ msgs[i].id = m
    BY <1>1, <1>3, WithUidLeast
  <2>2. RmMessage(msgs, uid) = r
    BY <1>3 DEF RmMessage, Cut
  <2> HIDE DEF i
  <2>3. /\ r \in Seq(Message) /\ Len(r) = Len(msgs) - 1
        /\ \A k \in 1 .. Len(msgs) - 1 : r[k] = IF k < i THEN msgs[k] ELSE msgs[k + 1]
        /\ \A j \in 1 .. Len(msgs) : j # i => \E k \in 1 .. Len(msgs) - 1 : r[k] = msgs[j]
    BY <2>1, CutOut, Zenon
  <2> HIDE DEF r
  <2>4. DOMAIN r = 1 .. Len(msgs) - 1
    BY <2>3, LenProperties
  <2>5. \A j \in DOMAIN msgs : j # i => msgs[j].id # m
    <3> SUFFICES ASSUME NEW j \in DOMAIN msgs, j # i PROVE msgs[j].id # m
      OBVIOUS
    <3>1. j \in Nat /\ i \in Nat /\ i \in DOMAIN msgs /\ m \in Nat /\ msgs[j].id \in Nat
      BY <1>0, <2>1 DEF Message, MsgId
    <3>2. msgs[i].id < msgs[j].id \/ msgs[j].id < msgs[i].id
      BY <3>1 DEF Rising
    <3> QED
      BY <2>1, <3>1, <3>2
  <2>6. \A k \in DOMAIN r : \E j \in DOMAIN msgs : j # i /\ r[k] = msgs[j]
    <3> TAKE k \in DOMAIN r
    <3> DEFINE j == IF k < i THEN k ELSE k + 1
    <3>1. j \in DOMAIN msgs /\ j # i
      BY <1>0, <2>1, <2>4
    <3>2. r[k] = msgs[j]
      BY <2>3, <2>4
    <3> HIDE DEF j
    <3> QED
      BY <3>1, <3>2
  <2>7. \A j \in DOMAIN msgs : j # i => \E k \in DOMAIN r : r[k] = msgs[j]
    BY <1>0, <2>3, <2>4
  <2>8. Ids(r) = Ids(msgs) \ {m}
    BY <2>1, <2>5, <2>6, <2>7 DEF Ids
  <2>9. DoneIds(r) = DoneIds(msgs) \ {m}
    BY <2>1, <2>5, <2>6, <2>7 DEF DoneIds
  <2>10. Rising(r)
    <3> SUFFICES ASSUME NEW k \in DOMAIN r, NEW l \in DOMAIN r, k < l
                 PROVE  r[k].id < r[l].id
      BY DEF Rising
    <3> DEFINE a == IF k < i THEN k ELSE k + 1
               b == IF l < i THEN l ELSE l + 1
    <3>1. a \in DOMAIN msgs /\ b \in DOMAIN msgs /\ a < b
      BY <1>0, <2>1, <2>4
    <3>2. r[k] = msgs[a] /\ r[l] = msgs[b]
      BY <2>3, <2>4
    <3> HIDE DEF a, b
    <3> QED
      BY <3>1, <3>2 DEF Rising
  <2> QED
    BY <2>2, <2>3, <2>8, <2>9, <2>10 DEF uid
<1> QED
  BY <1>2, <1>3

-----------------------------------------------------------------------------
(***************************************************************************)
(* The invariant.                                                          *)
(***************************************************************************)
\* Pools hold messages in the order they were added, each message once.
Numbered ==
  /\ \A u \in User : Rising(pool[u].msgs) /\ Ids(pool[u].msgs) \subseteq 1 .. added
  /\ \A u, w \in User : u # w => Ids(pool[u].msgs) \cap Ids(pool[w].msgs) = {}
  /\ sent \subseteq 1 .. added

\* A pool goes with its last message, and with it that its user failed.
Filled ==
  \A u \in User :
    IF u \in users THEN pool[u].msgs # <<>> ELSE pool[u].msgs = <<>> /\ ~pool[u].dirty

\* The slot's message is still to be settled.
Unsettled == slot.live \/ pc["sip"] \in {"notify", "settle"}

\* A success that is recorded and not settled yet.
Settling == pc["sip"] = "settle" /\ status

\* Where the slot's message is, and which transferred messages have a pool.
Aimed ==
  /\ Unsettled => /\ slot.id \in 1 .. added /\ ~pool[slot.user].dirty
                  /\ \A u \in User : slot.id \in Ids(pool[u].msgs) => u = slot.user
  /\ Settling => slot.id \in sent
  /\ \A u \in User : \A m \in sent \cap Ids(pool[u].msgs) : Settling /\ m = slot.id
  /\ pc["sip"] = "mark" => slot.user \in users /\ pool[slot.user].dirty

OutboxInv == Numbered /\ Filled /\ Aimed

\* Control gives the types, the locks and that one task at a time is under way.
Sound == Control /\ OutboxInv

\* What Outbox sees of the pools in P, the pools of us.
LEMMA ParkedIn ==
  ASSUME NEW P \in [User -> Pool], NEW us \in SUBSET User,
         \A u \in User : u \notin us => P[u].msgs = <<>>,
         NEW m
  PROVE  /\ m \in MsgId
         /\ \E u \in us : \E i \in DOMAIN P[u].msgs : P[u].msgs[i].id = m /\ P[u].msgs[i].done
         <=> \E u \in User : m \in DoneIds(P[u].msgs)
<1>1. ASSUME NEW u \in User, m \in DoneIds(P[u].msgs) PROVE m \in MsgId /\ u \in us
  <2>1. P[u].msgs \in Seq(Message)
    BY DEF Pool
  <2>2. m \in MsgId
    BY <1>1, <2>1, IdsAreMessages
  <2>3. P[u].msgs # <<>>
    BY <1>1 DEF DoneIds
  <2> QED
    BY <2>2, <2>3
<1>2. ASSUME NEW u \in User
      PROVE  m \in DoneIds(P[u].msgs) <=>
               \E i \in DOMAIN P[u].msgs : P[u].msgs[i].id = m /\ P[u].msgs[i].done
  <2> DEFINE msgs == P[u].msgs
  <2> HIDE DEF msgs
  <2>1. m \in DoneIds(msgs) <=> \E i \in DOMAIN msgs : msgs[i].id = m /\ msgs[i].done
    BY DEF DoneIds
  <2> QED
    BY <2>1 DEF msgs
<1> QED
  BY <1>1, <1>2

\* What Outbox sees of the pools.
LEMMA PoolsSeen ==
  ASSUME Base, Filled
  PROVE  /\ \A u \in User : Queue[u] = Ids(pool[u].msgs) \ sent
         /\ \A m : m \in Parked <=> m \notin sent /\ \E u \in User : m \in DoneIds(pool[u].msgs)
<1>1. \A u \in User : Queue[u] = Ids(pool[u].msgs) \ sent
  BY DEF Queue, Ids
<1>2. pool \in [User -> Pool] /\ users \in SUBSET User
      /\ \A u \in User : u \notin users => pool[u].msgs = <<>>
  BY DEF Filled, Base, TypeOK
<1>3. \A m : m \in Parked <=> m \notin sent /\ \E u \in User : m \in DoneIds(pool[u].msgs)
  <2> TAKE m
  <2>1. m \in Parked <=>
          /\ m \notin sent
          /\ m \in MsgId
          /\ \E u \in users : \E i \in DOMAIN pool[u].msgs :
               pool[u].msgs[i].id = m /\ pool[u].msgs[i].done
    BY DEF Parked
  <2>2. /\ m \in MsgId
        /\ \E u \in users : \E i \in DOMAIN pool[u].msgs :
             pool[u].msgs[i].id = m /\ pool[u].msgs[i].done
        <=> \E u \in User : m \in DoneIds(pool[u].msgs)
    BY <1>2, ParkedIn
  <2> QED
    BY <2>1, <2>2, Zenon
<1> QED
  BY <1>1, <1>3

\* The same after a step.
LEMMA PoolsSeenNext ==
  ASSUME Base', Filled'
  PROVE  /\ \A u \in User : Queue'[u] = Ids(pool'[u].msgs) \ sent'
         /\ \A m : m \in Parked' <=>
                     m \notin sent' /\ \E u \in User : m \in DoneIds(pool'[u].msgs)
<1>1. \A u \in User : Queue'[u] = Ids(pool'[u].msgs) \ sent'
  BY DEF Queue, Ids
<1>2. pool' \in [User -> Pool] /\ users' \in SUBSET User
      /\ \A u \in User : u \notin users' => pool'[u].msgs = <<>>
  BY DEF Filled, Base, TypeOK
<1>3. \A m : m \in Parked' <=>
               m \notin sent' /\ \E u \in User : m \in DoneIds(pool'[u].msgs)
  <2> TAKE m
  <2>1. m \in Parked' <=>
          /\ m \notin sent'
          /\ m \in MsgId
          /\ \E u \in users' : \E i \in DOMAIN pool'[u].msgs :
               pool'[u].msgs[i].id = m /\ pool'[u].msgs[i].done
    BY DEF Parked
  <2>2. /\ m \in MsgId
        /\ \E u \in users' : \E i \in DOMAIN pool'[u].msgs :
             pool'[u].msgs[i].id = m /\ pool'[u].msgs[i].done
        <=> \E u \in User : m \in DoneIds(pool'[u].msgs)
    BY <1>2, ParkedIn
  <2> QED
    BY <2>1, <2>2, Zenon
<1> QED
  BY <1>1, <1>3

\* A step that changes no pool but u's, where it may add a new message.
ChangesOnly(u) ==
  /\ \A w \in User \ {u} : /\ pool'[w].msgs = pool[w].msgs /\ pool'[w].dirty = pool[w].dirty
                           /\ w \in users' <=> w \in users
  /\ Rising(pool'[u].msgs)
  /\ Ids(pool'[u].msgs) \subseteq Ids(pool[u].msgs) \cup {n \in 1 .. added' : n > added}
  /\ IF u \in users' THEN pool'[u].msgs # <<>>
     ELSE pool'[u].msgs = <<>> /\ ~pool'[u].dirty
  /\ added' >= added /\ UNCHANGED sent

\* Such a step keeps the pools in order.
LEMMA PoolStaysNumbered ==
  ASSUME Base, Numbered, Filled, Base', NEW u \in User, ChangesOnly(u)
  PROVE  Numbered' /\ Filled'
<1>1. added \in Nat /\ added' \in Nat /\ added' >= added /\ sent' = sent
  BY DEF ChangesOnly, Base, TypeOK
<1>2. \A w \in User \ {u} : pool'[w].msgs = pool[w].msgs
  BY DEF ChangesOnly
<1>3. \A w \in User : Rising(pool'[w].msgs)
  BY <1>2 DEF ChangesOnly, Numbered
<1>4. \A w \in User : Ids(pool[w].msgs) \subseteq 1 .. added
  BY DEF Numbered
<1>5. Ids(pool'[u].msgs) \subseteq Ids(pool[u].msgs) \cup {n \in 1 .. added' : n > added}
  BY DEF ChangesOnly
<1>6. \A w \in User : Ids(pool'[w].msgs) \subseteq 1 .. added'
  BY <1>1, <1>2, <1>4, <1>5
<1>7. \A w \in User \ {u} : Ids(pool'[u].msgs) \cap Ids(pool[w].msgs) = {}
  <2> SUFFICES ASSUME NEW w \in User \ {u}, NEW m \in Ids(pool'[u].msgs),
                      m \in Ids(pool[w].msgs)
               PROVE  FALSE
    OBVIOUS
  <2>1. m \in 1 .. added
    BY <1>4
  <2>2. m \in Ids(pool[u].msgs)
    BY <1>1, <1>5, <2>1
  <2> QED
    BY <2>2 DEF Numbered
<1>8. \A v, w \in User : v # w => Ids(pool'[v].msgs) \cap Ids(pool'[w].msgs) = {}
  <2> SUFFICES ASSUME NEW v \in User, NEW w \in User, v # w
               PROVE  Ids(pool'[v].msgs) \cap Ids(pool'[w].msgs) = {}
    OBVIOUS
  <2>1. CASE v = u
    BY <1>2, <1>7, <2>1
  <2>2. CASE w = u
    BY <1>2, <1>7, <2>2
  <2>3. CASE v # u /\ w # u
    BY <1>2, <2>3 DEF Numbered
  <2> QED
    BY <2>1, <2>2, <2>3
<1>9. sent' \subseteq 1 .. added'
  BY <1>1 DEF Numbered
<1>10. Filled'
  BY DEF Filled, ChangesOnly
<1> QED
  BY <1>3, <1>6, <1>8, <1>9, <1>10 DEF Numbered

\* What Outbox sees of it: one queue changes, and what is parked of it.
LEMMA PoolChange ==
  ASSUME Base, Numbered, Filled, Base', NEW u \in User, ChangesOnly(u)
  PROVE  /\ Queue' = [Queue EXCEPT ![u] = Ids(pool'[u].msgs) \ sent]
         /\ Queue[u] = Ids(pool[u].msgs) \ sent
         /\ Parked' = (Parked \ Queue[u]) \cup (DoneIds(pool'[u].msgs) \ sent)
         /\ Parked \cap Queue[u] = DoneIds(pool[u].msgs) \ sent
         /\ Unreachable' = (Unreachable \ {u}) \cup (IF pool'[u].dirty THEN {u} ELSE {})
<1>1. Numbered' /\ Filled'
  BY PoolStaysNumbered
<1>2. /\ \A w \in User : Queue[w] = Ids(pool[w].msgs) \ sent
      /\ \A m : m \in Parked <=> m \notin sent /\ \E w \in User : m \in DoneIds(pool[w].msgs)
  BY PoolsSeen
<1>3. /\ \A w \in User : Queue'[w] = Ids(pool'[w].msgs) \ sent'
      /\ \A m : m \in Parked' <=>
                  m \notin sent' /\ \E w \in User : m \in DoneIds(pool'[w].msgs)
  BY <1>1, PoolsSeenNext
<1>4. sent' = sent /\ \A w \in User \ {u} : pool'[w].msgs = pool[w].msgs
                                             /\ pool'[w].dirty = pool[w].dirty
  BY DEF ChangesOnly
<1>5. \A w \in User : DoneIds(pool[w].msgs) \subseteq Ids(pool[w].msgs)
  <2> TAKE w \in User
  <2>1. pool[w].msgs \in Seq(Message)
    BY PoolMessages
  <2> QED
    BY <2>1, IdsAreMessages
<1>6. \A w \in User \ {u} : DoneIds(pool[w].msgs) \cap Ids(pool[u].msgs) = {}
  BY <1>5 DEF Numbered
<1>7. Parked \cap Queue[u] = DoneIds(pool[u].msgs) \ sent
  BY <1>2, <1>5, <1>6
<1>8. Parked' = (Parked \ Queue[u]) \cup (DoneIds(pool'[u].msgs) \ sent)
  BY <1>2, <1>3, <1>4, <1>5, <1>6
<1>9. Queue' = [Queue EXCEPT ![u] = Ids(pool'[u].msgs) \ sent]
  <2>1. /\ Queue = [w \in User |-> Queue[w]] /\ DOMAIN Queue = User
        /\ Queue' = [w \in User |-> Queue'[w]] /\ DOMAIN Queue' = User
    BY DEF Queue
  <2>2. \A w \in User \ {u} : Queue'[w] = Queue[w]
    BY <1>2, <1>3, <1>4
  <2>3. Queue'[u] = Ids(pool'[u].msgs) \ sent
    BY <1>3, <1>4
  <2> QED
    BY <2>1, <2>2, <2>3
<1>10. Unreachable' = (Unreachable \ {u}) \cup (IF pool'[u].dirty THEN {u} ELSE {})
  BY <1>4 DEF Unreachable
<1> QED
  BY <1>2, <1>7, <1>8, <1>9, <1>10

\* The pools stay as they are.
LEMMA PoolsStay ==
  ASSUME Numbered, Filled, UNCHANGED <<users, pool, added, sent>>
  PROVE  /\ Numbered' /\ Filled'
         /\ UNCHANGED <<Queue, Parked, Unreachable>>
BY DEF Numbered, Filled, Queue, Parked, Unreachable

-----------------------------------------------------------------------------
(***************************************************************************)
(* Steps that neither transfer nor settle the slot's message.              *)
(***************************************************************************)
\* What the refinement says of a step.
Simulates == OutboxInv' /\ [O!Next]_(O!outbox)

\* The worker does not enter or leave the part of its callback that settles.
SipQuiet ==
  /\ UNCHANGED <<slot, status>>
  /\ \/ pc'["sip"] = pc["sip"]
     \/ {pc["sip"], pc'["sip"]} \cap {"notify", "settle", "mark"} = {}

\* Then the message in flight stays in flight.
LEMMA QuietFlight ==
  ASSUME SipQuiet
  PROVE  /\ InFlight' = InFlight /\ Unsettled' = Unsettled /\ Settling' = Settling
         /\ pc'["sip"] = "mark" => pc["sip"] = "mark"
BY DEF SipQuiet, InFlight, Unsettled, Settling

\* A thread that leaves one quiet section for another.
LEMMA LeaveQuiet ==
  ASSUME Base, NEW t \in Thread, NEW l, NEW locks, Leave(t, l, locks),
         {pc[t], l} \cap {"notify", "settle", "mark"} = {}, UNCHANGED <<slot, status>>
  PROVE  SipQuiet
<1>1. pc'["sip"] = IF t = "sip" THEN l ELSE pc["sip"]
  BY LeaveIs DEF Thread
<1> QED
  BY <1>1 DEF SipQuiet

\* The invariant about the slot, when no pool gets another message that was
\* there before and no user fails.
LEMMA AimedKept ==
  ASSUME Base, Numbered, Aimed, slot'.user = slot.user, slot'.id = slot.id, sent' = sent,
         Unsettled' => Unsettled, Settling' = Settling,
         added' \in Nat, added' >= added,
         \A w \in User : /\ Ids(pool'[w].msgs) \subseteq
                              Ids(pool[w].msgs) \cup {n \in 1 .. added' : n > added}
                         /\ pool'[w].dirty => pool[w].dirty,
         pc'["sip"] = "mark" => pc["sip"] = "mark" /\ UNCHANGED <<users, pool>>
  PROVE  Aimed'
<1>0. added \in Nat
  BY DEF Base, TypeOK
<1>1. ASSUME Unsettled'
      PROVE  /\ slot.id \in 1 .. added' /\ ~pool'[slot.user].dirty
             /\ \A u \in User : slot.id \in Ids(pool'[u].msgs) => u = slot.user
  <2>1. Unsettled /\ slot.user \in User
    BY <1>1 DEF Unsettled, Base, SlotInUse
  <2>2. slot.id \in 1 .. added /\ ~pool[slot.user].dirty
        /\ \A u \in User : slot.id \in Ids(pool[u].msgs) => u = slot.user
    BY <2>1 DEF Aimed
  <2> QED
    BY <1>0, <2>1, <2>2
<1>2. ASSUME NEW u \in User, NEW m \in sent \cap Ids(pool'[u].msgs)
      PROVE  Settling' /\ m = slot.id
  <2>1. m \in 1 .. added
    BY DEF Numbered
  <2>2. m \in Ids(pool[u].msgs)
    BY <1>0, <2>1
  <2> QED
    BY <2>2 DEF Aimed
<1>3. Settling' => slot.id \in sent
  BY DEF Aimed
<1>4. pc'["sip"] = "mark" => slot.user \in users' /\ pool'[slot.user].dirty
  BY DEF Aimed
<1> QED
  BY <1>1, <1>2, <1>3, <1>4 DEF Aimed

\* A step that leaves the pools alone, and the slot's message.
LEMMA SlotStep ==
  ASSUME Sound, UNCHANGED <<users, pool, added, sent>>,
         slot'.user = slot.user, slot'.id = slot.id,
         Unsettled' => Unsettled, Settling' = Settling,
         pc'["sip"] = "mark" => pc["sip"] = "mark"
  PROVE  OutboxInv' /\ UNCHANGED <<Queue, Parked, Unreachable>>
<1>1. Base /\ Numbered /\ Filled /\ Aimed /\ added \in Nat
  BY DEF Sound, Control, OutboxInv, Base, TypeOK
<1>2. Numbered' /\ Filled' /\ UNCHANGED <<Queue, Parked, Unreachable>>
  BY <1>1, PoolsStay
<1>3. Aimed'
  BY <1>1, AimedKept
<1> QED
  BY <1>2, <1>3 DEF OutboxInv

\* A step that leaves the pools and the slot alone is a stutter.
LEMMA QuietStep ==
  ASSUME Sound, SipQuiet, UNCHANGED <<users, pool, added, sent>>
  PROVE  Simulates
<1>1. InFlight' = InFlight /\ Unsettled' = Unsettled /\ Settling' = Settling
      /\ (pc'["sip"] = "mark" => pc["sip"] = "mark")
  BY QuietFlight
<1>2. OutboxInv' /\ UNCHANGED <<Queue, Parked, Unreachable>>
  BY <1>1, SlotStep DEF SipQuiet
<1> QED
  BY <1>1, <1>2 DEF Simulates, O!outbox

\* A step on one pool, which does not make its user fail.
LEMMA PoolStep ==
  ASSUME Sound, Base', UNCHANGED slot, Unsettled' => Unsettled, Settling' = Settling,
         pc'["sip"] # "mark", NEW u \in User, ChangesOnly(u), pool'[u].dirty => pool[u].dirty
  PROVE  OutboxInv'
<1>1. Base /\ Numbered /\ Filled /\ Aimed
  BY DEF Sound, Control, OutboxInv
<1>2. Numbered' /\ Filled'
  BY <1>1, PoolStaysNumbered
<1>3. added' \in Nat /\ added' >= added /\ sent' = sent
  BY DEF Base, TypeOK, ChangesOnly
<1>4. \A w \in User : /\ Ids(pool'[w].msgs) \subseteq
                           Ids(pool[w].msgs) \cup {n \in 1 .. added' : n > added}
                      /\ pool'[w].dirty => pool[w].dirty
  BY DEF ChangesOnly
<1>5. Aimed'
  BY <1>1, <1>3, <1>4, AimedKept
<1> QED
  BY <1>2, <1>5 DEF OutboxInv

\* The same while the worker is elsewhere.
LEMMA QuietPoolStep ==
  ASSUME Sound, Base', SipQuiet, pc["sip"] # "mark", NEW u \in User, ChangesOnly(u),
         pool'[u].dirty => pool[u].dirty
  PROVE  OutboxInv' /\ InFlight' = InFlight
<1>1. InFlight' = InFlight /\ Unsettled' = Unsettled /\ Settling' = Settling
      /\ pc'["sip"] # "mark" /\ slot' = slot
  BY QuietFlight DEF SipQuiet
<1>2. OutboxInv'
  BY <1>1, PoolStep
<1> QED
  BY <1>1, <1>2

\* userPoolLock_ keeps the worker out of the section that marks a pool.
LEMMA PoolLocked ==
  ASSUME Control, NEW t \in Thread, Free(t, "pool"), pc[t] # "mark"
  PROVE  pc["sip"] # "mark"
<1>1. pc["sip"] = "mark" => "pool" \in held["sip"]
  BY FitsHeld DEF Control, Fits, Thread
<1> QED
  BY <1>1 DEF Free, Thread

\* Taking marks away and forgiving the user's failure is a retry.
LEMMA UnparkingRetries ==
  ASSUME Sound, Base', SipQuiet, pc["sip"] # "mark", NEW u \in User, ChangesOnly(u),
         Ids(pool'[u].msgs) = Ids(pool[u].msgs),
         DoneIds(pool'[u].msgs) \subseteq DoneIds(pool[u].msgs),
         ~pool'[u].dirty, added' = added
  PROVE  Simulates
<1>1. OutboxInv' /\ InFlight' = InFlight
  BY QuietPoolStep
<1>2. /\ Queue' = [Queue EXCEPT ![u] = Ids(pool'[u].msgs) \ sent]
      /\ Queue[u] = Ids(pool[u].msgs) \ sent
      /\ Parked' = (Parked \ Queue[u]) \cup (DoneIds(pool'[u].msgs) \ sent)
      /\ Parked \cap Queue[u] = DoneIds(pool[u].msgs) \ sent
      /\ Unreachable' = (Unreachable \ {u}) \cup (IF pool'[u].dirty THEN {u} ELSE {})
  BY PoolChange DEF Sound, Control, OutboxInv
<1>3. Queue' = Queue
  BY <1>2 DEF Queue
<1>4. Parked' = Parked \ (Queue[u] \ DoneIds(pool'[u].msgs))
  BY <1>2
<1>5. Unreachable' = Unreachable \ {u} /\ sent' = sent
  BY <1>2 DEF ChangesOnly
<1>6. O!Retry(u)
  BY <1>1, <1>3, <1>4, <1>5 DEF O!Retry
<1> QED
  BY <1>1, <1>6 DEF Simulates, O!Next

-----------------------------------------------------------------------------
(***************************************************************************)
(* Steps on one pool.                                                      *)
(***************************************************************************)
\* A new message goes to the end of its queue.
LEMMA AddingAdds ==
  ASSUME Sound, Base', SipQuiet, NEW t \in Thread, pc[t] # "mark",
         NEW u \in User, NEW done \in BOOLEAN, AddMessageInternal(t, u, done), UNCHANGED sent
  PROVE  Simulates
<1> DEFINE new == [id |-> added + 1, done |-> done]
           msgs == Append(pool[u].msgs, new)
<1>0. Base /\ Control /\ Numbered /\ Filled /\ Aimed
  BY DEF Sound, Control, OutboxInv
<1>1. added + 1 \in MsgId /\ added' = added + 1 /\ added \in Nat
  BY <1>0, EngineConstantsOK DEF AddMessageInternal, Base, TypeOK, MsgId
<1>2. pool[u] \in Pool /\ pool[u].msgs \in Seq(Message) /\ new \in Message
      /\ Ids(pool[u].msgs) \subseteq 1 .. added /\ Rising(pool[u].msgs)
  BY <1>0, <1>1, PoolMessages DEF Message, Numbered
<1>3. /\ msgs \in Seq(Message) /\ Ids(msgs) = Ids(pool[u].msgs) \cup {added + 1} /\ Rising(msgs)
      /\ DoneIds(msgs) \subseteq DoneIds(pool[u].msgs) \cup {added + 1}
  <2>1. new.id = added + 1 /\ \A x \in Ids(pool[u].msgs) : x < added + 1
    BY <1>1, <1>2
  <2> HIDE DEF new
  <2> QED
    BY <1>2, <2>1, AppendIds
<1>4. pool' = [pool EXCEPT ![u] = MarkUserPoolAsClean([pool[u] EXCEPT !.msgs = msgs])]
      /\ users' = users \cup {u}
  BY DEF AddMessageInternal
<1> HIDE DEF msgs
<1>5. /\ pool'[u].msgs = msgs \/ pool'[u].msgs = MarkAll(msgs, FALSE)
      /\ ~pool'[u].dirty
      /\ \A w \in User \ {u} : pool'[w] = pool[w]
  BY <1>0, <1>2, <1>4 DEF MarkUserPoolAsClean, Base, TypeOK, Pool
<1>6. /\ Ids(pool'[u].msgs) = Ids(pool[u].msgs) \cup {added + 1} /\ Rising(pool'[u].msgs)
      /\ DoneIds(pool'[u].msgs) \subseteq DoneIds(pool[u].msgs) \cup {added + 1}
  <2>1. FALSE \in BOOLEAN
    OBVIOUS
  <2> QED
    BY <1>3, <1>5, <2>1, MarkAllIds
<1>7. pool'[u].msgs # <<>>
  BY <1>6, EmptyIds
<1>8. ChangesOnly(u)
  BY <1>1, <1>4, <1>5, <1>6, <1>7 DEF ChangesOnly
<1>9. pc["sip"] # "mark"
  BY <1>0, PoolLocked DEF AddMessageInternal
<1>10. OutboxInv' /\ InFlight' = InFlight
  BY <1>5, <1>8, <1>9, QuietPoolStep
<1>11. /\ Queue' = [Queue EXCEPT ![u] = Ids(pool'[u].msgs) \ sent]
       /\ Queue[u] = Ids(pool[u].msgs) \ sent
       /\ Parked' = (Parked \ Queue[u]) \cup (DoneIds(pool'[u].msgs) \ sent)
       /\ Parked \cap Queue[u] = DoneIds(pool[u].msgs) \ sent
       /\ Unreachable' = (Unreachable \ {u}) \cup (IF pool'[u].dirty THEN {u} ELSE {})
  BY <1>0, <1>8, PoolChange
<1>12. added + 1 \notin sent
  BY <1>0, <1>1 DEF Numbered
<1>13. Queue' = [Queue EXCEPT ![u] = Queue[u] \cup {added + 1}]
  BY <1>6, <1>11, <1>12
<1>14. \E S \in SUBSET Queue[u], P \in SUBSET {added + 1} : Parked' = (Parked \ S) \cup P
  <2> DEFINE S == Queue[u] \ DoneIds(pool'[u].msgs)
             P == {added + 1} \cap DoneIds(pool'[u].msgs)
  <2>1. Parked' = (Parked \ S) \cup P
    BY <1>6, <1>11, <1>12
  <2>2. S \in SUBSET Queue[u] /\ P \in SUBSET {added + 1}
    OBVIOUS
  <2> HIDE DEF S, P
  <2> QED
    BY <2>1, <2>2
<1>15. \A n \in 1 .. added : n < added + 1
  BY <1>1
<1>16. 1 .. added' = (1 .. added) \cup {added + 1}
  BY <1>1
<1>17. Unreachable' = Unreachable \ {u}
  BY <1>5, <1>11
<1>18. O!Add(u, added + 1)
  BY <1>10, <1>13, <1>14, <1>15, <1>16, <1>17 DEF O!Add
<1> QED
  BY <1>1, <1>10, <1>18 DEF Simulates, O!Next

\* A buddy that comes online gets another try.
LEMMA OnlineRetries ==
  ASSUME Sound, Base', NEW u \in User, BuddyOnline(u)
  PROVE  Simulates
<1>0. Base /\ Control /\ Numbered /\ Filled
  BY DEF Sound, Control, OutboxInv
<1>1. SipQuiet
  <2>1. Leave("sip", "start", {}) /\ "sip" \in Thread /\ pc["sip"] = "idle"
        /\ UNCHANGED <<slot, status>>
    BY DEF BuddyOnline, Thread, network
  <2> QED
    BY <1>0, <2>1, LeaveQuiet
<1>2. pool[u] \in Pool /\ pool[u].msgs \in Seq(Message) /\ Rising(pool[u].msgs)
      /\ pool[u].msgs # <<>> /\ u \in users
  BY <1>0, PoolMessages DEF Numbered, Filled, BuddyOnline
<1>3. pool' = [pool EXCEPT ![u] = MarkUserPoolAsClean(pool[u])]
      /\ UNCHANGED <<users, added, sent>> /\ pc["sip"] # "mark"
  BY DEF BuddyOnline, history
<1>4. /\ \/ pool'[u].msgs = pool[u].msgs
         \/ pool'[u].msgs = MarkAll(pool[u].msgs, FALSE)
      /\ ~pool'[u].dirty
      /\ \A w \in User \ {u} : pool'[w] = pool[w]
  BY <1>0, <1>3 DEF MarkUserPoolAsClean, Base, TypeOK
<1>5. /\ Ids(pool'[u].msgs) = Ids(pool[u].msgs) /\ Rising(pool'[u].msgs)
      /\ DoneIds(pool'[u].msgs) \subseteq DoneIds(pool[u].msgs)
  <2>1. FALSE \in BOOLEAN
    OBVIOUS
  <2> QED
    BY <1>2, <1>4, <2>1, MarkAllIds
<1>6. pool'[u].msgs # <<>>
  BY <1>2, <1>5, EmptyIds
<1>7. ChangesOnly(u)
  <2>1. added \in Nat
    BY <1>0 DEF Base, TypeOK
  <2> QED
    BY <1>2, <1>3, <1>4, <1>5, <1>6, <2>1 DEF ChangesOnly
<1> QED
  BY <1>1, <1>3, <1>4, <1>5, <1>7, UnparkingRetries

\* The application asks for one of a user's messages again.
LEMMA ResendingRetries ==
  ASSUME Sound, Base', NEW t \in App, NEW u \in User, NEW uid, ResendMessage(t, u, uid)
  PROVE  Simulates
<1>0. Base /\ Control /\ Numbered /\ Filled /\ t \in Thread
  BY DEF Sound, Control, OutboxInv, Thread
<1>1. SipQuiet /\ pc["sip"] # "mark"
  <2>1. Leave(t, "start", {}) /\ pc[t] = "idle" /\ UNCHANGED <<slot, status>> /\ Free(t, "pool")
    BY DEF ResendMessage, network
  <2> QED
    BY <1>0, <2>1, LeaveQuiet, PoolLocked
<1>2. pool[u] \in Pool /\ pool[u].msgs \in Seq(Message) /\ Rising(pool[u].msgs)
      /\ pool[u].msgs # <<>> /\ u \in users
  BY <1>0, PoolMessages DEF Numbered, Filled, ResendMessage
<1> DEFINE msgs == MarkMsg(pool[u].msgs, uid, FALSE)
<1>3. /\ msgs \in Seq(Message) /\ Ids(msgs) = Ids(pool[u].msgs) /\ Rising(msgs)
      /\ DoneIds(msgs) \subseteq DoneIds(pool[u].msgs)
  BY <1>2, UnmarkMsgIds
<1>4. /\ pool' = [w \in User |->
                    IF w = u THEN [msgs |-> msgs, weight |-> 0, dirty |-> FALSE]
                    ELSE IF w \in users THEN [pool[w] EXCEPT !.weight = Weight(@ + 1)]
                    ELSE pool[w]]
      /\ UNCHANGED <<users, added, sent>>
  BY DEF ResendMessage, history
<1> HIDE DEF msgs
<1>5. pool'[u].msgs = msgs /\ ~pool'[u].dirty
  BY <1>4
<1>6. \A w \in User \ {u} : pool'[w].msgs = pool[w].msgs /\ pool'[w].dirty = pool[w].dirty
  <2> TAKE w \in User \ {u}
  <2>1. pool[w] \in Pool
    BY <1>0, PoolMessages
  <2>2. pool'[w] = pool[w] \/ pool'[w] = [pool[w] EXCEPT !.weight = Weight(pool[w].weight + 1)]
    BY <1>4
  <2> QED
    BY <2>1, <2>2 DEF Pool
<1>7. msgs # <<>>
  BY <1>2, <1>3, EmptyIds
<1>8. ChangesOnly(u)
  <2>1. added \in Nat
    BY <1>0 DEF Base, TypeOK
  <2> QED
    BY <1>2, <1>3, <1>4, <1>5, <1>6, <1>7, <2>1 DEF ChangesOnly
<1> QED
  BY <1>1, <1>3, <1>4, <1>5, <1>8, UnparkingRetries

\* Marking all messages of a user who failed gives them up.
LEMMA MarkingGivesUp ==
  ASSUME Sound, Base', UNCHANGED <<users, added, sent, slot>>, InFlight' = InFlight,
         Unsettled' => Unsettled, Settling' = Settling, pc'["sip"] # "mark",
         NEW u \in users, pool[u].dirty,
         pool' = [pool EXCEPT ![u] = MarkUserPoolProcessed(pool[u])]
  PROVE  Simulates
<1>0. Base /\ Control /\ Numbered /\ Filled /\ u \in User
  BY DEF Sound, Control, OutboxInv, Base, TypeOK
<1>1. pool[u] \in Pool /\ pool[u].msgs \in Seq(Message) /\ Rising(pool[u].msgs)
      /\ pool[u].msgs # <<>>
  BY <1>0, PoolMessages DEF Numbered, Filled
<1>2. /\ pool'[u].msgs = MarkAll(pool[u].msgs, TRUE) /\ pool'[u].dirty = pool[u].dirty
      /\ \A w \in User \ {u} : pool'[w] = pool[w]
  BY <1>0 DEF MarkUserPoolProcessed, Base, TypeOK
<1>3. /\ Ids(pool'[u].msgs) = Ids(pool[u].msgs) /\ Rising(pool'[u].msgs)
      /\ DoneIds(pool'[u].msgs) = Ids(pool[u].msgs)
  <2>1. TRUE \in BOOLEAN
    OBVIOUS
  <2> QED
    BY <1>1, <1>2, <2>1, MarkAllIds
<1>4. pool'[u].msgs # <<>>
  BY <1>1, <1>3, EmptyIds
<1>5. ChangesOnly(u)
  <2>1. added \in Nat
    BY <1>0 DEF Base, TypeOK
  <2> QED
    BY <1>1, <1>2, <1>3, <1>4, <2>1 DEF ChangesOnly
<1>6. OutboxInv'
  BY <1>0, <1>2, <1>5, PoolStep
<1>7. /\ Queue' = [Queue EXCEPT ![u] = Ids(pool'[u].msgs) \ sent]
      /\ Queue[u] = Ids(pool[u].msgs) \ sent
      /\ Parked' = (Parked \ Queue[u]) \cup (DoneIds(pool'[u].msgs) \ sent)
      /\ Unreachable' = (Unreachable \ {u}) \cup (IF pool'[u].dirty THEN {u} ELSE {})
  BY <1>0, <1>5, PoolChange
<1>8. Queue' = Queue /\ Parked' = Parked \cup Queue[u]
  BY <1>3, <1>7 DEF Queue
<1>9. u \in Unreachable /\ Unreachable' = Unreachable
  BY <1>0, <1>2, <1>7 DEF Unreachable
<1>10. O!GiveUp(u)
  BY <1>8, <1>9 DEF O!GiveUp
<1> QED
  BY <1>0, <1>6, <1>10 DEF Simulates, O!Next

\* The loop gives up a user who failed.
LEMMA ScanningGivesUp ==
  ASSUME Sound, Base', NEW t \in Thread, ScanGivesUp(t)
  PROVE  Simulates
<1>0. Base /\ Control
  BY DEF Sound, Control
<1> DEFINE u == priority[Least(Stops)]
<1>1. MustGiveUp(u) /\ pool' = [pool EXCEPT ![u] = MarkUserPoolProcessed(pool[u])]
      /\ UNCHANGED <<users, added, sent, slot, status, pc>> /\ pc[t] = "scan"
  BY DEF ScanGivesUp, history, network, threads
<1> HIDE DEF u
<1>2. u \in users /\ pool[u].dirty
  BY <1>1 DEF MustGiveUp
<1>3. pc["sip"] # "mark"
  BY <1>0, <1>1 DEF Control, OneTask, Engaged, Sections, Working, Callbacks
<1>4. InFlight' = InFlight /\ Unsettled' = Unsettled /\ Settling' = Settling
      /\ pc'["sip"] # "mark"
  BY <1>1, <1>3, QuietFlight DEF SipQuiet
<1> QED
  BY <1>1, <1>2, <1>4, MarkingGivesUp

\* A removal forgets the queue of its user.
LEMMA ErasingForgets ==
  ASSUME Sound, Base', NEW t \in Thread, Erase(t)
  PROVE  Simulates
<1>0. Base /\ Control /\ Numbered /\ Filled
  BY DEF Sound, Control, OutboxInv
<1> DEFINE u == target[t]
<1>1. u \in User /\ pc[t] = "erase" /\ Free(t, "pool")
      /\ pool' = [pool EXCEPT ![u] = EmptyPool] /\ users' = users \ {u}
      /\ UNCHANGED <<added, sent, slot, status>> /\ Leave(t, "idle", {})
  BY <1>0 DEF Erase, Base, SlotInUse, network
<1> HIDE DEF u
<1>2. SipQuiet /\ pc["sip"] # "mark"
  BY <1>0, <1>1, LeaveQuiet, PoolLocked
<1>3. pool'[u].msgs = <<>> /\ ~pool'[u].dirty /\ \A w \in User \ {u} : pool'[w] = pool[w]
  BY <1>0, <1>1 DEF EmptyPool, Base, TypeOK
<1>4. Ids(<<>>) = {} /\ DoneIds(<<>>) = {} /\ Rising(<<>>)
  BY DEF Ids, DoneIds, Rising
<1>5. ChangesOnly(u)
  <2>1. added \in Nat
    BY <1>0 DEF Base, TypeOK
  <2> QED
    BY <1>1, <1>3, <1>4, <2>1 DEF ChangesOnly
<1>6. OutboxInv' /\ InFlight' = InFlight
  BY <1>1, <1>2, <1>3, <1>5, QuietPoolStep
<1>7. /\ Queue' = [Queue EXCEPT ![u] = Ids(pool'[u].msgs) \ sent]
      /\ Parked' = (Parked \ Queue[u]) \cup (DoneIds(pool'[u].msgs) \ sent)
      /\ Unreachable' = (Unreachable \ {u}) \cup (IF pool'[u].dirty THEN {u} ELSE {})
  BY <1>0, <1>1, <1>5, PoolChange
<1>8. /\ Queue' = [Queue EXCEPT ![u] = {}] /\ Parked' = Parked \ Queue[u]
      /\ Unreachable' = Unreachable \ {u}
  BY <1>3, <1>4, <1>7
<1>9. O!Forget(u)
  BY <1>1, <1>6, <1>8 DEF O!Forget
<1> QED
  BY <1>1, <1>6, <1>9 DEF Simulates, O!Next

-----------------------------------------------------------------------------
(***************************************************************************)
(* Steps of the slot's message: taken, transferred, settled, forgotten.    *)
(***************************************************************************)
\* Whoever is taken by sendMessage is the first of his user's messages that
\* is not parked.
LEMMA FirstEligible ==
  ASSUME Base, Numbered, Filled, NEW u \in users, Eligible(pool[u].msgs) # {},
         sent \cap Ids(pool[u].msgs) = {}, NEW i, i = Least(Eligible(pool[u].msgs))
  PROVE  /\ pool[u].msgs[i].id \in Ids(pool[u].msgs)
         /\ \A n \in Queue[u] : n < pool[u].msgs[i].id => n \in Parked
<1> DEFINE msgs == pool[u].msgs
<1>0. u \in User /\ msgs \in Seq(Message) /\ Rising(msgs)
  BY PoolMessages DEF Base, TypeOK, Numbered
<1>1. Queue[u] = Ids(msgs)
      /\ \A n \in DoneIds(msgs) : n \notin sent => n \in Parked
  BY <1>0, PoolsSeen
<1>2. i \in Eligible(msgs) /\ \A j \in Eligible(msgs) : i <= j
  <2>1. Eligible(msgs) \in SUBSET Nat
    BY <1>0 DEF Eligible
  <2> QED
    BY <2>1, LeastIsLeast
<1> HIDE DEF msgs
<1>3. DOMAIN msgs = 1 .. Len(msgs) /\ i \in DOMAIN msgs
      /\ \A j \in DOMAIN msgs : msgs[j].id \in Nat
  <2>1. \A j \in DOMAIN msgs : msgs[j] \in Message
    BY <1>0
  <2> QED
    BY <1>0, <1>2, <2>1 DEF Eligible, Message, MsgId
<1>4. ASSUME NEW n \in Ids(msgs), n < msgs[i].id PROVE n \in Parked
  <2>1. PICK j \in DOMAIN msgs : n = msgs[j].id
    BY DEF Ids
  <2>2. j < i
    BY <1>0, <1>3, <1>4, <2>1 DEF Rising
  <2>3. j \notin Eligible(msgs)
    BY <1>2, <1>3, <2>2
  <2>4. msgs[j].done
    <3>1. ~autoResend
      BY <1>2, <1>3, <2>1, <2>2 DEF Eligible
    <3> QED
      BY <2>1, <2>3, <3>1 DEF Eligible
  <2>5. n \in DoneIds(msgs)
    BY <2>1, <2>4 DEF DoneIds
  <2> QED
    BY <1>1, <1>4, <2>5 DEF msgs
<1>5. msgs[i].id \in Ids(msgs)
  BY <1>3 DEF Ids
<1> QED
  BY <1>1, <1>4, <1>5 DEF msgs

\* sendMessage takes a message of a user who did not fail.
LEMMA ScanningTakes ==
  ASSUME Sound, Base', NEW t \in Thread, ScanSends(t)
  PROVE  Simulates
<1>0. Base /\ Control /\ Numbered /\ Filled /\ Aimed
  BY DEF Sound, Control, OutboxInv
<1> DEFINE u == priority[Least(Stops)]
           i == Least(Eligible(pool[u].msgs))
           m == pool[u].msgs[i].id
<1>1. /\ CanSend(u) /\ pc[t] = "scan" /\ Leave(t, "idle", {})
      /\ slot' = [user |-> u, id |-> m, live |-> TRUE, counter |-> Retries]
      /\ UNCHANGED <<users, pool, added, sent, status>>
  BY DEF ScanSends, engine
<1> HIDE DEF u
<1>2. u \in users /\ u \in User /\ ~pool[u].dirty /\ Eligible(pool[u].msgs) # {}
  BY <1>0, <1>1 DEF CanSend, Base, TypeOK
<1>3. ~Working /\ ~slot.live
  BY <1>0, <1>1 DEF Control, OneTask, Engaged, Sections
<1>4. pc["sip"] \notin Callbacks /\ pc'["sip"] \notin Callbacks
  <2>1. pc'["sip"] = IF t = "sip" THEN "idle" ELSE pc["sip"]
    BY <1>0, <1>1, LeaveIs DEF Thread
  <2> QED
    BY <1>3, <2>1 DEF Working, Callbacks
<1>5. \A w \in User : sent \cap Ids(pool[w].msgs) = {}
  BY <1>0, <1>4 DEF Aimed, Settling, Callbacks
<1>6. m \in Ids(pool[u].msgs) /\ \A n \in Queue[u] : n < m => n \in Parked
  BY <1>0, <1>2, <1>5, FirstEligible
<1> HIDE DEF m
<1>7. m \in Queue[u]
  BY <1>0, <1>2, <1>5, <1>6, PoolsSeen
<1>8. Numbered' /\ Filled' /\ UNCHANGED <<Queue, Parked, Unreachable>>
  BY <1>0, <1>1, PoolsStay
<1>9. Aimed'
  <2>1. slot'.user = u /\ slot'.id = m
    BY <1>1
  <2>2. m \in 1 .. added /\ \A w \in User : m \in Ids(pool[w].msgs) => w = u
    BY <1>0, <1>2, <1>6 DEF Numbered
  <2> QED
    BY <1>1, <1>2, <1>4, <1>5, <2>1, <2>2 DEF Aimed, Settling, Callbacks
<1>10. InFlight = {} /\ InFlight' = {[user |-> u, id |-> m]}
  BY <1>1, <1>3, <1>4 DEF InFlight, Callbacks
<1>11. O!Take(u)
  <2>1. u \notin Unreachable
    BY <1>2 DEF Unreachable
  <2> QED
    BY <1>1, <1>6, <1>7, <1>8, <1>10, <2>1 DEF O!Take
<1> QED
  BY <1>2, <1>8, <1>9, <1>11 DEF Simulates, OutboxInv, O!Next

\* A status of the SIP stack leaves the message where it is.
LEMMA ReportingStutters ==
  ASSUME Sound, Report
  PROVE  Simulates
<1>0. Base
  BY DEF Sound, Control
<1>1. UNCHANGED <<users, pool, added, sent>> /\ pc["sip"] = "idle"
  BY DEF Report, OnSendMsgDone, engine, history
<1>2. /\ slot'.user = slot.user /\ slot'.id = slot.id
      /\ \/ UNCHANGED <<pc, status>> /\ slot'.live = slot.live
         \/ slot.live /\ ~slot'.live /\ \E locks : Leave("sip", "notify", locks)
  BY <1>0 DEF Report, OnSendMsgDone, threads, Base, TypeOK
<1>3. \/ UNCHANGED <<pc, status>> /\ slot'.live = slot.live
      \/ slot.live /\ ~slot'.live /\ pc'["sip"] = "notify"
  BY <1>0, <1>2, LeaveIs DEF Thread
<1>4. Unsettled' = Unsettled /\ Settling' = Settling /\ pc'["sip"] # "mark"
  BY <1>1, <1>3, Zenon DEF Unsettled, Settling
<1>5. InFlight' = InFlight
  BY <1>1, <1>2, <1>3 DEF InFlight
<1>6. OutboxInv' /\ UNCHANGED <<Queue, Parked, Unreachable>>
  BY <1>1, <1>2, <1>4, SlotStep
<1> QED
  BY <1>1, <1>5, <1>6 DEF Simulates, O!outbox

\* A success takes the message out of its queue, a failure tells nobody yet.
LEMMA NotifyingDelivers ==
  ASSUME Sound, Base', Notify
  PROVE  Simulates
<1>0. Base /\ Control /\ Numbered /\ Filled /\ Aimed
  BY DEF Sound, Control, OutboxInv
<1>1. /\ pc["sip"] = "notify" /\ pc'["sip"] = "settle"
      /\ sent' = (IF status THEN sent \cup {slot.id} ELSE sent)
      /\ UNCHANGED <<users, pool, added, slot, status>>
  <2>1. Leave("sip", "settle", held["sip"]) /\ "sip" \in Thread
    BY DEF Notify, Thread
  <2> QED
    BY <1>0, <2>1, LeaveIs DEF Notify, engine, network
<1>2. ~slot.live
  BY <1>0, <1>1 DEF Control, OneTask, Working, Callbacks
<1>3. slot.user \in User /\ slot.id \in 1 .. added /\ ~pool[slot.user].dirty
      /\ \A u \in User : slot.id \in Ids(pool[u].msgs) => u = slot.user
  BY <1>0, <1>1 DEF Base, SlotInUse, Aimed, Unsettled
<1>4. \A u \in User : sent \cap Ids(pool[u].msgs) = {}
  BY <1>0, <1>1 DEF Aimed, Settling
<1>5. Numbered' /\ Filled'
  BY <1>0, <1>1, <1>3 DEF Numbered, Filled
<1>6. Aimed'
  BY <1>1, <1>3, <1>4 DEF Aimed, Settling
<1>7. CASE ~status
  <2>1. UNCHANGED <<Queue, Parked, Unreachable>>
    BY <1>0, <1>1, <1>7, PoolsStay
  <2>2. InFlight' = InFlight
    BY <1>1, <1>7 DEF InFlight
  <2> QED
    BY <1>1, <1>5, <1>6, <1>7, <2>1, <2>2 DEF Simulates, OutboxInv, O!outbox
<1>8. CASE status
  <2>1. /\ \A w \in User : Queue[w] = Ids(pool[w].msgs) \ sent
        /\ \A m : m \in Parked <=> m \notin sent /\ \E w \in User : m \in DoneIds(pool[w].msgs)
    BY <1>0, PoolsSeen
  <2>2. /\ \A w \in User : Queue'[w] = Ids(pool[w].msgs) \ sent'
        /\ \A m : m \in Parked' <=>
                    m \notin sent' /\ \E w \in User : m \in DoneIds(pool[w].msgs)
    BY <1>1, <1>5, PoolsSeenNext
  <2>3. Parked' = Parked \ {slot.id}
    BY <1>1, <1>8, <2>1, <2>2
  <2>4. Queue' = [Queue EXCEPT ![slot.user] = @ \ {slot.id}]
    <3>1. /\ Queue = [w \in User |-> Queue[w]] /\ DOMAIN Queue = User
          /\ Queue' = [w \in User |-> Queue'[w]] /\ DOMAIN Queue' = User
      BY DEF Queue
    <3>2. \A w \in User \ {slot.user} : Queue'[w] = Queue[w]
      <4> TAKE w \in User \ {slot.user}
      <4>1. slot.id \notin Ids(pool[w].msgs) /\ sent' = sent \cup {slot.id}
        BY <1>1, <1>3, <1>8
      <4>2. Queue[w] = Ids(pool[w].msgs) \ sent /\ Queue'[w] = Ids(pool[w].msgs) \ sent'
        BY <2>1, <2>2
      <4> QED
        BY <4>1, <4>2
    <3>3. Queue'[slot.user] = Queue[slot.user] \ {slot.id}
      BY <1>1, <1>3, <1>8, <2>1, <2>2
    <3> DEFINE u == slot.user
               rest == Queue[u] \ {slot.id}
    <3> HIDE DEF rest
    <3>4. u \in User /\ Queue'[u] = rest /\ \A w \in User \ {u} : Queue'[w] = Queue[w]
      BY <1>3, <3>2, <3>3 DEF rest
    <3> HIDE DEF u
    <3>5. Queue' = [Queue EXCEPT ![u] = rest]
      BY <3>1, <3>4
    <3> QED
      BY <3>5 DEF u, rest
  <2>5. Unreachable' = Unreachable
    BY <1>1 DEF Unreachable
  <2>6. InFlight = {[user |-> slot.user, id |-> slot.id]} /\ InFlight' = {}
    BY <1>1, <1>2, <1>8 DEF InFlight
  <2>7. O!Deliver
    BY <1>1, <1>8, <2>3, <2>4, <2>5, <2>6 DEF O!Deliver
  <2> QED
    BY <1>5, <1>6, <2>7 DEF Simulates, OutboxInv, O!Next
<1> QED
  BY <1>0, <1>7, <1>8 DEF Base, TypeOK

\* The application forgets a message that may be in flight.
LEMMA RemovingAbandons ==
  ASSUME Sound, Base', NEW t \in App, NEW u \in User, RemoveMessages(t, u)
  PROVE  Simulates
<1>0. Base /\ Control /\ t \in Thread
  BY DEF Sound, Control, Thread
<1>1. /\ pc[t] = "idle" /\ Leave(t, "erase", {}) /\ Free(t, "msg")
      /\ slot' = IF slot.user = u THEN [slot EXCEPT !.live = FALSE] ELSE slot
      /\ UNCHANGED <<users, pool, added, sent, status>>
  BY DEF RemoveMessages, engine, history
<1>2. pc'["sip"] = pc["sip"] /\ t # "sip"
  <2>1. t # "sip"
    BY NamesDiffer
  <2> QED
    BY <1>0, <1>1, <2>1, LeaveIs DEF Thread
<1>3. CASE slot.user # u
  BY <1>1, <1>2, <1>3, QuietStep DEF SipQuiet
<1>4. CASE slot.user = u
  <2>1. pc["sip"] \notin Callbacks
    <3>1. "msg" \notin held["sip"]
      BY <1>1, <1>2 DEF Free, Thread
    <3> QED
      BY <1>0, <3>1, FitsHeld DEF Control, Fits, Thread
  <2>2. slot'.user = slot.user /\ slot'.id = slot.id /\ slot'.live = FALSE
    BY <1>0, <1>1, <1>4 DEF Base, TypeOK
  <2>3. (Unsettled' => Unsettled) /\ Settling' = Settling /\ pc'["sip"] # "mark"
    BY <1>1, <1>2, <2>1, <2>2 DEF Unsettled, Settling, Callbacks
  <2>4. OutboxInv' /\ UNCHANGED <<Queue, Parked, Unreachable>>
    BY <1>1, <2>2, <2>3, SlotStep
  <2>5. InFlight' = {}
    BY <1>2, <2>1, <2>2 DEF InFlight, Callbacks
  <2>6. O!Abandon
    BY <1>1, <2>4, <2>5 DEF O!Abandon
  <2> QED
    BY <2>4, <2>6 DEF Simulates, O!Next
<1> QED
  BY <1>3, <1>4

\* What the worker's callback relies on: the slot is still, and what it settles.
LEMMA CallbackFacts ==
  ASSUME Sound, pc["sip"] \in {"settle", "mark"}
  PROVE  /\ ~slot.live /\ slot.user \in User /\ slot.id \in MsgId
         /\ pc["sip"] = "settle" => /\ slot.id \in 1 .. added /\ ~pool[slot.user].dirty
                                    /\ status => slot.id \in sent
         /\ \A u \in User : \A m \in sent \cap Ids(pool[u].msgs) :
              Settling /\ m = slot.id /\ u = slot.user
<1>0. Base /\ Control /\ Aimed
  BY DEF Sound, Control, OutboxInv
<1>1. ~slot.live
  BY <1>0 DEF Control, OneTask, Working, Callbacks
<1>2. slot.user \in User /\ slot.id \in MsgId
  BY <1>0 DEF Base, SlotInUse
<1>3. pc["sip"] = "settle" => /\ slot.id \in 1 .. added /\ ~pool[slot.user].dirty
                              /\ \A u \in User : slot.id \in Ids(pool[u].msgs) => u = slot.user
                              /\ status => slot.id \in sent
  BY <1>0 DEF Aimed, Unsettled, Settling
<1>4. \A u \in User : \A m \in sent \cap Ids(pool[u].msgs) : Settling /\ m = slot.id
  BY <1>0 DEF Aimed
<1> QED
  BY <1>1, <1>2, <1>3, <1>4 DEF Settling

\* A success: the message leaves its pool after it has left its queue.
LEMMA SettlingSuccess ==
  ASSUME DistinctUids, Sound, Base', SettleSent
  PROVE  Simulates
<1>0. Base /\ Control /\ Numbered /\ Filled
  BY DEF Sound, Control, OutboxInv
<1> DEFINE u == slot.user
           m == slot.id
           marked == MarkMsg(pool[u].msgs, Uid[m], TRUE)
           rest == RmMessage(marked, Uid[m])
<1>1. /\ pc["sip"] = "settle" /\ status /\ pc'["sip"] = "restart"
      /\ UNCHANGED <<added, sent, slot, status>>
  <2>1. Leave("sip", "restart", held["sip"]) /\ "sip" \in Thread
    BY DEF SettleSent, Thread
  <2> QED
    BY <1>0, <2>1, LeaveIs DEF SettleSent, network, history
<1>2. /\ ~slot.live /\ u \in User /\ m \in MsgId /\ m \in sent /\ ~pool[u].dirty
      /\ \A w \in User : \A n \in sent \cap Ids(pool[w].msgs) : n = m /\ w = u
  BY <1>1, CallbackFacts
<1>3. pool[u] \in Pool /\ pool[u].msgs \in Seq(Message) /\ Rising(pool[u].msgs)
  BY <1>0, <1>2, PoolMessages DEF Numbered
<1>4. /\ marked \in Seq(Message) /\ Ids(marked) = Ids(pool[u].msgs) /\ Rising(marked)
      /\ DoneIds(marked) = DoneIds(pool[u].msgs) \cup ({m} \cap Ids(pool[u].msgs))
  BY <1>2, <1>3, MarkMsgIds
<1>5. /\ rest \in Seq(Message) /\ Ids(rest) = Ids(pool[u].msgs) \ {m} /\ Rising(rest)
      /\ DoneIds(rest) = DoneIds(pool[u].msgs) \ {m}
  <2> HIDE DEF marked
  <2>1. /\ RmMessage(marked, Uid[m]) \in Seq(Message)
        /\ Ids(RmMessage(marked, Uid[m])) = Ids(marked) \ {m}
        /\ Rising(RmMessage(marked, Uid[m]))
        /\ DoneIds(RmMessage(marked, Uid[m])) = DoneIds(marked) \ {m}
    BY <1>2, <1>4, RmMessageIds
  <2> QED
    BY <1>4, <2>1
<1>6. IF u \notin users THEN UNCHANGED engine
      ELSE IF rest = <<>> THEN users' = users \ {u} /\ pool' = [pool EXCEPT ![u] = EmptyPool]
      ELSE /\ pool' = [pool EXCEPT ![u] = [pool[u] EXCEPT !.msgs = rest,
                                                          !.weight = Weight(pool[u].weight + 1)]]
           /\ UNCHANGED users
  BY <1>0, <1>2, <1>3 DEF SettleSent, Base, TypeOK
<1> HIDE DEF rest, marked, u, m
<1>7. InFlight = {} /\ InFlight' = {} /\ ~Unsettled' /\ ~Settling' /\ pc'["sip"] # "mark"
  BY <1>1, <1>2 DEF InFlight, Unsettled, Settling
<1>8. CASE u \notin users
  <2>1. UNCHANGED <<users, pool>>
    BY <1>6, <1>8 DEF engine
  <2>2. Numbered' /\ Filled' /\ UNCHANGED <<Queue, Parked, Unreachable>>
    BY <1>0, <1>1, <2>1, PoolsStay
  <2>3. pool[u].msgs = <<>>
    BY <1>0, <1>2, <1>8 DEF Filled
  <2>4. \A w \in User : sent \cap Ids(pool[w].msgs) = {}
    BY <1>2, <2>3, EmptyIds
  <2>5. Aimed'
    BY <1>1, <1>7, <2>1, <2>4 DEF Aimed
  <2> QED
    BY <1>1, <1>7, <2>2, <2>5 DEF Simulates, OutboxInv, O!outbox
<1>9. CASE u \in users
  <2>1. /\ pool'[u].msgs = rest /\ ~pool'[u].dirty
        /\ u \in users' <=> rest # <<>>
        /\ \A w \in User \ {u} : pool'[w] = pool[w] /\ (w \in users' <=> w \in users)
    <3>1. CASE rest = <<>>
      BY <1>0, <1>2, <1>6, <1>9, <3>1 DEF EmptyPool, Base, TypeOK
    <3>2. CASE rest # <<>>
      <4> DEFINE new == [pool[u] EXCEPT !.msgs = rest, !.weight = Weight(pool[u].weight + 1)]
      <4>1. new.msgs = rest /\ new.dirty = pool[u].dirty
        BY <1>3 DEF Pool
      <4>2. pool' = [pool EXCEPT ![u] = new] /\ users' = users
        BY <1>6, <1>9, <3>2
      <4> HIDE DEF new
      <4> QED
        BY <1>0, <1>2, <1>9, <3>2, <4>1, <4>2 DEF Base, TypeOK
    <3> QED
      BY <3>1, <3>2
  <2>2. ChangesOnly(u)
    <3>1. added \in Nat
      BY <1>0 DEF Base, TypeOK
    <3> QED
      BY <1>1, <1>5, <2>1, <3>1 DEF ChangesOnly
  <2>3. Numbered' /\ Filled'
    BY <1>0, <1>2, <2>2, PoolStaysNumbered
  <2>4. /\ Queue' = [Queue EXCEPT ![u] = Ids(pool'[u].msgs) \ sent]
        /\ Queue[u] = Ids(pool[u].msgs) \ sent
        /\ Parked' = (Parked \ Queue[u]) \cup (DoneIds(pool'[u].msgs) \ sent)
        /\ Parked \cap Queue[u] = DoneIds(pool[u].msgs) \ sent
        /\ Unreachable' = (Unreachable \ {u}) \cup (IF pool'[u].dirty THEN {u} ELSE {})
    BY <1>0, <1>2, <2>2, PoolChange
  <2>5. Queue' = Queue
    <3>1. Ids(pool'[u].msgs) \ sent = Queue[u]
      BY <1>2, <1>5, <2>1, <2>4
    <3> QED
      BY <2>4, <3>1 DEF Queue
  <2>6. Parked' = Parked
    BY <1>2, <1>5, <2>1, <2>4
  <2>7. Unreachable' = Unreachable
    BY <1>2, <2>1, <2>4 DEF Unreachable
  <2>8. \A w \in User : sent \cap Ids(pool'[w].msgs) = {}
    BY <1>2, <1>5, <2>1
  <2>9. Aimed'
    BY <1>1, <1>7, <2>8 DEF Aimed
  <2> QED
    BY <1>1, <1>7, <2>3, <2>5, <2>6, <2>7, <2>9 DEF Simulates, OutboxInv, O!outbox
<1> QED
  BY <1>8, <1>9

\* A failure: the message is parked and its user unreachable.
LEMMA SettlingFailure ==
  ASSUME DistinctUids, Sound, Base', SettleFailed
  PROVE  Simulates
<1>0. Base /\ Control /\ Numbered /\ Filled
  BY DEF Sound, Control, OutboxInv
<1> DEFINE u == slot.user
           m == slot.id
           marked == MarkMsg(pool[u].msgs, Uid[m], TRUE)
<1>1. /\ pc["sip"] = "settle" /\ ~status
      /\ pc'["sip"] = IF u \in users THEN "mark" ELSE "restart"
      /\ UNCHANGED <<users, added, sent, slot, status>>
  <2>1. /\ u \in users => Leave("sip", "mark", held["sip"] \cup {"pool"})
        /\ u \notin users => Leave("sip", "restart", held["sip"])
        /\ "sip" \in Thread
    BY DEF SettleFailed, Thread
  <2> QED
    BY <1>0, <2>1, LeaveIs DEF SettleFailed, network, history
<1>2. /\ ~slot.live /\ u \in User /\ m \in MsgId
      /\ \A w \in User : sent \cap Ids(pool[w].msgs) = {}
  BY <1>1, CallbackFacts DEF Settling
<1>3. pool[u] \in Pool /\ pool[u].msgs \in Seq(Message) /\ Rising(pool[u].msgs)
  BY <1>0, <1>2, PoolMessages DEF Numbered
<1>4. /\ marked \in Seq(Message) /\ Ids(marked) = Ids(pool[u].msgs) /\ Rising(marked)
      /\ DoneIds(marked) = DoneIds(pool[u].msgs) \cup ({m} \cap Ids(pool[u].msgs))
  BY <1>2, <1>3, MarkMsgIds
<1>5. IF u \in users
      THEN pool' = [pool EXCEPT ![u] = [pool[u] EXCEPT !.msgs = marked, !.dirty = TRUE]]
      ELSE UNCHANGED pool
  BY <1>0, <1>2, <1>3 DEF SettleFailed, Base, TypeOK
<1>6. InFlight = {[user |-> u, id |-> m]} /\ InFlight' = {} /\ ~Unsettled' /\ ~Settling'
  BY <1>1, <1>2 DEF InFlight, Unsettled, Settling
<1> HIDE DEF marked
<1>7. CASE u \notin users
  <2>1. Numbered' /\ Filled' /\ UNCHANGED <<Queue, Parked, Unreachable>>
    BY <1>0, <1>1, <1>5, <1>7, PoolsStay
  <2>2. Aimed'
    BY <1>1, <1>2, <1>5, <1>6, <1>7 DEF Aimed
  <2>3. Queue[u] = {}
    <3>1. Ids(pool[u].msgs) = {}
      BY <1>0, <1>2, <1>7, EmptyIds DEF Filled
    <3> QED
      BY <1>0, <1>2, <3>1, PoolsSeen
  <2>4. O!Fail
    BY <1>1, <1>6, <2>1, <2>3 DEF O!Fail
  <2> QED
    BY <2>1, <2>2, <2>4 DEF Simulates, OutboxInv, O!Next
<1>8. CASE u \in users
  <2>1. /\ pool'[u].msgs = marked /\ pool'[u].dirty = TRUE
        /\ \A w \in User \ {u} : pool'[w] = pool[w]
    <3> DEFINE new == [pool[u] EXCEPT !.msgs = marked, !.dirty = TRUE]
    <3>1. new.msgs = marked /\ new.dirty = TRUE
      BY <1>3 DEF Pool
    <3>2. pool' = [pool EXCEPT ![u] = new]
      BY <1>5, <1>8
    <3> HIDE DEF new
    <3> QED
      BY <1>0, <1>2, <3>1, <3>2 DEF Base, TypeOK
  <2>2. Ids(pool[u].msgs) # {} /\ marked # <<>>
    BY <1>0, <1>2, <1>3, <1>4, <1>8, EmptyIds DEF Filled
  <2>3. ChangesOnly(u)
    <3>1. added \in Nat
      BY <1>0 DEF Base, TypeOK
    <3> QED
      BY <1>1, <1>4, <1>8, <2>1, <2>2, <3>1 DEF ChangesOnly
  <2>4. Numbered' /\ Filled'
    BY <1>0, <1>2, <2>3, PoolStaysNumbered
  <2>5. /\ Queue' = [Queue EXCEPT ![u] = Ids(pool'[u].msgs) \ sent]
        /\ Queue[u] = Ids(pool[u].msgs) \ sent
        /\ Parked' = (Parked \ Queue[u]) \cup (DoneIds(pool'[u].msgs) \ sent)
        /\ Parked \cap Queue[u] = DoneIds(pool[u].msgs) \ sent
        /\ Unreachable' = (Unreachable \ {u}) \cup (IF pool'[u].dirty THEN {u} ELSE {})
    BY <1>0, <1>2, <2>3, PoolChange
  <2>6. Queue' = Queue
    <3>1. Ids(pool'[u].msgs) \ sent = Queue[u]
      BY <1>4, <2>1, <2>5
    <3> QED
      BY <2>5, <3>1 DEF Queue
  <2>7. Parked' = Parked \cup ({m} \cap Queue[u])
    BY <1>4, <2>1, <2>5
  <2>8. Queue[u] # {} /\ Unreachable' = Unreachable \cup {u}
    BY <1>2, <2>1, <2>2, <2>5
  <2>9. \A w \in User : sent \cap Ids(pool'[w].msgs) = {}
    BY <1>2, <1>4, <2>1
  <2>10. Aimed'
    BY <1>1, <1>6, <1>8, <2>1, <2>9 DEF Aimed
  <2>11. O!Fail
    BY <1>1, <1>6, <2>6, <2>7, <2>8 DEF O!Fail
  <2> QED
    BY <2>4, <2>10, <2>11 DEF Simulates, OutboxInv, O!Next
<1> QED
  BY <1>7, <1>8

\* The rest of a failed user's messages is given up, unless it was before.
LEMMA MarkingFailure ==
  ASSUME Sound, Base', MarkFailed
  PROVE  Simulates
<1>0. Base /\ Control /\ Aimed
  BY DEF Sound, Control, OutboxInv
<1> DEFINE u == slot.user
<1>1. /\ pc["sip"] = "mark" /\ pc'["sip"] = "restart"
      /\ UNCHANGED <<users, added, sent, slot, status>>
      /\ pool' = pool \/ pool' = [pool EXCEPT ![u] = MarkUserPoolProcessed(pool[u])]
  <2>1. Leave("sip", "restart", held["sip"] \ {"pool"}) /\ "sip" \in Thread
    BY DEF MarkFailed, Thread
  <2> QED
    BY <1>0, <2>1, LeaveIs DEF MarkFailed, network, history
<1>2. ~slot.live /\ u \in users /\ pool[u].dirty
  BY <1>0, <1>1, CallbackFacts DEF Aimed
<1>3. InFlight' = InFlight /\ (Unsettled' => Unsettled) /\ Settling' = Settling
      /\ pc'["sip"] # "mark"
  BY <1>1, <1>2 DEF InFlight, Unsettled, Settling
<1>4. CASE pool' = pool
  <2>1. OutboxInv' /\ UNCHANGED <<Queue, Parked, Unreachable>>
    BY <1>1, <1>3, <1>4, SlotStep
  <2> QED
    BY <1>1, <1>3, <2>1 DEF Simulates, O!outbox
<1>5. CASE pool' = [pool EXCEPT ![u] = MarkUserPoolProcessed(pool[u])]
  <2> HIDE DEF u
  <2> QED
    BY <1>1, <1>2, <1>3, <1>5, MarkingGivesUp
<1> QED
  BY <1>1, <1>4, <1>5

-----------------------------------------------------------------------------
(***************************************************************************)
(* The theorem.                                                            *)
(***************************************************************************)
\* Nobody has a message yet.
LEMMA OutboxInit == Init => OutboxInv /\ O!Init
<1> SUFFICES ASSUME Init PROVE OutboxInv /\ O!Init
  OBVIOUS
<1>1. /\ \A u \in User : pool[u].msgs = <<>> /\ ~pool[u].dirty
      /\ users = {} /\ added = 0 /\ sent = {} /\ slot.live = FALSE /\ pc["sip"] = "idle"
  BY DEF Init, EmptyPool, Thread
<1>2. Numbered /\ Filled /\ Aimed
  BY <1>1, EmptyIds DEF Numbered, Filled, Aimed, Unsettled, Settling
<1>3. O!Init
  <2>1. Queue = [u \in User |-> {}]
    <3>1. \A u \in User : {pool[u].msgs[i].id : i \in DOMAIN pool[u].msgs} \ sent = {}
      BY <1>1
    <3> QED
      BY <3>1 DEF Queue
  <2>2. Parked = {} /\ Unreachable = {} /\ InFlight = {} /\ 1 .. added = {}
    BY <1>1 DEF Parked, Unreachable, InFlight
  <2> QED
    BY <1>1, <2>1, <2>2 DEF O!Init
<1> QED
  BY <1>2, <1>3 DEF OutboxInv

\* What a thread does inside a method.
LEMMA RunSimulates ==
  ASSUME Sound, Base', NEW t \in Thread, Run(t)
  PROVE  Simulates
<1>0. Base /\ Control
  BY DEF Sound, Control
<1>1. CASE StartEngine(t) \/ SortMessages(t) \/ ScanEnds(t) \/ Stop(t)
  <2>1. UNCHANGED <<users, pool, added, sent, slot, status>>
        /\ pc[t] \notin {"notify", "settle", "mark"}
        /\ \E locks : \E l \in {"idle", "send", "scan", "stop"} : Leave(t, l, locks)
    BY <1>1 DEF StartEngine, SortMessages, ScanEnds, Stop, engine, history, network
  <2>2. SipQuiet
    BY <1>0, <2>1, LeaveQuiet
  <2> QED
    BY <2>1, <2>2, QuietStep
<1>2. ASSUME NEW u \in User, NEW done \in BOOLEAN, SyncAdd(t, u, done) PROVE Simulates
  <2>1. AddMessageInternal(t, u, done) /\ pc[t] = "sync" /\ UNCHANGED <<slot, status, sent>>
        /\ (UNCHANGED pc \/ Leave(t, "idle", {}))
    BY <1>2 DEF SyncAdd, network
  <2>2. SipQuiet
    <3>1. CASE UNCHANGED pc
      BY <2>1, <3>1 DEF SipQuiet
    <3>2. CASE Leave(t, "idle", {})
      BY <1>0, <2>1, <3>2, LeaveQuiet
    <3> QED
      BY <2>1, <3>1, <3>2
  <2> QED
    BY <2>1, <2>2, AddingAdds
<1> QED
  BY <1>1, <1>2, ScanningGivesUp, ScanningTakes, ErasingForgets DEF Run

\* What the application calls, and the handler of a message that arrived.
LEMMA CallSimulates ==
  ASSUME Sound, Base', NEW t \in Thread,
         \/ t \in App /\ Call(t)
         \/ \E u \in User : AddMessage(t, u)
  PROVE  Simulates
<1>0. Base /\ Control
  BY DEF Sound, Control
<1>1. ASSUME NEW u \in User, AddMessage(t, u) PROVE Simulates
  <2>1. AddMessageInternal(t, u, FALSE) /\ pc[t] = "idle" /\ UNCHANGED <<slot, status, sent>>
        /\ Leave(t, "start", {})
    BY <1>1 DEF AddMessage, network
  <2>2. SipQuiet
    BY <1>0, <2>1, LeaveQuiet
  <2>3. \E done \in BOOLEAN : AddMessageInternal(t, u, done)
    BY <2>1
  <2> QED
    BY <2>1, <2>2, <2>3, AddingAdds
<1>2. ASSUME \/ SyncBegin(t)
             \/ \E enabled \in BOOLEAN : SetAutoResendEnabled(t, enabled)
      PROVE  Simulates
  <2>1. UNCHANGED <<users, pool, added, sent, slot, status>> /\ pc[t] = "idle"
        /\ \E locks : \E l \in {"sync", "start", "idle"} : Leave(t, l, locks)
    BY <1>2 DEF SyncBegin, SetAutoResendEnabled, engine, history, network
  <2>2. SipQuiet
    BY <1>0, <2>1, LeaveQuiet
  <2> QED
    BY <2>1, <2>2, QuietStep
<1>3. ASSUME t \in App, NEW u \in User, NEW m \in MsgId, ResendMessage(t, u, Uid[m])
      PROVE  Simulates
  <2> DEFINE uid == Uid[m]
  <2>1. ResendMessage(t, u, uid)
    BY <1>3
  <2> HIDE DEF uid
  <2> QED
    BY <1>3, <2>1, ResendingRetries
<1> QED
  BY <1>1, <1>2, <1>3, RemovingAbandons DEF Call

\* The worker's callback.
LEMMA CallbackSimulates ==
  ASSUME DistinctUids, Sound, Base', Callback
  PROVE  Simulates
<1>1. CASE Restart
  <2>1. UNCHANGED <<users, pool, added, sent, slot, status>> /\ pc["sip"] = "restart"
        /\ \E locks : Leave("sip", "send", locks)
    BY <1>1 DEF Restart, engine, history, network
  <2>2. SipQuiet
    BY <2>1, LeaveQuiet DEF Sound, Control, Thread
  <2> QED
    BY <2>1, <2>2, QuietStep
<1> QED
  BY <1>1, NotifyingDelivers, SettlingSuccess, SettlingFailure, MarkingFailure DEF Callback

\* Every step of the engine is a step of Outbox, or none for it.
LEMMA OutboxStep ==
  ASSUME DistinctUids
  PROVE  Control /\ OutboxInv /\ [Next]_vars => Simulates
<1> SUFFICES ASSUME Sound, [Next]_vars PROVE Simulates
  BY DEF Sound
<1>0. Base' /\ App \subseteq Thread /\ "sip" \in Thread
  BY BaseStep DEF Sound, Control, Thread
<1>1. CASE StopSIPStack \/ StartSIPStack \/ UNCHANGED vars
  <2>1. SipQuiet /\ UNCHANGED <<users, pool, added, sent>>
    BY <1>1 DEF StopSIPStack, StartSIPStack, vars, engine, threads, network, history, SipQuiet
  <2> QED
    BY <2>1, QuietStep
<1>2. ASSUME NEW u \in User, AddMessage("sip", u) \/ BuddyOnline(u) PROVE Simulates
  BY <1>0, <1>2, CallSimulates, OnlineRetries
<1>3. ASSUME NEW t \in App, Call(t) PROVE Simulates
  BY <1>0, <1>3, CallSimulates
<1> QED
  BY <1>0, <1>1, <1>2, <1>3, RunSimulates, CallbackSimulates, ReportingStutters DEF Next

\* OutboxInv holds in every reachable state, when messages have uids of their
\* own: no message is in two pools, the one in the transport's slot is of the
\* user it is sent to, and one that was transferred stays no longer than until
\* its status is settled.
THEOREM SpecOutboxInv ==
  ASSUME DistinctUids
  PROVE  Spec => []OutboxInv
<1>1. Init => OutboxInv
  BY OutboxInit
<1>2. Control /\ OutboxInv /\ [Next]_vars => OutboxInv'
  BY OutboxStep DEF Simulates
<1> QED
  BY <1>1, <1>2, SpecControl, PTL DEF Spec

\* The engine implements Outbox, when messages have uids of their own, for any
\* number of users, threads, messages and retries and under every disturbance:
\* one transfer at a time, in the order of each user's messages but for those
\* given up, and nothing transferred twice, left behind or lost for another.
THEOREM SpecImplementsOutbox ==
  ASSUME DistinctUids
  PROVE  Spec => ImplementsOutbox
<1>1. Init => O!Init
  BY OutboxInit
<1>2. Control /\ OutboxInv /\ [Next]_vars => [O!Next]_(O!outbox)
  BY OutboxStep DEF Simulates
<1>3. Spec => []OutboxInv
  BY SpecOutboxInv
<1> QED
  BY <1>1, <1>2, <1>3, SpecControl, PTL DEF Spec, ImplementsOutbox, O!Spec
=============================================================================
