-------------------------- MODULE AutoResendProofs --------------------------
(***************************************************************************)
(* Proofs about AutoResend, for any number of users, application threads,  *)
(* messages and retries.                                                   *)
(*                                                                         *)
(* Base     types, and that every pool is in the sending order: sorting    *)
(*          permutes priority_, erasing takes one entry.                   *)
(* Control  which locks each section holds, that a lock has one owner, and *)
(*          that an open request, the message in the slot, the worker's    *)
(*          callback and a thread in sendMessage exclude each other.       *)
(* Follows, Awake, Recorded                                                *)
(*          what OneInFlight leaves open: a running engine goes on, a      *)
(*          message that can be sent is not slept over, a success is       *)
(*          recorded before its message leaves the pool.                   *)
(***************************************************************************)
EXTENDS AutoResend, SequenceTheorems, FiniteSetTheorems, WellFoundedInduction, TLAPS

-----------------------------------------------------------------------------
(***************************************************************************)
(* The operators the actions are built from.                               *)
(***************************************************************************)
\* A set of naturals that is not empty has a least element.
LEMMA LeastIsLeast ==
  ASSUME NEW S \in SUBSET Nat, S # {}
  PROVE  Least(S) \in S /\ \A j \in S : Least(S) <= j
<1> DEFINE R == OpToRel(<, Nat)
<1>1. IsWellFoundedOn(R, Nat)
  BY NatLessThanWellFounded, Zenon
<1>2. PICK x \in S : \A y \in S : ~ (<<y, x>> \in R)
  <2> HIDE DEF R
  <2> QED
    BY <1>1, WFMin, Zenon
<1>3. ASSUME NEW y \in S PROVE x <= y
  <2>1. y < x => <<y, x>> \in R
    BY DEF OpToRel
  <2> HIDE DEF R
  <2> QED
    BY <1>2, <2>1
<1> QED
  BY <1>3 DEF Least

\* The indexes of the messages with a uid.
LEMMA WithUidLeast ==
  ASSUME NEW msgs \in Seq(Message), NEW uid, WithUid(msgs, uid) # {}
  PROVE  /\ Least(WithUid(msgs, uid)) \in 1 .. Len(msgs)
         /\ Uid[msgs[Least(WithUid(msgs, uid))].id] = uid
<1>1. WithUid(msgs, uid) \in SUBSET Nat /\ WithUid(msgs, uid) \subseteq 1 .. Len(msgs)
  BY DEF WithUid
<1> QED
  BY <1>1, LeastIsLeast DEF WithUid

\* A mark changes neither the messages nor their order.
LEMMA MarkMsgKeeps ==
  ASSUME NEW msgs \in Seq(Message), NEW uid, NEW done \in BOOLEAN
  PROVE  /\ MarkMsg(msgs, uid, done) \in Seq(Message)
         /\ Len(MarkMsg(msgs, uid, done)) = Len(msgs)
         /\ \A i \in 1 .. Len(msgs) :
              /\ MarkMsg(msgs, uid, done)[i].id = msgs[i].id
              /\ \/ MarkMsg(msgs, uid, done)[i].done = msgs[i].done
                 \/ Uid[msgs[i].id] = uid /\ MarkMsg(msgs, uid, done)[i].done = done
<1>1. CASE WithUid(msgs, uid) = {}
  BY <1>1 DEF MarkMsg
<1>2. CASE WithUid(msgs, uid) # {}
  <2> DEFINE i == Least(WithUid(msgs, uid))
  <2>1. i \in 1 .. Len(msgs) /\ Uid[msgs[i].id] = uid
    BY <1>2, WithUidLeast
  <2>2. MarkMsg(msgs, uid, done) = [msgs EXCEPT ![i].done = done]
    BY <1>2 DEF MarkMsg
  <2>3. [msgs[i] EXCEPT !.done = done] \in Message
    <3>1. msgs[i] \in Message
      BY <2>1, ElementOfSeq, Zenon
    <3> QED
      BY <3>1 DEF Message
  <2> HIDE DEF i
  <2>4. [msgs EXCEPT ![i].done = done] = [msgs EXCEPT ![i] = [msgs[i] EXCEPT !.done = done]]
    BY <2>1
  <2>5. \A j \in 1 .. Len(msgs) : msgs[j] \in Message
    BY ElementOfSeq
  <2> QED
    BY <2>1, <2>2, <2>3, <2>4, <2>5, ExceptSeq DEF Message
<1> QED
  BY <1>1, <1>2

\* The same of a mark on every message of a pool.
LEMMA MarkAllKeeps ==
  ASSUME NEW msgs \in Seq(Message), NEW done \in BOOLEAN
  PROVE  /\ MarkAll(msgs, done) \in Seq(Message)
         /\ Len(MarkAll(msgs, done)) = Len(msgs)
         /\ \A i \in 1 .. Len(msgs) :
              MarkAll(msgs, done)[i].id = msgs[i].id /\ MarkAll(msgs, done)[i].done = done
<1>1. \A i \in 1 .. Len(msgs) : [msgs[i] EXCEPT !.done = done] \in Message
  <2>1. \A i \in 1 .. Len(msgs) : msgs[i] \in Message
    BY ElementOfSeq, Zenon
  <2> QED
    BY <2>1 DEF Message
<1>2. MarkAll(msgs, done) = [i \in 1 .. Len(msgs) |-> [msgs[i] EXCEPT !.done = done]]
  BY DEF MarkAll
<1>3. MarkAll(msgs, done) \in Seq(Message) /\ Len(MarkAll(msgs, done)) = Len(msgs)
  BY <1>1, <1>2
<1>4. \A i \in 1 .. Len(msgs) : msgs[i] \in Message
  BY ElementOfSeq
<1> QED
  BY <1>2, <1>3, <1>4 DEF Message

\* The sequence without its i-th entry.
Cut(s, i) == SubSeq(s, 1, i - 1) \o SubSeq(s, i + 1, Len(s))

\* SubSeq and \o cut one entry out of a sequence: what is left.
LEMMA CutOut ==
  ASSUME NEW S, NEW s \in Seq(S), NEW i \in 1 .. Len(s)
  PROVE  /\ Cut(s, i) \in Seq(S) /\ Len(Cut(s, i)) = Len(s) - 1
         /\ \A k \in 1 .. Len(s) - 1 : Cut(s, i)[k] = IF k < i THEN s[k] ELSE s[k + 1]
         /\ \A j \in 1 .. Len(s) : j # i => \E k \in 1 .. Len(s) - 1 : Cut(s, i)[k] = s[j]
<1> DEFINE a == SubSeq(s, 1, i - 1)
           b == SubSeq(s, i + 1, Len(s))
           r == a \o b
<1>0. Len(s) \in Nat /\ \A k \in 1 .. Len(s) : s[k] \in S
  BY ElementOfSeq, LenProperties
<1>1. a \in Seq(S) /\ Len(a) = i - 1 /\ \A k \in 1 .. i - 1 : a[k] = s[k]
  <2>1. \A k \in 1 .. i - 1 : s[k] \in S
    BY <1>0
  <2> HIDE DEF a
  <2>2. a \in Seq(S) /\ Len(a) = (IF 1 <= i - 1 THEN i - 1 - 1 + 1 ELSE 0)
        /\ \A k \in 1 .. i - 1 - 1 + 1 : a[k] = s[1 + k - 1]
    BY <2>1, SubSeqProperties DEF a
  <2> QED
    BY <2>2
<1>2. b \in Seq(S) /\ Len(b) = Len(s) - i /\ \A k \in 1 .. Len(s) - i : b[k] = s[k + i]
  <2>1. \A k \in i + 1 .. Len(s) : s[k] \in S
    BY <1>0
  <2> HIDE DEF b
  <2>2. b \in Seq(S) /\ Len(b) = (IF i + 1 <= Len(s) THEN Len(s) - (i + 1) + 1 ELSE 0)
        /\ \A k \in 1 .. Len(s) - (i + 1) + 1 : b[k] = s[i + 1 + k - 1]
    BY <1>0, <2>1, SubSeqProperties DEF b
  <2> QED
    BY <1>0, <2>2
<1> HIDE DEF a, b
<1>3. r \in Seq(S) /\ Len(r) = Len(a) + Len(b)
      /\ \A k \in 1 .. Len(a) + Len(b) : r[k] = IF k <= Len(a) THEN a[k] ELSE b[k - Len(a)]
  BY <1>1, <1>2, ConcatProperties, Zenon
<1> HIDE DEF r
<1>4. r \in Seq(S) /\ Len(r) = Len(s) - 1
      /\ \A k \in 1 .. Len(s) - 1 : r[k] = IF k < i THEN s[k] ELSE s[k + 1]
  <2>1. r \in Seq(S) /\ Len(r) = Len(s) - 1
    BY <1>0, <1>1, <1>2, <1>3
  <2>2. ASSUME NEW k \in 1 .. Len(s) - 1, k < i PROVE r[k] = s[k]
    <3>1. k \in 1 .. Len(a) + Len(b) /\ k <= Len(a) /\ k \in 1 .. i - 1
      BY <1>0, <1>1, <1>2, <2>2
    <3> QED
      BY <1>1, <1>3, <3>1
  <2>3. ASSUME NEW k \in 1 .. Len(s) - 1, ~ (k < i) PROVE r[k] = s[k + 1]
    <3>1. k \in 1 .. Len(a) + Len(b) /\ ~ (k <= Len(a)) /\ k - Len(a) \in 1 .. Len(s) - i
          /\ k - Len(a) + i = k + 1
      BY <1>0, <1>1, <1>2, <2>3
    <3>2. r[k] = b[k - Len(a)] /\ b[k - Len(a)] = s[k - Len(a) + i]
      BY <1>2, <1>3, <3>1
    <3> QED
      BY <3>1, <3>2
  <2> QED
    BY <2>1, <2>2, <2>3
<1>5. \A j \in 1 .. Len(s) : j # i => \E k \in 1 .. Len(s) - 1 : r[k] = s[j]
  <2> SUFFICES ASSUME NEW j \in 1 .. Len(s), j # i
               PROVE  \E k \in 1 .. Len(s) - 1 : r[k] = s[j]
    OBVIOUS
  <2>1. CASE j < i
    <3>1. j \in 1 .. Len(s) - 1 /\ r[j] = s[j]
      BY <1>0, <1>4, <2>1
    <3> QED
      BY <3>1
  <2>2. CASE j > i
    <3>1. j - 1 \in 1 .. Len(s) - 1 /\ r[j - 1] = s[j]
      BY <1>0, <1>4, <2>2
    <3> QED
      BY <3>1
  <2> QED
    BY <1>0, <2>1, <2>2
<1> QED
  BY <1>4, <1>5 DEF r, a, b, Cut

\* Removing a message: the first one with the uid goes, the others stay.
LEMMA RmMessageKeeps ==
  ASSUME NEW msgs \in Seq(Message), NEW uid
  PROVE  /\ RmMessage(msgs, uid) \in Seq(Message)
         /\ \A k \in 1 .. Len(RmMessage(msgs, uid)) :
              \E j \in 1 .. Len(msgs) : RmMessage(msgs, uid)[k] = msgs[j]
         /\ \A j \in 1 .. Len(msgs) :
              \/ \E k \in 1 .. Len(RmMessage(msgs, uid)) : RmMessage(msgs, uid)[k] = msgs[j]
              \/ Uid[msgs[j].id] = uid
<1>1. CASE WithUid(msgs, uid) = {}
  BY <1>1 DEF RmMessage
<1>2. CASE WithUid(msgs, uid) # {}
  <2> DEFINE i == Least(WithUid(msgs, uid))
             r == Cut(msgs, i)
  <2>1. i \in 1 .. Len(msgs) /\ Uid[msgs[i].id] = uid
    BY <1>2, WithUidLeast
  <2>2. RmMessage(msgs, uid) = r
    BY <1>2 DEF RmMessage, Cut
  <2> HIDE DEF i
  <2>3. /\ r \in Seq(Message) /\ Len(r) = Len(msgs) - 1
        /\ \A k \in 1 .. Len(msgs) - 1 : r[k] = IF k < i THEN msgs[k] ELSE msgs[k + 1]
        /\ \A j \in 1 .. Len(msgs) : j # i => \E k \in 1 .. Len(msgs) - 1 : r[k] = msgs[j]
    BY <2>1, CutOut, Zenon
  <2> HIDE DEF r
  <2>4. \A k \in 1 .. Len(r) : \E j \in 1 .. Len(msgs) : r[k] = msgs[j]
    <3> SUFFICES ASSUME NEW k \in 1 .. Len(r) PROVE \E j \in 1 .. Len(msgs) : r[k] = msgs[j]
      OBVIOUS
    <3>1. Len(msgs) \in Nat /\ k \in 1 .. Len(msgs) /\ k + 1 \in 1 .. Len(msgs)
      BY <2>3, LenProperties
    <3> QED
      BY <2>3, <3>1
  <2> QED
    BY <2>1, <2>2, <2>3, <2>4
<1> QED
  BY <1>1, <1>2

-----------------------------------------------------------------------------
(***************************************************************************)
(* sortMessages only permutes priority_: places in a total order are ranks *)
(* 1 .. Len(priority), and each is taken once.                             *)
(***************************************************************************)
Before(g, i, j) ==
  \/ SortWeight(priority[i], g) < SortWeight(priority[j], g)
  \/ SortWeight(priority[i], g) = SortWeight(priority[j], g) /\ i <= j

Place(g, i) == Cardinality({j \in DOMAIN priority : Before(g, j, i)})

\* What the sorting compares are numbers.
LEMMA SortWeightIsInt ==
  ASSUME TypeOK, NEW g \in Int, NEW i \in DOMAIN priority
  PROVE  SortWeight(priority[i], g) \in Int
<1>1. priority[i] \in User
  BY DEF TypeOK
<1> QED
  BY <1>1 DEF TypeOK, Pool, SortWeight

\* Before is a total order on the indexes of priority_.
LEMMA BeforeIsTotal ==
  ASSUME TypeOK, NEW g \in Int
  PROVE  /\ \A i \in DOMAIN priority : Before(g, i, i)
         /\ \A i, j \in DOMAIN priority :
              i # j => (Before(g, i, j) <=> ~ Before(g, j, i))
         /\ \A i, j, k \in DOMAIN priority :
              Before(g, i, j) /\ Before(g, j, k) => Before(g, i, k)
<1> DEFINE w(i) == SortWeight(priority[i], g)
<1>1. \A i \in DOMAIN priority : w(i) \in Int /\ i \in Int
  <2>1. \A i \in DOMAIN priority : i \in Int
    BY DEF TypeOK
  <2> QED
    BY <2>1, SortWeightIsInt
<1>2. \A i, j \in DOMAIN priority :
        Before(g, i, j) <=> w(i) < w(j) \/ (w(i) = w(j) /\ i <= j)
  BY DEF Before
<1> HIDE DEF w
<1> QED
  BY <1>1, <1>2

\* A place is a rank, and two indexes have different places.
LEMMA PlaceIsInjective ==
  ASSUME TypeOK, NEW g \in Int
  PROVE  /\ \A i \in DOMAIN priority : Place(g, i) \in 1 .. Len(priority)
         /\ \A i, j \in DOMAIN priority : i # j => Place(g, i) # Place(g, j)
<1> DEFINE D == DOMAIN priority
           Below(i) == {j \in D : Before(g, j, i)}
<1>1. Len(priority) \in Nat /\ D = 1 .. Len(priority)
  BY DEF TypeOK
<1>2. IsFiniteSet(D) /\ Cardinality(D) = Len(priority)
  <2> HIDE DEF D
  <2> QED
    BY <1>1, FS_Interval
<1>3. \A i \in D : /\ Below(i) \in SUBSET D /\ IsFiniteSet(Below(i)) /\ i \in Below(i)
                   /\ Cardinality(Below(i)) \in Nat /\ Cardinality(Below(i)) <= Len(priority)
  <2> SUFFICES ASSUME NEW i \in D
               PROVE  /\ Below(i) \in SUBSET D /\ IsFiniteSet(Below(i)) /\ i \in Below(i)
                      /\ Cardinality(Below(i)) \in Nat
                      /\ Cardinality(Below(i)) <= Len(priority)
    OBVIOUS
  <2>1. Below(i) \in SUBSET D /\ i \in Below(i)
    BY BeforeIsTotal
  <2> HIDE DEF D, Below
  <2>2. IsFiniteSet(Below(i)) /\ Cardinality(Below(i)) <= Cardinality(D)
    BY <1>2, <2>1, FS_Subset
  <2>3. Cardinality(Below(i)) \in Nat
    BY <2>2, FS_CardinalityType
  <2> QED
    BY <1>2, <2>1, <2>2, <2>3
<1>4. ASSUME NEW i \in D PROVE Place(g, i) \in 1 .. Len(priority)
  <2>1. Cardinality(Below(i)) # 0
    <3> HIDE DEF D, Below
    <3> QED
      BY <1>3, FS_EmptySet
  <2>2. Place(g, i) = Cardinality(Below(i))
    BY DEF Place
  <2> HIDE DEF D, Below
  <2> QED
    BY <1>1, <1>3, <2>1, <2>2
<1>5. ASSUME NEW i \in D, NEW j \in D, i # j, Before(g, i, j)
      PROVE  Place(g, i) # Place(g, j)
  <2>1. Below(i) \in SUBSET Below(j)
    BY <1>5, BeforeIsTotal
  <2>2. j \in Below(j) /\ j \notin Below(i)
    BY <1>5, BeforeIsTotal
  <2>3. Place(g, i) = Cardinality(Below(i)) /\ Place(g, j) = Cardinality(Below(j))
    BY DEF Place
  <2> HIDE DEF D, Below
  <2>4. Cardinality(Below(j)) = Cardinality(Below(i)) => Below(j) = Below(i)
    BY <1>3, <2>1, FS_Subset
  <2> QED
    BY <2>2, <2>3, <2>4
<1>6. ASSUME NEW i \in D, NEW j \in D, i # j
      PROVE  Place(g, i) # Place(g, j)
  <2>1. Before(g, i, j) \/ Before(g, j, i)
    BY <1>6, BeforeIsTotal
  <2> QED
    BY <1>5, <1>6, <2>1
<1> QED
  BY <1>4, <1>6

\* So every place is taken.
LEMMA PlaceIsSurjective ==
  ASSUME TypeOK, NEW g \in Int, NEW k \in DOMAIN priority
  PROVE  \E i \in DOMAIN priority : Place(g, i) = k
<1> DEFINE D == DOMAIN priority
           f == [i \in D |-> Place(g, i)]
<1>1. Len(priority) \in Nat /\ D = 1 .. Len(priority)
  BY DEF TypeOK
<1>2. IsFiniteSet(D)
  BY <1>1, FS_Interval
<1>3. f \in [D -> D] /\ \A i, j \in D : f[i] = f[j] => i = j
  BY <1>1, PlaceIsInjective
<1> HIDE DEF D
<1>4. f \in Injection(D, D)
  BY <1>3 DEF Injection, IsInjective
<1>5. f \in Surjection(D, D)
  <2> HIDE DEF f
  <2> QED
    BY <1>2, <1>4, FS_Injection
<1>6. \E i \in D : f[i] = k
  <2> HIDE DEF f
  <2> QED
    BY <1>5 DEF D, Surjection
<1> QED
  BY <1>6 DEF D

\* The sorted sequence has the entries of the unsorted one.
LEMMA SortedPermutes ==
  ASSUME TypeOK, NEW g \in Int
  PROVE  /\ Sorted(g) \in Seq(User)
         /\ \A i \in DOMAIN priority : \E k \in DOMAIN Sorted(g) : Sorted(g)[k] = priority[i]
<1> DEFINE D == DOMAIN priority
           At(k) == CHOOSE i \in D : Place(g, i) = k
<1>1. Sorted(g) = [k \in D |-> priority[At(k)]]
  BY Zenon DEF Sorted, Place, Before
<1>2. \A k \in D : At(k) \in D /\ Place(g, At(k)) = k
  BY PlaceIsSurjective
<1>3. \A i \in D : Place(g, i) \in D
  BY PlaceIsInjective DEF TypeOK
<1> HIDE DEF At
<1>4. Sorted(g) \in Seq(User)
  <2>1. Len(priority) \in Nat /\ D = 1 .. Len(priority) /\ \A i \in D : priority[i] \in User
    BY DEF TypeOK
  <2> HIDE DEF D
  <2>2. [k \in 1 .. Len(priority) |-> priority[At(k)]] \in Seq(User)
    BY <1>2, <2>1
  <2> QED
    BY <1>1, <2>1, <2>2
<1>5. ASSUME NEW i \in D
      PROVE  \E k \in DOMAIN Sorted(g) : Sorted(g)[k] = priority[i]
  <2>1. At(Place(g, i)) = i
    BY <1>2, <1>3, PlaceIsInjective
  <2> QED
    BY <1>1, <1>3, <2>1
<1> QED
  BY <1>4, <1>5

\* Without its first entry of u, priority_ still has those of all others.
LEMMA WithoutPriorityKeeps ==
  ASSUME priority \in Seq(User), NEW u, \E i \in DOMAIN priority : priority[i] = u
  PROVE  /\ WithoutPriority(u) \in Seq(User)
         /\ \A i \in DOMAIN priority :
              priority[i] # u => \E k \in DOMAIN WithoutPriority(u) :
                                   WithoutPriority(u)[k] = priority[i]
<1> DEFINE I == {j \in DOMAIN priority : priority[j] = u}
           i == Least(I)
<1>1. i \in 1 .. Len(priority) /\ priority[i] = u
  <2>1. I \in SUBSET Nat /\ I # {} /\ I \subseteq 1 .. Len(priority)
    OBVIOUS
  <2>2. Least(I) \in I
    BY <2>1, LeastIsLeast
  <2> QED
    BY <2>1, <2>2
<1>2. WithoutPriority(u) = Cut(priority, i)
  BY DEF WithoutPriority, Cut
<1> HIDE DEF i
<1>3. /\ Cut(priority, i) \in Seq(User) /\ Len(Cut(priority, i)) = Len(priority) - 1
      /\ \A j \in 1 .. Len(priority) :
           j # i => \E k \in 1 .. Len(priority) - 1 : Cut(priority, i)[k] = priority[j]
  BY <1>1, CutOut, Zenon
<1>4. DOMAIN Cut(priority, i) = 1 .. Len(priority) - 1 /\ DOMAIN priority = 1 .. Len(priority)
  BY <1>3, LenProperties
<1> QED
  BY <1>1, <1>2, <1>3, <1>4

-----------------------------------------------------------------------------
(***************************************************************************)
(* Types, and what the actions rely on to keep them.                       *)
(***************************************************************************)
\* A slot in use has a message; a removal under way has a user.
SlotInUse ==
  /\ slot.live \/ pc["sip"] \in {"notify", "settle", "mark"} =>
       slot.user \in User /\ slot.id \in MsgId
  /\ slot.live => slot.counter # 0
  /\ \A t \in Thread : pc[t] = "erase" => target[t] \in User

Base == TypeOK /\ SlotInUse /\ PoolsPrioritised

\* The pools stay well typed and in the sending order when a message is added.
LEMMA AddMessageKeepsPools ==
  ASSUME Base, NEW t \in Thread, NEW u \in User, NEW done \in BOOLEAN,
         AddMessageInternal(t, u, done)
  PROVE  /\ users' \subseteq User /\ pool' \in [User -> Pool] /\ priority' \in Seq(User)
         /\ added' \in 0 .. LastMsg /\ PoolsPrioritised'
<1>1. added + 1 \in MsgId /\ added' = added + 1
  BY EngineConstantsOK DEF AddMessageInternal, Base, TypeOK, MsgId
<1>2. pool' \in [User -> Pool]
  <2> DEFINE m == [id |-> added + 1, done |-> done]
             msgs == Append(pool[u].msgs, m)
  <2>1. pool[u] \in Pool /\ m \in Message
    BY <1>1 DEF Base, TypeOK, Message
  <2>2. msgs \in Seq(Message) /\ MarkAll(msgs, FALSE) \in Seq(Message)
    BY <2>1, MarkAllKeeps, AppendProperties DEF Pool
  <2>3. pool' = [pool EXCEPT ![u] = MarkUserPoolAsClean([pool[u] EXCEPT !.msgs = msgs])]
    BY DEF AddMessageInternal
  <2> HIDE DEF msgs
  <2>4. MarkUserPoolAsClean([pool[u] EXCEPT !.msgs = msgs]) \in Pool
    BY <2>1, <2>2 DEF MarkUserPoolAsClean, Pool
  <2> QED
    BY <2>3, <2>4 DEF Base, TypeOK
<1>3. priority' \in Seq(User) /\ PoolsPrioritised'
  <2>1. CASE u \in users
    BY <2>1 DEF AddMessageInternal, Base, TypeOK, PoolsPrioritised
  <2>2. CASE u \notin users
    <3>1. priority' = Append(priority, u) /\ users' = users \cup {u}
      BY <2>2 DEF AddMessageInternal
    <3>2. priority \in Seq(User)
      BY DEF Base, TypeOK
    <3>3. LET p == Append(priority, u)
          IN  /\ p \in Seq(User) /\ Len(p) = Len(priority) + 1
              /\ \A i \in 1 .. Len(priority) : p[i] = priority[i]
              /\ p[Len(priority) + 1] = u
      BY <3>2, AppendProperties
    <3>4. DOMAIN priority' = 1 .. Len(priority) + 1 /\ DOMAIN priority = 1 .. Len(priority)
          /\ Len(priority) \in Nat
      BY <3>1, <3>2, <3>3, LenProperties
    <3> QED
      BY <3>1, <3>3, <3>4 DEF Base, PoolsPrioritised
  <2> QED
    BY <2>1, <2>2
<1> QED
  BY <1>1, <1>2, <1>3 DEF AddMessageInternal, Base, TypeOK, MsgId
\* The three parts of TypeOK that the proofs treat apart.
EngineTyped ==
  /\ users \subseteq User
  /\ pool \in [User -> Pool]
  /\ priority \in Seq(User)

ThreadsTyped ==
  /\ pc \in [Thread -> Label]
  /\ held \in [Thread -> SUBSET Lock]

RestTyped ==
  /\ autoResend \in BOOLEAN /\ started \in BOOLEAN
  /\ slot \in [user : User \cup {NoUser}, id : MsgId \cup {0},
               live : BOOLEAN, counter : Nat]
  /\ target \in [Thread -> User \cup {NoUser}] /\ status \in BOOLEAN
  /\ sipUp \in BOOLEAN /\ pending \in Nat
  /\ added \in 0 .. LastMsg /\ sent \subseteq MsgId /\ removed \subseteq MsgId
  /\ used \in [Budget -> Nat]

\* TypeOK in two parts.
LEMMA TypeParts == TypeOK <=> EngineTyped /\ ThreadsTyped /\ RestTyped
  BY DEF TypeOK, EngineTyped, ThreadsTyped, RestTyped

\* No message, no slot in use, nothing to be sent.
LEMMA BaseInit == Init => Base
<1> SUFFICES ASSUME Init PROVE Base
  OBVIOUS
<1>1. EngineTyped
  <2>1. <<>> \in Seq(Message) /\ <<>> \in Seq(User)
    BY EmptySeq
  <2>2. EmptyPool \in Pool
    BY <2>1 DEF EmptyPool, Pool
  <2> QED
    BY <2>1, <2>2 DEF Init, EngineTyped
<1>2. ThreadsTyped
  BY DEF Init, ThreadsTyped, Label
<1>3. RestTyped
  <2>1. slot \in [user : User \cup {NoUser}, id : MsgId \cup {0},
                  live : BOOLEAN, counter : Nat]
    BY DEF Init
  <2>2. 0 \in 0 .. LastMsg
    BY EngineConstantsOK
  <2> QED
    BY <2>1, <2>2 DEF Init, RestTyped
<1> QED
  BY <1>1, <1>2, <1>3, TypeParts DEF Base, SlotInUse, PoolsPrioritised, Init, Thread

\* A bound is used up by naturals.
LEMMA SpendTyped ==
  ASSUME used \in [Budget -> Nat], NEW b \in Budget, Spend(b)
  PROVE  used' \in [Budget -> Nat]
<1>1. used[b] + 1 \in Nat
  OBVIOUS
<1> QED
  BY <1>1 DEF Spend

\* A thread moves on, and nobody enters a callback or a removal by that.
Moves ==
  /\ ThreadsTyped'
  /\ pc'["sip"] \in {"notify", "settle", "mark"} => pc["sip"] = pc'["sip"]
  /\ \A x \in Thread : pc'[x] = "erase" => pc[x] = "erase"

\* A critical section that ends without a call back into the engine.
LEMMA LeaveMoves ==
  ASSUME Base, NEW t \in Thread, NEW l \in Label \ {"notify", "settle", "mark", "erase"},
         NEW locks \in SUBSET Lock, Leave(t, l, locks)
  PROVE  Moves
<1>1. ThreadsTyped
  BY TypeParts DEF Base
<1>2. ThreadsTyped'
  BY <1>1 DEF ThreadsTyped, Leave
<1>3. \A x \in Thread : pc'[x] = IF x = t THEN l ELSE pc[x]
  BY <1>1 DEF ThreadsTyped, Leave
<1> QED
  BY <1>2, <1>3 DEF Moves, Thread

\* Steps of a thread that leave the locks alone.
LEMMA StayMoves ==
  ASSUME Base, UNCHANGED <<pc, held>>
  PROVE  Moves
BY TypeParts DEF Base, Moves, ThreadsTyped

\* When the slot stays and nobody enters a callback, only types are to be shown.
LEMMA QuietKeepsBase ==
  ASSUME Base, Moves, UNCHANGED <<slot, target>>,
         EngineTyped', PoolsPrioritised', RestTyped'
  PROVE  Base'
<1>1. TypeOK'
  BY DEF TypeOK, EngineTyped, Moves, ThreadsTyped, RestTyped
<1>2. SlotInUse'
  BY DEF Base, SlotInUse, Moves
<1> QED
  BY <1>1, <1>2 DEF Base

\* Adding messages: the calls of the application and the passes over databases.
LEMMA AddingKeepsBase ==
  ASSUME Base, NEW t \in Thread, NEW u \in User, NEW done \in BOOLEAN,
         AddMessage(t, u) \/ SyncAdd(t, u, done)
  PROVE  Base'
<1>1. PICK d \in BOOLEAN : AddMessageInternal(t, u, d)
  BY DEF AddMessage, SyncAdd
<1>2. EngineTyped' /\ PoolsPrioritised' /\ added' \in 0 .. LastMsg
  BY <1>1, AddMessageKeepsPools DEF EngineTyped
<1>3. Moves
  <2>1. CASE AddMessage(t, u)
    BY <2>1, LeaveMoves DEF AddMessage, Label
  <2>2. CASE SyncAdd(t, u, done)
    BY <2>2, LeaveMoves, StayMoves DEF SyncAdd, Label
  <2> QED
    BY <2>1, <2>2
<1>4. UNCHANGED <<flags, target, status, network, sent, removed, used>>
  BY DEF AddMessage, SyncAdd
<1>5. RestTyped'
  BY <1>2, <1>4, TypeParts DEF Base, RestTyped, flags, network
<1> QED
  BY <1>2, <1>3, <1>4, <1>5, QuietKeepsBase DEF network

\* Steps that leave the pools, the order and the slot alone.
LEMMA ControlKeepsBase ==
  ASSUME Base, NEW t \in Thread,
         \/ SyncBegin(t) \/ StartEngine(t) \/ ScanEnds(t) \/ Stop(t)
         \/ t = "sip" /\ Restart
         \/ \E enabled \in BOOLEAN : SetAutoResendEnabled(t, enabled)
         \/ StopSIPStack \/ StartSIPStack
  PROVE  Base'
<1>0. EngineTyped /\ ThreadsTyped /\ RestTyped
  BY TypeParts DEF Base
<1>1. UNCHANGED <<engine, slot, target, status, history>>
  BY DEF SyncBegin, StartEngine, ScanEnds, Stop, Restart, SetAutoResendEnabled,
         StopSIPStack, StartSIPStack, engine, threads, network, history
<1>2. EngineTyped' /\ PoolsPrioritised'
  BY <1>0, <1>1 DEF EngineTyped, Base, PoolsPrioritised, engine
<1>3. CASE SyncBegin(t)
  <2>1. Moves
    BY <1>3, LeaveMoves DEF SyncBegin, Label, Lock
  <2>2. RestTyped'
    BY <1>0, <1>3, SpendTyped DEF SyncBegin, RestTyped, Budget, flags, network, history
  <2> QED
    BY <1>1, <1>2, <2>1, <2>2, QuietKeepsBase
<1>4. CASE StartEngine(t)
  <2>1. Moves
    BY <1>4, LeaveMoves DEF StartEngine, Label, Lock
  <2>2. RestTyped'
    BY <1>0, <1>4 DEF StartEngine, RestTyped, network, history
  <2> QED
    BY <1>1, <1>2, <2>1, <2>2, QuietKeepsBase
<1>5. CASE ScanEnds(t)
  <2>1. held[t] \ {"pool"} \in SUBSET Lock
    BY <1>0 DEF ThreadsTyped
  <2>2. Moves
    BY <1>5, <2>1, LeaveMoves DEF ScanEnds, Label
  <2>3. RestTyped'
    BY <1>0, <1>5 DEF ScanEnds, RestTyped, flags, network, history
  <2> QED
    BY <1>1, <1>2, <2>2, <2>3, QuietKeepsBase
<1>6. CASE Stop(t)
  <2>1. Moves
    BY <1>6, LeaveMoves DEF Stop, Label, Lock
  <2>2. RestTyped'
    BY <1>0, <1>6 DEF Stop, RestTyped, network, history
  <2> QED
    BY <1>1, <1>2, <2>1, <2>2, QuietKeepsBase
<1>7. CASE t = "sip" /\ Restart
  <2>1. held["sip"] \cup {"started"} \in SUBSET Lock /\ "sip" \in Thread
    BY <1>0 DEF ThreadsTyped, Lock, Thread
  <2>2. Moves
    BY <1>7, <2>1, LeaveMoves DEF Restart, Label
  <2>3. RestTyped'
    BY <1>0, <1>7 DEF Restart, RestTyped, flags, network, history
  <2> QED
    BY <1>1, <1>2, <2>2, <2>3, QuietKeepsBase
<1>8. ASSUME NEW enabled \in BOOLEAN, SetAutoResendEnabled(t, enabled) PROVE Base'
  <2>1. Moves
    BY <1>8, LeaveMoves DEF SetAutoResendEnabled, Label, Lock
  <2>2. RestTyped'
    BY <1>0, <1>8, SpendTyped DEF SetAutoResendEnabled, RestTyped, Budget, network, history
  <2> QED
    BY <1>1, <1>2, <2>1, <2>2, QuietKeepsBase
<1>9. CASE StopSIPStack \/ StartSIPStack
  <2>1. Moves
    BY <1>9, StayMoves DEF StopSIPStack, StartSIPStack, threads
  <2>2. RestTyped'
    <3>1. CASE StopSIPStack
      BY <1>0, <3>1, SpendTyped DEF StopSIPStack, RestTyped, Budget, flags, threads, history
    <3>2. CASE StartSIPStack
      BY <1>0, <3>2 DEF StartSIPStack, RestTyped, flags, threads, history
    <3> QED
      BY <1>9, <3>1, <3>2
  <2> QED
    BY <1>1, <1>2, <2>1, <2>2, QuietKeepsBase
<1> QED
  BY <1>3, <1>4, <1>5, <1>6, <1>7, <1>8, <1>9

\* The engine's own loop.
LEMMA LoopKeepsBase ==
  ASSUME Base, NEW t \in Thread, SortMessages(t) \/ ScanGivesUp(t) \/ ScanSends(t)
  PROVE  Base'
<1>0. EngineTyped /\ ThreadsTyped /\ RestTyped
  BY TypeParts DEF Base
<1>1. CASE SortMessages(t)
  <2>1. PICK g \in -1 .. IntMax + 1 : priority' = Sorted(g)
    BY <1>1 DEF SortMessages
  <2>2. g \in Int
    BY <2>1, EngineConstantsOK
  <2>3. priority' \in Seq(User) /\ PoolsPrioritised'
    BY <1>1, <2>1, <2>2, SortedPermutes DEF Base, PoolsPrioritised, SortMessages
  <2>4. EngineTyped'
    BY <1>0, <1>1, <2>3 DEF SortMessages, EngineTyped
  <2>5. RestTyped'
    BY <1>0, <1>1 DEF SortMessages, RestTyped, flags, network, history
  <2>6. Moves
    <3>1. held[t] \cup {"pool"} \in SUBSET Lock
      BY <1>0 DEF ThreadsTyped, Lock
    <3> QED
      BY <1>1, <3>1, LeaveMoves DEF SortMessages, Label
  <2> QED
    BY <1>1, <2>3, <2>4, <2>5, <2>6, QuietKeepsBase DEF SortMessages, network
<1>2. CASE ScanGivesUp(t)
  <2> DEFINE u == priority[Least(Stops)]
  <2>1. u \in users /\ pool' = [pool EXCEPT ![u] = MarkUserPoolProcessed(@)]
    BY <1>2 DEF ScanGivesUp, MustGiveUp
  <2>2. u \in User /\ pool[u] \in Pool
    BY <1>0, <2>1 DEF EngineTyped
  <2>3. pool[u].msgs \in Seq(Message) /\ pool[u].dirty \in BOOLEAN
    BY <2>2 DEF Pool
  <2>4. MarkAll(pool[u].msgs, TRUE) \in Seq(Message)
    BY <2>3, MarkAllKeeps
  <2>5. MarkUserPoolProcessed(pool[u]) \in Pool
    BY <2>3, <2>4, EngineConstantsOK DEF MarkUserPoolProcessed, Pool
  <2>6. EngineTyped'
    BY <1>0, <1>2, <2>1, <2>5 DEF EngineTyped, ScanGivesUp
  <2>7. RestTyped' /\ PoolsPrioritised'
    BY <1>0, <1>2
       DEF ScanGivesUp, RestTyped, flags, threads, network, history, Base, PoolsPrioritised
  <2>8. Moves
    BY <1>2, StayMoves DEF ScanGivesUp, threads
  <2> QED
    BY <1>2, <2>6, <2>7, <2>8, QuietKeepsBase DEF ScanGivesUp, threads, network
<1>3. CASE ScanSends(t)
  <2> DEFINE u == priority[Least(Stops)]
             m == pool[u].msgs[Least(Eligible(pool[u].msgs))]
  <2>1. u \in users /\ Eligible(pool[u].msgs) # {}
        /\ slot' = [user |-> u, id |-> m.id, live |-> TRUE, counter |-> Retries]
    BY <1>3 DEF ScanSends, CanSend
  <2>2. m.id \in MsgId
    <3>1. pool[u].msgs \in Seq(Message)
      BY <1>0, <2>1 DEF EngineTyped, Pool
    <3>2. Eligible(pool[u].msgs) \subseteq 1 .. Len(pool[u].msgs)
      BY <3>1 DEF Eligible
    <3>3. Least(Eligible(pool[u].msgs)) \in 1 .. Len(pool[u].msgs)
      BY <2>1, <3>2, LeastIsLeast
    <3>4. m \in Message
      BY <3>1, <3>3, ElementOfSeq
    <3> QED
      BY <3>4 DEF Message
  <2>3. pending' \in Nat /\ used' \in [Budget -> Nat]
    <3>1. CASE sipUp /\ pending' = pending + 1 /\ UNCHANGED used
      BY <1>0, <3>1 DEF RestTyped
    <3>2. CASE Spend("fail") /\ UNCHANGED pending
      BY <1>0, <3>2, SpendTyped DEF RestTyped, Budget
    <3>3. CASE UNCHANGED <<pending, used>>
      BY <1>0, <3>3 DEF RestTyped
    <3> QED
      BY <1>3, <3>1, <3>2, <3>3 DEF ScanSends, SendMsg
  <2>4. slot' \in [user : User \cup {NoUser}, id : MsgId \cup {0}, live : BOOLEAN, counter : Nat]
        /\ slot'.user \in User /\ slot'.id \in MsgId /\ slot'.counter # 0
    <3> HIDE DEF m, u
    <3> QED
      BY <1>0, <2>1, <2>2, EngineConstantsOK DEF EngineTyped
  <2>5. EngineTyped' /\ PoolsPrioritised'
    BY <1>0, <1>3 DEF ScanSends, engine, EngineTyped, Base, PoolsPrioritised
  <2>6. RestTyped'
    <3> HIDE DEF m, u
    <3> QED
      BY <1>0, <1>3, <2>3, <2>4 DEF ScanSends, RestTyped, flags
  <2>7. Moves
    BY <1>3, LeaveMoves DEF ScanSends, Label
  <2>8. SlotInUse'
    BY <1>3, <2>4, <2>7 DEF ScanSends, SlotInUse, Moves, Base
  <2> QED
    BY <2>5, <2>6, <2>7, <2>8 DEF Base, TypeOK, EngineTyped, Moves, ThreadsTyped, RestTyped
<1> QED
  BY <1>1, <1>2, <1>3

\* A pool whose messages and marks are replaced by others stays a pool.
LEMMA PoolParts ==
  ASSUME NEW q \in Pool, NEW msgs \in Seq(Message), NEW weight \in Nat, NEW dirty \in BOOLEAN
  PROVE  /\ [msgs |-> msgs, weight |-> weight, dirty |-> dirty] \in Pool
         /\ [q EXCEPT !.msgs = msgs, !.weight = weight] \in Pool
         /\ [q EXCEPT !.weight = weight] \in Pool
         /\ [q EXCEPT !.msgs = msgs, !.dirty = dirty] \in Pool
         /\ q.msgs \in Seq(Message) /\ q.weight \in Nat /\ q.dirty \in BOOLEAN
BY DEF Pool

\* The weight of a user is a number.
LEMMA WeightIsNat == ASSUME NEW w \in Nat PROVE Weight(w + 1) \in Nat
BY DEF Weight

\* The empty pool has its type.
LEMMA EmptyPoolIsPool == EmptyPool \in Pool
<1>1. <<>> \in Seq(Message)
  BY EmptySeq
<1> QED
  BY <1>1 DEF EmptyPool, Pool

\* The callback, until it has the pools: the slot keeps its message.
LEMMA ReportKeepsBase ==
  ASSUME Base, (\E ok \in BOOLEAN : OnSendMsgDone(ok)) \/ Notify
  PROVE  Base'
<1>0. EngineTyped /\ ThreadsTyped /\ RestTyped /\ "sip" \in Thread
  BY TypeParts DEF Base, Thread
<1>1. UNCHANGED engine /\ EngineTyped' /\ PoolsPrioritised'
  BY <1>0 DEF Base, EngineTyped, PoolsPrioritised, OnSendMsgDone, Notify, engine
<1>2. ASSUME NEW ok \in BOOLEAN, OnSendMsgDone(ok) PROVE Base'
  <2>1. CASE ~slot.live /\ pending' = pending - 1 /\ UNCHANGED <<slot, threads, used>>
    <3>1. RestTyped'
      BY <1>0, <1>2, <2>1 DEF OnSendMsgDone, RestTyped, flags, history, threads
    <3>2. Moves
      BY <2>1, StayMoves DEF threads
    <3> QED
      BY <1>1, <2>1, <3>1, <3>2, QuietKeepsBase DEF threads
  <2>2. CASE /\ slot.live /\ ~ok /\ slot.counter > 1
             /\ slot' = [slot EXCEPT !.counter = @ - 1]
             /\ \/ UNCHANGED <<pending, used>>
                \/ Spend("fail") /\ pending' = pending - 1
             /\ UNCHANGED threads
    <3>1. slot.counter - 1 \in Nat /\ slot.counter - 1 # 0
      BY <1>0, <2>2 DEF RestTyped
    <3>2. /\ slot' \in [user : User \cup {NoUser}, id : MsgId \cup {0},
                        live : BOOLEAN, counter : Nat]
          /\ slot'.user = slot.user /\ slot'.id = slot.id /\ slot'.live = slot.live
          /\ slot'.counter # 0
      BY <1>0, <2>2, <3>1 DEF RestTyped
    <3>3. used' \in [Budget -> Nat] /\ pending' \in Nat
      <4>1. CASE UNCHANGED <<pending, used>>
        BY <1>0, <4>1 DEF RestTyped
      <4>2. CASE Spend("fail") /\ pending' = pending - 1
        BY <1>0, <1>2, <4>2, SpendTyped DEF RestTyped, Budget, OnSendMsgDone
      <4> QED
        BY <2>2, <4>1, <4>2
    <3>4. RestTyped'
      BY <1>0, <1>2, <2>2, <3>2, <3>3 DEF OnSendMsgDone, RestTyped, flags, history, threads
    <3>5. SlotInUse'
      BY <2>2, <3>2 DEF Base, SlotInUse, threads
    <3> QED
      BY <1>0, <1>1, <2>2, <3>4, <3>5
         DEF Base, TypeOK, EngineTyped, ThreadsTyped, RestTyped, threads
  <2>3. CASE /\ slot.live /\ (ok \/ slot.counter <= 1)
             /\ slot' = [slot EXCEPT !.counter = @ - 1, !.live = FALSE]
             /\ pending' = pending - 1
             /\ status' = ok
             /\ Leave("sip", "notify", {"msg"})
             /\ UNCHANGED <<target, used>>
    <3>1. slot.counter - 1 \in Nat /\ slot.user \in User /\ slot.id \in MsgId
      BY <1>0, <2>3 DEF RestTyped, Base, SlotInUse
    <3>2. /\ slot' \in [user : User \cup {NoUser}, id : MsgId \cup {0},
                        live : BOOLEAN, counter : Nat]
          /\ slot'.user \in User /\ slot'.id \in MsgId /\ ~slot'.live
      BY <1>0, <2>3, <3>1 DEF RestTyped
    <3>3. pending' \in Nat
      BY <1>0, <1>2, <2>3 DEF RestTyped, OnSendMsgDone
    <3>4. RestTyped'
      BY <1>0, <1>2, <2>3, <3>2, <3>3 DEF OnSendMsgDone, RestTyped, flags, history
    <3>5. ThreadsTyped'
      BY <1>0, <2>3 DEF ThreadsTyped, Leave, Label, Lock
    <3>6. SlotInUse'
      BY <1>0, <2>3, <3>2 DEF Base, SlotInUse, Leave, ThreadsTyped
    <3> QED
      BY <1>1, <3>4, <3>5, <3>6 DEF Base, TypeOK, EngineTyped, ThreadsTyped, RestTyped
  <2> QED
    BY <1>2, <2>1, <2>2, <2>3 DEF OnSendMsgDone
<1>3. CASE Notify
  <2>1. slot.id \in MsgId
    BY <1>3 DEF Notify, Base, SlotInUse
  <2>2. sent' \subseteq MsgId
    BY <1>0, <1>3, <2>1 DEF Notify, RestTyped
  <2>3. RestTyped'
    BY <1>0, <1>3, <2>2 DEF Notify, RestTyped, flags, network
  <2>4. ThreadsTyped'
    BY <1>0, <1>3 DEF Notify, ThreadsTyped, Leave, Label
  <2>5. SlotInUse'
    BY <1>0, <1>3 DEF Base, SlotInUse, Notify, Leave, ThreadsTyped, network
  <2> QED
    BY <1>1, <2>3, <2>4, <2>5 DEF Base, TypeOK, EngineTyped, ThreadsTyped, RestTyped
<1> QED
  BY <1>2, <1>3

\* The callback at the pools.
LEMMA SettleKeepsBase ==
  ASSUME Base, SettleSent \/ SettleFailed \/ MarkFailed
  PROVE  Base'
<1>0. EngineTyped /\ ThreadsTyped /\ RestTyped /\ "sip" \in Thread
  BY TypeParts DEF Base, Thread
<1>1. slot.user \in User /\ pool[slot.user] \in Pool
  BY <1>0 DEF Base, SlotInUse, SettleSent, SettleFailed, MarkFailed, EngineTyped
<1>2. pool[slot.user].msgs \in Seq(Message) /\ pool[slot.user].weight \in Nat
      /\ pool[slot.user].dirty \in BOOLEAN
  BY <1>1 DEF Pool
<1>3. MarkMsg(pool[slot.user].msgs, Uid[slot.id], TRUE) \in Seq(Message)
  <2> DEFINE msgs == pool[slot.user].msgs
             uid == Uid[slot.id]
  <2>1. msgs \in Seq(Message)
    BY <1>2
  <2> HIDE DEF msgs, uid
  <2>2. MarkMsg(msgs, uid, TRUE) \in Seq(Message)
    BY <2>1, MarkMsgKeeps
  <2> QED
    BY <2>2 DEF msgs, uid
<1>4. RestTyped'
  BY <1>0 DEF SettleSent, SettleFailed, MarkFailed, RestTyped, flags, network, history
<1>5. CASE SettleSent
  <2> DEFINE u == slot.user
             rest == RmMessage(MarkMsg(pool[u].msgs, Uid[slot.id], TRUE), Uid[slot.id])
  <2>1. rest \in Seq(Message)
    BY <1>3, RmMessageKeeps
  <2>2. Moves
    BY <1>0, <1>5, LeaveMoves DEF SettleSent, Label, ThreadsTyped
  <2>3. EngineTyped' /\ PoolsPrioritised'
    <3>1. CASE u \notin users
      BY <1>0, <1>5, <3>1 DEF SettleSent, engine, EngineTyped, Base, PoolsPrioritised
    <3>2. CASE u \in users /\ rest = <<>>
      <4>1. /\ users' = users \ {u}
            /\ pool' = [pool EXCEPT ![u] = EmptyPool]
            /\ priority' = WithoutPriority(u)
        BY <1>5, <3>2 DEF SettleSent
      <4>2. /\ WithoutPriority(u) \in Seq(User)
            /\ \A i \in DOMAIN priority :
                 priority[i] # u => \E k \in DOMAIN WithoutPriority(u) :
                                      WithoutPriority(u)[k] = priority[i]
        <5>1. \E i \in DOMAIN priority : priority[i] = u
          BY <3>2 DEF Base, PoolsPrioritised
        <5>2. priority \in Seq(User)
          BY <1>0 DEF EngineTyped
        <5> QED
          BY <5>1, <5>2, WithoutPriorityKeeps, Zenon
      <4> HIDE DEF u
      <4>3. EngineTyped'
        BY <1>0, <4>1, <4>2, EmptyPoolIsPool DEF EngineTyped
      <4>4. PoolsPrioritised'
        BY <4>1, <4>2 DEF Base, PoolsPrioritised
      <4> QED
        BY <4>3, <4>4
    <3>3. CASE u \in users /\ rest # <<>>
      <4>1. /\ pool' = [pool EXCEPT ![u] = [pool[u] EXCEPT !.msgs = rest,
                                                           !.weight = Weight(pool[u].weight + 1)]]
            /\ UNCHANGED <<users, priority>>
        BY <1>0, <1>1, <1>5, <3>3 DEF SettleSent, EngineTyped
      <4>2. [pool[u] EXCEPT !.msgs = rest, !.weight = Weight(pool[u].weight + 1)] \in Pool
        BY <1>1, <1>2, <2>1, PoolParts, WeightIsNat
      <4> HIDE DEF u, rest
      <4> QED
        BY <1>0, <4>1, <4>2 DEF EngineTyped, Base, PoolsPrioritised
    <3> QED
      BY <3>1, <3>2, <3>3
  <2> QED
    BY <1>4, <1>5, <2>2, <2>3, QuietKeepsBase DEF SettleSent, network
<1>6. CASE SettleFailed
  <2>1. EngineTyped' /\ PoolsPrioritised'
    <3>1. CASE slot.user \in users
      <4>1. pool' = [pool EXCEPT ![slot.user] =
                       [pool[slot.user] EXCEPT
                          !.msgs = MarkMsg(pool[slot.user].msgs, Uid[slot.id], TRUE),
                          !.dirty = TRUE]]
        BY <1>0, <1>1, <1>6, <3>1 DEF SettleFailed, EngineTyped
      <4>2. [pool[slot.user] EXCEPT
               !.msgs = MarkMsg(pool[slot.user].msgs, Uid[slot.id], TRUE),
               !.dirty = TRUE] \in Pool
        BY <1>1, <1>3, PoolParts
      <4> QED
        BY <1>0, <1>6, <4>1, <4>2 DEF EngineTyped, SettleFailed, Base, PoolsPrioritised
    <3>2. CASE slot.user \notin users
      BY <1>0, <1>6, <3>2 DEF SettleFailed, EngineTyped, Base, PoolsPrioritised
    <3> QED
      BY <3>1, <3>2
  <2>2. ThreadsTyped' /\ (\A x \in Thread : pc'[x] = "erase" => pc[x] = "erase")
    <3>1. \E l \in {"mark", "restart"}, locks \in SUBSET Lock : Leave("sip", l, locks)
      <4>1. held["sip"] \in SUBSET Lock /\ held["sip"] \cup {"pool"} \in SUBSET Lock
        BY <1>0 DEF ThreadsTyped, Lock
      <4> QED
        BY <1>6, <4>1 DEF SettleFailed
    <3>2. PICK l \in {"mark", "restart"}, locks \in SUBSET Lock : Leave("sip", l, locks)
      BY <3>1
    <3> QED
      BY <1>0, <3>2 DEF Leave, ThreadsTyped, Label
  <2>3. SlotInUse'
    BY <1>6, <2>2 DEF Base, SlotInUse, SettleFailed, network
  <2> QED
    BY <1>4, <2>1, <2>2, <2>3 DEF Base, TypeOK, EngineTyped, ThreadsTyped, RestTyped
<1>7. CASE MarkFailed
  <2>1. MarkUserPoolProcessed(pool[slot.user]) \in Pool
    BY <1>1, <1>2, MarkAllKeeps, PoolParts, EngineConstantsOK DEF MarkUserPoolProcessed
  <2>2. pool' \in [User -> Pool] /\ UNCHANGED <<users, priority>>
    BY <1>0, <1>1, <1>7, <2>1 DEF MarkFailed, EngineTyped
  <2>3. EngineTyped' /\ PoolsPrioritised'
    BY <1>0, <2>2 DEF EngineTyped, Base, PoolsPrioritised
  <2>4. Moves
    <3>1. held["sip"] \ {"pool"} \in SUBSET Lock
      BY <1>0 DEF ThreadsTyped
    <3> QED
      BY <1>0, <1>7, <3>1, LeaveMoves DEF MarkFailed, Label
  <2> QED
    BY <1>4, <1>7, <2>3, <2>4, QuietKeepsBase DEF MarkFailed, network
<1> QED
  BY <1>5, <1>6, <1>7

\* Messages sent again, because the buddy is back or the application asks for it.
LEMMA AgainKeepsBase ==
  ASSUME Base, NEW t \in Thread, NEW u \in User, NEW uid,
         (t = "sip" /\ BuddyOnline(u)) \/ ResendMessage(t, u, uid)
  PROVE  Base'
<1>0. EngineTyped /\ ThreadsTyped /\ RestTyped
  BY TypeParts DEF Base
<1>1. \A w \in User : pool[w] \in Pool
  BY <1>0 DEF EngineTyped
<1>2. CASE t = "sip" /\ BuddyOnline(u)
  <2>1. MarkUserPoolAsClean(pool[u]) \in Pool
    BY <1>1, MarkAllKeeps, PoolParts DEF MarkUserPoolAsClean, Pool
  <2>2. EngineTyped' /\ PoolsPrioritised'
    BY <1>0, <1>2, <2>1 DEF EngineTyped, BuddyOnline, Base, PoolsPrioritised
  <2>3. RestTyped'
    BY <1>0, <1>2, SpendTyped DEF BuddyOnline, RestTyped, Budget, flags, network, history
  <2>4. Moves
    BY <1>2, LeaveMoves DEF BuddyOnline, Label, Lock
  <2> QED
    BY <1>2, <2>2, <2>3, <2>4, QuietKeepsBase DEF BuddyOnline, network
<1>3. CASE ResendMessage(t, u, uid)
  <2>1. MarkMsg(pool[u].msgs, uid, FALSE) \in Seq(Message)
    BY <1>1, MarkMsgKeeps DEF Pool
  <2>2. [msgs |-> MarkMsg(pool[u].msgs, uid, FALSE), weight |-> 0, dirty |-> FALSE] \in Pool
    BY <2>1, PoolParts, <1>1
  <2>3. \A w \in User : [pool[w] EXCEPT !.weight = Weight(pool[w].weight + 1)] \in Pool
    <3> TAKE w \in User
    <3>1. pool[w] \in Pool /\ pool[w].weight \in Nat
      BY <1>1 DEF Pool
    <3>2. Weight(pool[w].weight + 1) \in Nat
      BY <3>1, WeightIsNat
    <3> QED
      BY <3>1, <3>2 DEF Pool
  <2>4. pool' \in [User -> Pool]
    BY <1>1, <1>3, <2>2, <2>3 DEF ResendMessage
  <2>5. EngineTyped' /\ PoolsPrioritised'
    BY <1>0, <1>3, <2>4 DEF EngineTyped, ResendMessage, Base, PoolsPrioritised
  <2>6. RestTyped'
    BY <1>0, <1>3, SpendTyped DEF ResendMessage, RestTyped, Budget, flags, network, history
  <2>7. Moves
    BY <1>3, LeaveMoves DEF ResendMessage, Label, Lock
  <2> QED
    BY <1>3, <2>5, <2>6, <2>7, QuietKeepsBase DEF ResendMessage, network
<1> QED
  BY <1>2, <1>3

\* A removal: the transport first, then the pool.
LEMMA RemovalKeepsBase ==
  ASSUME Base, NEW t \in Thread, NEW u \in User, RemoveMessages(t, u) \/ Erase(t)
  PROVE  Base'
<1>0. EngineTyped /\ ThreadsTyped /\ RestTyped
  BY TypeParts DEF Base
<1>1. CASE RemoveMessages(t, u)
  <2>1. /\ slot' \in [user : User \cup {NoUser}, id : MsgId \cup {0},
                      live : BOOLEAN, counter : Nat]
        /\ slot'.user = slot.user /\ slot'.id = slot.id
        /\ slot'.live => slot.live /\ slot'.counter = slot.counter
    BY <1>0, <1>1 DEF RemoveMessages, RestTyped
  <2>2. target' \in [Thread -> User \cup {NoUser}] /\ target'[t] = u
        /\ \A x \in Thread : x # t => target'[x] = target[x]
    BY <1>0, <1>1 DEF RemoveMessages, RestTyped
  <2>3. RestTyped'
    BY <1>0, <1>1, <2>1, <2>2, SpendTyped DEF RemoveMessages, RestTyped, Budget, flags, history
  <2>4. ThreadsTyped' /\ \A x \in Thread : pc'[x] = IF x = t THEN "erase" ELSE pc[x]
    BY <1>0, <1>1 DEF RemoveMessages, Leave, ThreadsTyped, Label
  <2>5. SlotInUse'
    BY <1>1, <2>1, <2>2, <2>4 DEF Base, SlotInUse, Thread
  <2>6. EngineTyped' /\ PoolsPrioritised'
    BY <1>0, <1>1 DEF RemoveMessages, engine, EngineTyped, Base, PoolsPrioritised
  <2> QED
    BY <2>3, <2>4, <2>5, <2>6 DEF Base, TypeOK, EngineTyped, ThreadsTyped, RestTyped
<1>2. CASE Erase(t)
  <2>1. target[t] \in User
    BY <1>2 DEF Erase, Base, SlotInUse
  <2>2. /\ users' = users \ {target[t]}
        /\ pool' = [pool EXCEPT ![target[t]] = EmptyPool]
        /\ UNCHANGED priority
    BY <1>2 DEF Erase
  <2>3. EngineTyped' /\ PoolsPrioritised'
    BY <1>0, <2>1, <2>2, EmptyPoolIsPool DEF EngineTyped, Base, PoolsPrioritised
  <2>4. removed' \subseteq MsgId
    <3>1. pool[target[t]].msgs \in Seq(Message)
      BY <1>0, <2>1 DEF EngineTyped, Pool
    <3>2. \A i \in DOMAIN pool[target[t]].msgs : pool[target[t]].msgs[i] \in Message
      BY <3>1, ElementOfSeq, LenProperties
    <3>3. \A i \in DOMAIN pool[target[t]].msgs : pool[target[t]].msgs[i].id \in MsgId
      BY <3>2 DEF Message
    <3> QED
      BY <1>0, <1>2, <3>3 DEF Erase, RestTyped
  <2>5. RestTyped'
    BY <1>0, <1>2, <2>4 DEF Erase, RestTyped, flags, network
  <2>6. Moves
    BY <1>2, LeaveMoves DEF Erase, Label, Lock
  <2> QED
    BY <1>2, <2>3, <2>5, <2>6, QuietKeepsBase DEF Erase, network
<1> QED
  BY <1>1, <1>2

\* What Next allows, without the quantifiers that the proofs have no use for.
LEMMA BaseStep == Base /\ [Next]_vars => Base'
<1> SUFFICES ASSUME Base, [Next]_vars PROVE Base'
  OBVIOUS
<1>0. "sip" \in Thread /\ App \subseteq Thread
  BY DEF Thread
<1>1. ASSUME NEW t \in Thread, Run(t) PROVE Base'
  <2>1. CASE Erase(t)
    <3>1. target[t] \in User
      BY <2>1 DEF Erase, Base, SlotInUse
    <3> QED
      BY <2>1, <3>1, RemovalKeepsBase
  <2> QED
    BY <1>1, <2>1, AddingKeepsBase, ControlKeepsBase, LoopKeepsBase DEF Run
<1>2. ASSUME NEW t \in App, Call(t) PROVE Base'
  BY <1>0, <1>2, AddingKeepsBase, ControlKeepsBase, AgainKeepsBase, RemovalKeepsBase DEF Call
<1>3. ASSUME NEW u \in User, AddMessage("sip", u) \/ BuddyOnline(u) PROVE Base'
  BY <1>0, <1>3, AddingKeepsBase, AgainKeepsBase
<1>4. CASE Callback \/ Report
  BY <1>0, <1>4, ReportKeepsBase, SettleKeepsBase, ControlKeepsBase DEF Callback, Report
<1>5. CASE StopSIPStack \/ StartSIPStack
  BY <1>0, <1>5, ControlKeepsBase
<1>6. CASE UNCHANGED vars
  <2>1. Moves
    BY <1>6, StayMoves DEF vars, threads
  <2> QED
    BY <1>6, <2>1, QuietKeepsBase, TypeParts
       DEF vars, engine, flags, threads, network, history, Base, EngineTyped, RestTyped,
           PoolsPrioritised
<1> QED
  BY <1>1, <1>2, <1>3, <1>4, <1>5, <1>6 DEF Next

\* The types and the order of the pools hold of every state.
THEOREM SpecBase == Spec => []Base
  BY BaseInit, BaseStep, PTL DEF Spec

\* Every variable has its type, whatever the threads do.
THEOREM SpecTypeOK == Spec => []TypeOK
  BY SpecBase, PTL DEF Base

\* No pool drops out of the sending order: sorting permutes priority_, and its
\* entry is erased only with the last message of the pool.
THEOREM SpecPoolsPrioritised == Spec => []PoolsPrioritised
  BY SpecBase, PTL DEF Base

-----------------------------------------------------------------------------
(***************************************************************************)
(* One task at a time: what each section holds, and what started_ keeps    *)
(* apart.                                                                  *)
(***************************************************************************)
Callbacks == {"notify", "settle", "mark", "restart"}
Sections == {"send", "scan", "stop"}

\* The worker inside its callback, and a thread inside sendMessage.
Working == pc["sip"] \in Callbacks
Engaged(t) == pc[t] \in Sections

\* The locks t has at l; only the worker enters sendMessage with msgLock_.
Fits(t, l, locks) ==
  /\ "started" \in locks <=> l \in Sections
  /\ "pool" \in locks <=> l \in {"scan", "mark"}
  /\ "db" \in locks <=> l = "sync"
  /\ "msg" \in locks => t = "sip" /\ l \in Callbacks \cup Sections
  /\ l \in Callbacks => t = "sip" /\ "msg" \in locks

HeldOK == \A t \in Thread : Fits(t, pc[t], held[t])

\* A lock has one owner.
Mutex == \A t, x \in Thread : t # x => held[t] \cap held[x] = {}

\* An open request, a message in the slot and the worker's callback all mean
\* that the engine runs and that no thread is inside sendMessage.
OneTask ==
  /\ pending <= 1
  /\ pending = 1 \/ slot.live =>
       started /\ ~Working /\ \A t \in Thread : ~Engaged(t)
  /\ Working => started /\ \A t \in Thread : ~Engaged(t)
  /\ \A t \in Thread : Engaged(t) => started

Locking == HeldOK /\ Mutex

Control == Base /\ Locking /\ OneTask

\* Leave, thread by thread.
LEMMA LeaveIs ==
  ASSUME Base, NEW t \in Thread, NEW l, NEW locks, Leave(t, l, locks)
  PROVE  \A x \in Thread : /\ pc'[x] = IF x = t THEN l ELSE pc[x]
                           /\ held'[x] = IF x = t THEN locks ELSE held[x]
BY TypeParts DEF Base, ThreadsTyped, Leave

\* A thread that waits for the locks it takes keeps their single ownership.
LEMMA LeaveLocking ==
  ASSUME Base, Locking, NEW t \in Thread, NEW l, NEW locks,
         Leave(t, l, locks), Fits(t, l, locks),
         \A lock \in locks \ held[t] : Free(t, lock)
  PROVE  Locking'
<1>1. \A x \in Thread : /\ pc'[x] = IF x = t THEN l ELSE pc[x]
                        /\ held'[x] = IF x = t THEN locks ELSE held[x]
  BY LeaveIs
<1>2. HeldOK'
  <2> SUFFICES ASSUME NEW x \in Thread PROVE Fits(x, pc'[x], held'[x])
    BY DEF HeldOK
  <2> QED
    BY <1>1 DEF Locking, HeldOK
<1>3. Mutex'
  <2>1. \A x \in Thread \ {t} : locks \cap held[x] = {}
    BY DEF Locking, Mutex, Free
  <2> QED
    BY <1>1, <2>1 DEF Locking, Mutex
<1> QED
  BY <1>2, <1>3 DEF Locking

\* Steps that leave the locks alone keep who holds them.
LEMMA StayLocking ==
  ASSUME Locking, UNCHANGED <<pc, held>>
  PROVE  Locking'
BY DEF Locking, HeldOK, Mutex, Fits

\* The locks a thread keeps when it takes or gives back one.
LEMMA FitsHeld == ASSUME Locking, NEW t \in Thread PROVE Fits(t, pc[t], held[t])
BY DEF Locking, HeldOK

\* Calls of the application, and the first steps of the others.
LEMMA CallLocking ==
  ASSUME Base, Locking, NEW t \in Thread, NEW u, NEW done, NEW uid, NEW enabled,
         \/ AddMessage(t, u) \/ SyncBegin(t) \/ SyncAdd(t, u, done) \/ StartEngine(t)
         \/ RemoveMessages(t, u) \/ Erase(t) \/ (t = "sip" /\ BuddyOnline(u))
         \/ ResendMessage(t, u, uid) \/ SetAutoResendEnabled(t, enabled)
  PROVE  Locking'
<1>1. Fits(t, "idle", {}) /\ Fits(t, "start", {}) /\ Fits(t, "erase", {})
      /\ Fits(t, "sync", {"db"}) /\ Fits(t, "send", {"started"})
  BY DEF Fits, Callbacks, Sections
<1>2. CASE AddMessage(t, u) \/ ResendMessage(t, u, uid) \/ (t = "sip" /\ BuddyOnline(u))
  <2>1. Leave(t, "start", {})
    BY <1>2 DEF AddMessage, ResendMessage, BuddyOnline
  <2> QED
    BY <1>1, <2>1, LeaveLocking
<1>3. CASE SyncBegin(t)
  BY <1>1, <1>3, LeaveLocking DEF SyncBegin
<1>4. CASE SyncAdd(t, u, done)
  BY <1>1, <1>4, LeaveLocking, StayLocking DEF SyncAdd
<1>5. CASE StartEngine(t)
  <2>1. CASE Leave(t, "idle", {})
    BY <1>1, <2>1, LeaveLocking
  <2>2. CASE Leave(t, "send", {"started"}) /\ Free(t, "started")
    BY <1>1, <2>2, LeaveLocking
  <2> QED
    BY <1>5, <2>1, <2>2 DEF StartEngine
<1>6. CASE RemoveMessages(t, u)
  BY <1>1, <1>6, LeaveLocking DEF RemoveMessages
<1>7. CASE Erase(t)
  BY <1>1, <1>7, LeaveLocking DEF Erase
<1>8. CASE SetAutoResendEnabled(t, enabled)
  BY <1>1, <1>8, LeaveLocking DEF SetAutoResendEnabled
<1> QED
  BY <1>2, <1>3, <1>4, <1>5, <1>6, <1>7, <1>8

\* sendMessage, under startedLock_.
LEMMA LoopLocking ==
  ASSUME Base, Locking, NEW t \in Thread,
         SortMessages(t) \/ ScanGivesUp(t) \/ ScanSends(t) \/ ScanEnds(t) \/ Stop(t)
  PROVE  Locking'
<1>1. Fits(t, pc[t], held[t])
  BY FitsHeld
<1>2. CASE SortMessages(t)
  <2>1. Fits(t, "scan", held[t] \cup {"pool"})
    BY <1>1, <1>2 DEF SortMessages, Fits, Callbacks, Sections
  <2> QED
    BY <1>2, <2>1, LeaveLocking DEF SortMessages
<1>3. CASE ScanGivesUp(t)
  BY <1>3, StayLocking DEF ScanGivesUp, threads
<1>4. CASE ScanSends(t) \/ Stop(t)
  <2>1. Fits(t, "idle", {}) /\ Leave(t, "idle", {})
    BY <1>4 DEF ScanSends, Stop, Fits, Callbacks, Sections
  <2> QED
    BY <2>1, LeaveLocking
<1>5. CASE ScanEnds(t)
  <2>1. Fits(t, "stop", held[t] \ {"pool"})
    BY <1>1, <1>5 DEF ScanEnds, Fits, Callbacks, Sections
  <2> QED
    BY <1>5, <2>1, LeaveLocking DEF ScanEnds
<1> QED
  BY <1>2, <1>3, <1>4, <1>5

\* The worker's callback, under msgLock_.
LEMMA CallbackLocking ==
  ASSUME Base, Locking, (\E ok \in BOOLEAN : OnSendMsgDone(ok)) \/ Callback
  PROVE  Locking'
<1>0. "sip" \in Thread
  BY DEF Thread
<1>1. Fits("sip", pc["sip"], held["sip"])
  BY <1>0, FitsHeld
<1>2. ASSUME NEW ok \in BOOLEAN, OnSendMsgDone(ok) PROVE Locking'
  <2>1. CASE UNCHANGED threads
    BY <2>1, StayLocking DEF threads
  <2>2. CASE Leave("sip", "notify", {"msg"})
    <3>1. Fits("sip", "notify", {"msg"}) /\ Free("sip", "msg")
      BY <1>2 DEF Fits, Callbacks, Sections, OnSendMsgDone
    <3> QED
      BY <1>0, <2>2, <3>1, LeaveLocking
  <2> QED
    BY <1>2, <2>1, <2>2 DEF OnSendMsgDone
<1>3. CASE Notify \/ SettleSent
  <2> DEFINE l == IF Notify THEN "settle" ELSE "restart"
  <2>1. Leave("sip", l, held["sip"])
    BY <1>3 DEF Notify, SettleSent
  <2>2. Fits("sip", l, held["sip"])
    BY <1>1, <1>3 DEF Notify, SettleSent, Fits, Callbacks, Sections
  <2> HIDE DEF l
  <2> QED
    BY <1>0, <2>1, <2>2, LeaveLocking
<1>4. CASE SettleFailed
  <2>1. Fits("sip", "mark", held["sip"] \cup {"pool"}) /\ Fits("sip", "restart", held["sip"])
    BY <1>1, <1>4 DEF SettleFailed, Fits, Callbacks, Sections
  <2>2. Free("sip", "pool")
    BY <1>4 DEF SettleFailed
  <2>3. CASE Leave("sip", "mark", held["sip"] \cup {"pool"})
    BY <1>0, <2>1, <2>2, <2>3, LeaveLocking
  <2>4. CASE Leave("sip", "restart", held["sip"])
    BY <1>0, <2>1, <2>4, LeaveLocking
  <2> QED
    BY <1>4, <2>3, <2>4 DEF SettleFailed
<1>5. CASE MarkFailed
  <2>1. Fits("sip", "restart", held["sip"] \ {"pool"})
    BY <1>1, <1>5 DEF MarkFailed, Fits, Callbacks, Sections
  <2> QED
    BY <1>0, <1>5, <2>1, LeaveLocking DEF MarkFailed
<1>6. CASE Restart
  <2>1. Fits("sip", "send", held["sip"] \cup {"started"})
    BY <1>1, <1>6 DEF Restart, Fits, Callbacks, Sections
  <2> QED
    BY <1>0, <1>6, <2>1, LeaveLocking DEF Restart
<1> QED
  BY <1>2, <1>3, <1>4, <1>5, <1>6 DEF Callback

\* startedLock_ lets one thread into sendMessage.
LEMMA OneEngaged ==
  ASSUME Locking, NEW t \in Thread, NEW x \in Thread, Engaged(t), Engaged(x)
  PROVE  t = x
<1>1. "started" \in held[t] /\ "started" \in held[x]
  BY FitsHeld DEF Fits, Engaged
<1> QED
  BY <1>1 DEF Locking, Mutex

\* A step that opens no request and enters neither sendMessage nor a callback.
LEMMA QuietOneTask ==
  ASSUME OneTask, pending \in Nat, pending' \in Nat, pending' <= pending,
         slot'.live => slot.live, UNCHANGED started, Working' => Working,
         \A t \in Thread : Engaged(t)' => Engaged(t)
  PROVE  OneTask'
BY DEF OneTask

\* A thread that goes where sendMessage is not, or stays in it.
LEMMA LeaveQuietly ==
  ASSUME Base, NEW t \in Thread, NEW l, NEW locks, Leave(t, l, locks),
         l \in Callbacks => pc[t] \in Callbacks,
         l \in Sections => pc[t] \in Sections
  PROVE  /\ Working' => Working
         /\ \A x \in Thread : Engaged(x)' => Engaged(x)
<1>1. \A x \in Thread : pc'[x] = IF x = t THEN l ELSE pc[x]
  BY LeaveIs
<1> QED
  BY <1>1 DEF Working, Engaged, Thread

\* The types that the steps below use.
LEMMA PendingTyped ==
  ASSUME Base
  PROVE  pending \in Nat /\ slot.live \in BOOLEAN /\ started \in BOOLEAN /\ "sip" \in Thread
BY DEF Base, TypeOK, Thread

\* The calls of the application.
LEMMA CallOneTask ==
  ASSUME Control, Base', NEW t \in Thread, NEW u, NEW done, NEW uid, NEW enabled,
         \/ AddMessage(t, u) \/ SyncBegin(t) \/ SyncAdd(t, u, done)
         \/ RemoveMessages(t, u) \/ Erase(t) \/ (t = "sip" /\ BuddyOnline(u))
         \/ ResendMessage(t, u, uid) \/ SetAutoResendEnabled(t, enabled)
  PROVE  OneTask'
<1>1. Base /\ OneTask /\ pending \in Nat
  BY PendingTyped DEF Control
<1>2. UNCHANGED <<pending, started>>
  BY DEF AddMessage, SyncBegin, SyncAdd, RemoveMessages, Erase, BuddyOnline, ResendMessage,
         SetAutoResendEnabled, network, flags
<1>3. slot'.live => slot.live
  <2>1. CASE RemoveMessages(t, u)
    <3>1. slot' = slot \/ slot' = [slot EXCEPT !.live = FALSE]
      BY <2>1 DEF RemoveMessages
    <3> QED
      BY <1>1, <3>1 DEF Base, TypeOK
  <2>2. CASE UNCHANGED slot
    BY <2>2
  <2> QED
    BY <2>1, <2>2
       DEF AddMessage, SyncBegin, SyncAdd, Erase, BuddyOnline, ResendMessage,
           SetAutoResendEnabled, network
<1>4. \/ UNCHANGED pc
      \/ \E l \in {"start", "sync", "idle", "erase"}, locks \in {{}, {"db"}} :
           Leave(t, l, locks)
  BY DEF AddMessage, SyncBegin, SyncAdd, RemoveMessages, Erase, BuddyOnline, ResendMessage,
         SetAutoResendEnabled
<1>5. (Working' => Working) /\ \A x \in Thread : Engaged(x)' => Engaged(x)
  <2>1. CASE UNCHANGED pc
    BY <2>1 DEF Working, Engaged
  <2>2. ASSUME NEW l \in {"start", "sync", "idle", "erase"}, NEW locks, Leave(t, l, locks)
        PROVE  (Working' => Working) /\ \A x \in Thread : Engaged(x)' => Engaged(x)
    BY <1>1, <2>2, LeaveQuietly DEF Callbacks, Sections
  <2> QED
    BY <1>4, <2>1, <2>2
<1> QED
  BY <1>1, <1>2, <1>3, <1>5, QuietOneTask

\* startEngine and sendMessage: started_ is set before the one thread enters,
\* and reset when it leaves without a request.
LEMMA LoopOneTask ==
  ASSUME Control, Base', NEW t \in Thread,
         \/ StartEngine(t) \/ SortMessages(t) \/ ScanGivesUp(t) \/ ScanSends(t)
         \/ ScanEnds(t) \/ Stop(t)
  PROVE  OneTask'
<1>1. Base /\ OneTask /\ Locking /\ pending \in Nat /\ started \in BOOLEAN
      /\ slot.live \in BOOLEAN /\ "sip" \in Thread
  BY PendingTyped DEF Control
<1>2. CASE StartEngine(t)
  <2>1. UNCHANGED <<pending, slot>>
    BY <1>2 DEF StartEngine, network
  <2>2. CASE Leave(t, "idle", {}) /\ started' = started
    BY <1>1, <2>1, <2>2, LeaveQuietly, QuietOneTask DEF Callbacks, Sections
  <2>3. CASE Leave(t, "send", {"started"}) /\ ~started /\ started'
    <3>1. \A x \in Thread : pc'[x] = IF x = t THEN "send" ELSE pc[x]
      BY <1>1, <2>3, LeaveIs
    <3>2. ~Working' /\ pending' = 0 /\ ~slot'.live
      BY <1>1, <2>1, <2>3, <3>1 DEF OneTask, Working, Callbacks
    <3> QED
      BY <2>3, <3>2 DEF OneTask
  <2> QED
    BY <1>1, <1>2, <2>2, <2>3 DEF StartEngine
<1>3. CASE SortMessages(t) \/ ScanEnds(t)
  <2>1. PICK l \in {"scan", "stop"} : \E locks : Leave(t, l, locks)
    BY <1>3 DEF SortMessages, ScanEnds
  <2>2. pc[t] \in Sections /\ UNCHANGED <<pending, slot, started>>
    BY <1>3 DEF SortMessages, ScanEnds, Sections, network, flags
  <2> QED
    BY <1>1, <2>1, <2>2, LeaveQuietly, QuietOneTask DEF Callbacks, Sections
<1>4. CASE ScanGivesUp(t)
  BY <1>1, <1>4, QuietOneTask DEF ScanGivesUp, threads, network, flags, Working, Engaged
<1>5. CASE ScanSends(t) \/ Stop(t)
  <2>1. Engaged(t)
    BY <1>5 DEF ScanSends, Stop, Engaged, Sections
  <2>2. pending = 0 /\ ~slot.live /\ ~Working /\ started
    BY <1>1, <2>1 DEF OneTask
  <2>3. \A x \in Thread : pc'[x] = IF x = t THEN "idle" ELSE pc[x]
    BY <1>1, <1>5, LeaveIs DEF ScanSends, Stop
  <2>4. \A x \in Thread : ~Engaged(x)'
    BY <1>1, <2>1, <2>3, OneEngaged DEF Engaged, Sections
  <2>5. ~Working'
    BY <1>1, <2>2, <2>3 DEF Working, Callbacks
  <2>6. CASE ScanSends(t)
    <3>1. started' /\ pending' <= 1
      BY <1>1, <2>2, <2>6 DEF ScanSends, SendMsg, flags
    <3> QED
      BY <2>4, <2>5, <3>1 DEF OneTask
  <2>7. CASE Stop(t)
    <3>1. UNCHANGED <<pending, slot>>
      BY <2>7 DEF Stop, network
    <3> QED
      BY <2>2, <2>4, <2>5, <3>1 DEF OneTask
  <2> QED
    BY <1>5, <2>6, <2>7
<1> QED
  BY <1>2, <1>3, <1>4, <1>5

\* The worker: a callback begins when the request and the slot are done with.
LEMMA CallbackOneTask ==
  ASSUME Control, Base', (\E ok \in BOOLEAN : OnSendMsgDone(ok)) \/ Callback
  PROVE  OneTask'
<1>1. Base /\ OneTask /\ Locking /\ pending \in Nat /\ started \in BOOLEAN
      /\ slot.live \in BOOLEAN /\ "sip" \in Thread /\ pending' \in Nat
  BY PendingTyped DEF Control, Base, TypeOK
<1>2. ASSUME NEW ok \in BOOLEAN, OnSendMsgDone(ok) PROVE OneTask'
  <2>1. UNCHANGED started /\ pending > 0 /\ pc["sip"] = "idle"
    BY <1>2 DEF OnSendMsgDone, flags
  <2>2. CASE UNCHANGED threads
    <3>1. slot'.live => slot.live
      <4>1. \/ slot' = slot \/ slot' = [slot EXCEPT !.counter = @ - 1]
            \/ slot' = [slot EXCEPT !.counter = @ - 1, !.live = FALSE]
        BY <1>2 DEF OnSendMsgDone
      <4> QED
        BY <1>1, <4>1 DEF Base, TypeOK
    <3>2. pending' <= pending
      BY <1>1, <1>2 DEF OnSendMsgDone
    <3> QED
      BY <1>1, <2>1, <2>2, <3>1, <3>2, QuietOneTask DEF threads, Working, Engaged
  <2>3. CASE /\ slot.live
             /\ slot' = [slot EXCEPT !.counter = @ - 1, !.live = FALSE]
             /\ pending' = pending - 1
             /\ Leave("sip", "notify", {"msg"})
    <3>1. started /\ pending = 1 /\ \A t \in Thread : ~Engaged(t)
      BY <1>1, <2>1, <2>3 DEF OneTask
    <3>2. \A x \in Thread : pc'[x] = IF x = "sip" THEN "notify" ELSE pc[x]
      BY <1>1, <2>3, LeaveIs
    <3>3. ~slot'.live /\ pending' = 0
      BY <1>1, <2>3, <3>1 DEF Base, TypeOK
    <3>4. \A t \in Thread : ~Engaged(t)'
      BY <3>1, <3>2 DEF Engaged, Sections
    <3> QED
      BY <2>1, <3>1, <3>3, <3>4 DEF OneTask
  <2> QED
    BY <1>2, <2>2, <2>3 DEF OnSendMsgDone
<1>3. CASE Notify \/ SettleSent \/ SettleFailed \/ MarkFailed
  <2>1. UNCHANGED <<pending, slot, started>> /\ pc["sip"] \in Callbacks
    BY <1>3 DEF Notify, SettleSent, SettleFailed, MarkFailed, network, flags, Callbacks
  <2>2. PICK l \in Callbacks : \E locks : Leave("sip", l, locks)
    BY <1>3 DEF Notify, SettleSent, SettleFailed, MarkFailed, Callbacks
  <2> QED
    BY <1>1, <2>1, <2>2, LeaveQuietly, QuietOneTask DEF Callbacks, Sections
<1>4. CASE Restart
  <2>1. UNCHANGED <<pending, slot, started>> /\ Working
    BY <1>4 DEF Restart, network, flags, Working, Callbacks
  <2>2. pending = 0 /\ ~slot.live /\ started /\ \A t \in Thread : ~Engaged(t)
    BY <1>1, <2>1 DEF OneTask
  <2>3. ~Working'
    BY <1>1, <1>4, LeaveIs DEF Restart, Working, Callbacks
  <2> QED
    BY <2>1, <2>2, <2>3 DEF OneTask
<1> QED
  BY <1>2, <1>3, <1>4 DEF Callback

\* Nobody holds a lock at first.
LEMMA ControlInit == Init => Control
<1> SUFFICES ASSUME Init PROVE Control
  OBVIOUS
<1>1. Locking
  BY DEF Init, Locking, HeldOK, Mutex, Fits, Callbacks, Sections
<1>2. OneTask
  BY DEF Init, OneTask, Working, Engaged, Callbacks, Sections, Thread
<1> QED
  BY <1>1, <1>2, BaseInit DEF Control

\* Every step keeps who holds the locks.
LEMMA ControlStep == Control /\ [Next]_vars => Control'
<1> SUFFICES ASSUME Control, [Next]_vars PROVE Control'
  OBVIOUS
<1>0. "sip" \in Thread /\ App \subseteq Thread /\ Base /\ Base'
  BY BaseStep DEF Thread, Control
<1>1. ASSUME NEW t \in Thread, Run(t) PROVE Locking' /\ OneTask'
  <2>1. CASE \/ StartEngine(t) \/ SortMessages(t) \/ ScanGivesUp(t) \/ ScanSends(t)
             \/ ScanEnds(t) \/ Stop(t)
    BY <1>0, <2>1, CallLocking, LoopLocking, LoopOneTask DEF Control
  <2>2. CASE Erase(t) \/ \E u \in User, done \in BOOLEAN : SyncAdd(t, u, done)
    BY <1>0, <2>2, CallLocking, CallOneTask DEF Control
  <2> QED
    BY <1>1, <2>1, <2>2 DEF Run
<1>2. ASSUME NEW t \in App, Call(t) PROVE Locking' /\ OneTask'
  BY <1>0, <1>2, CallLocking, CallOneTask DEF Call, Control
<1>3. ASSUME NEW u \in User, AddMessage("sip", u) \/ BuddyOnline(u)
      PROVE  Locking' /\ OneTask'
  BY <1>0, <1>3, CallLocking, CallOneTask DEF Control
<1>4. CASE Callback \/ Report
  BY <1>0, <1>4, CallbackLocking, CallbackOneTask DEF Report, Control
<1>5. CASE StopSIPStack \/ StartSIPStack \/ UNCHANGED vars
  <2>1. UNCHANGED <<threads, slot, started>>
    BY <1>5 DEF StopSIPStack, StartSIPStack, vars, flags, network
  <2>2. pending \in Nat /\ pending' \in Nat /\ pending' <= pending
    BY <1>0, <1>5, PendingTyped DEF StopSIPStack, StartSIPStack, vars, network
  <2>3. OneTask'
    BY <2>1, <2>2, QuietOneTask DEF threads, Control, Working, Engaged
  <2> QED
    BY <1>0, <2>1, <2>3, StayLocking DEF threads, Control
<1> QED
  BY <1>0, <1>1, <1>2, <1>3, <1>4, <1>5 DEF Next, Control

\* Who holds which lock, and that one task is in flight at most, in every state.
THEOREM SpecControl == Spec => []Control
  BY ControlInit, ControlStep, PTL DEF Spec

\* One request at most is open, and the slot's message is not overwritten: a
\* status is always that of the message in the slot.
THEOREM SpecOneInFlight == Spec => []OneInFlight
<1>1. Control => OneInFlight
  BY DEF Control, OneTask, OneInFlight
<1> QED
  BY <1>1, SpecControl, PTL

-----------------------------------------------------------------------------
(***************************************************************************)
(* Deadlocks.  A pass over the databases takes dbConnLock_ before          *)
(* userPoolLock_ and the other threads after it, so the claim is about an  *)
(* application that runs none while messages are under way.                *)
(***************************************************************************)
NoSync == \A t \in Thread : pc[t] # "sync"

\* Without synchronous sends no thread is in one.
LEMMA NoSyncStep ==
  ASSUME Bound["sync"] = 0
  PROVE  Control /\ NoSync /\ [Next]_vars => NoSync'
<1> SUFFICES ASSUME Control, NoSync, [Next]_vars PROVE NoSync'
  OBVIOUS
<1>0. Base /\ "sip" \in Thread /\ App \subseteq Thread
  BY DEF Control, Thread
<1>1. UNCHANGED pc \/ \E locks : \E t \in Thread, l \in Label \ {"sync"} : Leave(t, l, locks)
  <2>1. ASSUME NEW t \in Thread, Run(t)
        PROVE  UNCHANGED pc \/ \E locks : \E l \in Label \ {"sync"} : Leave(t, l, locks)
    BY <2>1 DEF Run, StartEngine, SortMessages, ScanGivesUp, ScanSends, ScanEnds, Stop, Erase,
            SyncAdd, Label, threads
  <2>2. ASSUME NEW t \in App, Call(t)
        PROVE  UNCHANGED pc \/ \E locks : \E l \in Label \ {"sync"} : Leave(t, l, locks)
    <3>1. ~SyncBegin(t)
      <4>1. used["sync"] \in Nat
        BY <1>0 DEF Base, TypeOK, Budget
      <4> QED
        BY <4>1 DEF SyncBegin, Spend
    <3> QED
      BY <2>2, <3>1 DEF Call, AddMessage, RemoveMessages, ResendMessage,
              SetAutoResendEnabled, Label
  <2>3. ASSUME NEW u \in User, AddMessage("sip", u) \/ BuddyOnline(u)
        PROVE  Leave("sip", "start", {})
    BY <2>3 DEF AddMessage, BuddyOnline
  <2>4. ASSUME Callback \/ Report
        PROVE  UNCHANGED pc \/ \E locks : \E l \in Label \ {"sync"} : Leave("sip", l, locks)
    BY <2>4 DEF Callback, Notify, SettleSent, SettleFailed, MarkFailed, Restart, Report,
            OnSendMsgDone, Label, threads
  <2>5. CASE StopSIPStack \/ StartSIPStack \/ UNCHANGED vars
    BY <2>5 DEF StopSIPStack, StartSIPStack, vars, threads
  <2>6. "start" \in Label \ {"sync"}
    BY DEF Label
  <2> QED
    BY <1>0, <2>1, <2>2, <2>3, <2>4, <2>5, <2>6 DEF Next
<1>2. CASE UNCHANGED pc
  BY <1>2 DEF NoSync
<1>3. ASSUME NEW t \in Thread, NEW l \in Label \ {"sync"}, NEW locks, Leave(t, l, locks)
      PROVE  NoSync'
  BY <1>0, <1>3, LeaveIs DEF NoSync
<1> QED
  BY <1>1, <1>2, <1>3

\* Who waits for whom: the worker waits with msgLock_ only while started_ keeps
\* the others out of sendMessage.
LEMMA NobodyWaitsInACircle == Control /\ NoSync => NoDeadlock
<1> SUFFICES ASSUME Control, NoSync, NEW t \in Thread, NEW x \in Thread, t # x,
                    Waits(t) \cap held[x] # {}, Waits(x) \cap held[t] # {}
             PROVE  FALSE
  BY DEF NoDeadlock
<1>1. /\ Fits(t, pc[t], held[t]) /\ Fits(x, pc[x], held[x])
      /\ Locking /\ OneTask /\ pc[t] # "sync" /\ pc[x] # "sync"
  BY FitsHeld DEF Control, NoSync
<1>2. ~(Engaged(t) /\ Engaged(x))
  BY <1>1, OneEngaged
<1>3. ASSUME NEW y \in Thread
      PROVE  /\ "started" \in Waits(y) => pc[y] \in {"start", "restart"}
             /\ "pool" \in Waits(y) => pc[y] \in {"send", "settle", "erase", "sync"}
             /\ "msg" \in Waits(y) => pc[y] = "scan"
             /\ Waits(y) \subseteq {"db", "pool", "started", "msg"}
  BY DEF Waits
<1>4. \E a \in {"pool", "started", "msg"} : a \in Waits(t) /\ a \in held[x]
  BY <1>1, <1>3 DEF Fits
<1>5. \E b \in {"pool", "started", "msg"} : b \in Waits(x) /\ b \in held[t]
  BY <1>1, <1>3 DEF Fits
<1>6. pc[t] \in Callbacks => ~Engaged(x)
  BY <1>1 DEF Fits, OneTask, Working
<1>7. pc[x] \in Callbacks => ~Engaged(t)
  BY <1>1 DEF Fits, OneTask, Working
<1> QED
  BY <1>1, <1>2, <1>3, <1>4, <1>5, <1>6, <1>7 DEF Fits, Engaged, Callbacks, Sections

\* startEngine and the worker's callback take the same locks in opposite orders
\* and never wait for each other, as long as no pass over the databases runs.
THEOREM SpecNoDeadlock ==
  ASSUME Bound["sync"] = 0
  PROVE  Spec => []NoDeadlock
<1>1. Init => NoSync
  BY DEF Init, NoSync
<1>2. Control /\ NoSync /\ [Next]_vars => NoSync'
  BY NoSyncStep
<1>3. Control /\ NoSync => NoDeadlock
  BY NobodyWaitsInACircle
<1> QED
  BY <1>1, <1>2, <1>3, SpecControl, PTL DEF Spec

-----------------------------------------------------------------------------
(***************************************************************************)
(* A running engine goes on.  Removing the message in flight, a request    *)
(* that fails at once and a stop of the stack each leave started_ set with *)
(* nothing to reset it; without them there is always a next step.          *)
(***************************************************************************)
Follows ==
  /\ sipUp
  /\ pending = 1 => slot.live
  /\ started => pending = 1 \/ Working \/ \E t \in Thread : Engaged(t)

\* A step of a thread that was neither in a callback nor in sendMessage.
LEMMA OutsideFollows ==
  ASSUME Control, Follows, NEW t \in Thread, ~Engaged(t), pc[t] \notin Callbacks,
         \E l, locks : Leave(t, l, locks), UNCHANGED <<sipUp, pending, slot, started>>
  PROVE  Follows'
<1>1. \A x \in Thread \ {t} : pc'[x] = pc[x]
  BY LeaveIs DEF Control
<1>2. Working => Working'
  BY <1>1 DEF Working, Thread
<1>3. \A x \in Thread : Engaged(x) => Engaged(x)'
  BY <1>1 DEF Engaged
<1> QED
  BY <1>2, <1>3 DEF Follows

\* Without removals, failures and stops a started engine keeps a thread or an answer that goes on.
LEMMA FollowsStep ==
  ASSUME Bound["remove"] = 0, Bound["fail"] = 0, Bound["stop"] = 0
  PROVE  Control /\ Follows /\ [Next]_vars => Follows'
<1> SUFFICES ASSUME Control, Follows, [Next]_vars PROVE Follows'
  OBVIOUS
<1>0. /\ Base /\ Locking /\ OneTask /\ "sip" \in Thread /\ App \subseteq Thread
      /\ pending \in Nat /\ slot.live \in BOOLEAN
  BY PendingTyped DEF Control, Thread
<1>1. ~Spend("remove") /\ ~Spend("fail") /\ ~Spend("stop")
  <2>1. used["remove"] \in Nat /\ used["fail"] \in Nat /\ used["stop"] \in Nat
    BY <1>0 DEF Base, TypeOK, Budget
  <2> QED
    BY <2>1 DEF Spend
<1>2. ASSUME NEW t \in Thread, Run(t) PROVE Follows'
  <2>1. CASE StartEngine(t)
    <3>1. UNCHANGED <<sipUp, pending, slot>> /\ ~Engaged(t) /\ pc[t] \notin Callbacks
      BY <2>1 DEF StartEngine, network, Engaged, Sections, Callbacks
    <3>2. CASE Leave(t, "idle", {}) /\ UNCHANGED started
      BY <3>1, <3>2, OutsideFollows
    <3>3. CASE Leave(t, "send", {"started"})
      <4>1. Engaged(t)'
        BY <1>0, <3>3, LeaveIs DEF Engaged, Sections
      <4> QED
        BY <3>1, <4>1 DEF Follows
    <3> QED
      BY <1>0, <2>1, <3>2, <3>3 DEF StartEngine, Follows, Base, TypeOK
  <2>2. CASE SortMessages(t) \/ ScanEnds(t)
    <3>1. UNCHANGED <<sipUp, pending, slot>>
      BY <2>2 DEF SortMessages, ScanEnds, network
    <3>2. Engaged(t)'
      BY <1>0, <2>2, LeaveIs DEF SortMessages, ScanEnds, Engaged, Sections
    <3> QED
      BY <3>1, <3>2 DEF Follows
  <2>3. CASE ScanGivesUp(t)
    BY <2>3 DEF ScanGivesUp, threads, network, flags, Follows, Working, Engaged
  <2>4. CASE ScanSends(t)
    <3>1. pending = 0
      BY <1>0, <2>4 DEF OneTask, ScanSends, Engaged, Sections
    <3>2. pending' = 1 /\ sipUp' /\ slot'.live
      BY <1>1, <2>4, <3>1 DEF ScanSends, SendMsg, Follows
    <3> QED
      BY <3>2 DEF Follows
  <2>5. CASE Stop(t)
    <3>1. pending = 0 /\ ~started' /\ UNCHANGED <<sipUp, pending>>
      BY <1>0, <2>5 DEF OneTask, Stop, Engaged, Sections, network
    <3> QED
      BY <3>1 DEF Follows
  <2>6. CASE Erase(t)
    BY <2>6, OutsideFollows DEF Erase, network, flags, Engaged, Sections, Callbacks
  <2>7. ASSUME NEW u \in User, NEW done \in BOOLEAN, SyncAdd(t, u, done) PROVE Follows'
    <3>1. UNCHANGED <<sipUp, pending, slot, started>> /\ ~Engaged(t) /\ pc[t] \notin Callbacks
      BY <2>7 DEF SyncAdd, network, flags, Engaged, Sections, Callbacks
    <3>2. CASE Leave(t, "idle", {})
      BY <3>1, <3>2, OutsideFollows
    <3>3. CASE UNCHANGED pc
      BY <3>1, <3>3 DEF Follows, Working, Engaged
    <3> QED
      BY <2>7, <3>2, <3>3 DEF SyncAdd
  <2> QED
    BY <1>2, <2>1, <2>2, <2>3, <2>4, <2>5, <2>6, <2>7 DEF Run
<1>3. ASSUME NEW t \in Thread, NEW u, NEW uid, NEW enabled,
             \/ SyncBegin(t) \/ AddMessage(t, u) \/ RemoveMessages(t, u)
             \/ ResendMessage(t, u, uid) \/ SetAutoResendEnabled(t, enabled)
             \/ (t = "sip" /\ BuddyOnline(u))
      PROVE  Follows'
  <2>1. pc[t] = "idle" /\ UNCHANGED <<sipUp, pending, slot, started>>
    BY <1>1, <1>3 DEF SyncBegin, AddMessage, RemoveMessages, ResendMessage,
                      SetAutoResendEnabled, BuddyOnline, network, flags
  <2>2. \E l, locks : Leave(t, l, locks)
    BY <1>3 DEF SyncBegin, AddMessage, RemoveMessages, ResendMessage,
                SetAutoResendEnabled, BuddyOnline
  <2>3. ~Engaged(t) /\ pc[t] \notin Callbacks
    BY <2>1 DEF Engaged, Sections, Callbacks
  <2> QED
    BY <2>1, <2>2, <2>3, OutsideFollows
<1>4. ASSUME NEW ok \in BOOLEAN, OnSendMsgDone(ok) PROVE Follows'
  <2>1. pending = 1 /\ slot.live /\ UNCHANGED sipUp
    BY <1>0, <1>4 DEF OnSendMsgDone, OneTask, Follows
  <2>2. CASE UNCHANGED <<pending, pc>> /\ slot' = [slot EXCEPT !.counter = @ - 1]
    <3>1. slot'.live
      BY <1>0, <2>1, <2>2 DEF Base, TypeOK
    <3> QED
      BY <2>1, <2>2, <3>1 DEF Follows
  <2>3. CASE pending' = pending - 1 /\ Leave("sip", "notify", {"msg"})
    <3>1. pending' = 0 /\ Working'
      BY <1>0, <2>1, <2>3, LeaveIs DEF Working, Callbacks
    <3> QED
      BY <2>1, <3>1 DEF Follows
  <2> QED
    BY <1>1, <1>4, <2>1, <2>2, <2>3 DEF OnSendMsgDone, threads
<1>5. CASE Callback
  <2>1. UNCHANGED <<sipUp, pending, slot>>
    BY <1>5 DEF Callback, Notify, SettleSent, SettleFailed, MarkFailed, Restart, network
  <2>2. Working' \/ Engaged("sip")'
    <3>1. \E locks : \E l \in Callbacks \cup {"send"} : Leave("sip", l, locks)
      BY <1>5 DEF Callback, Notify, SettleSent, SettleFailed, MarkFailed, Restart, Callbacks
    <3> QED
      BY <1>0, <3>1, LeaveIs DEF Working, Engaged, Callbacks, Sections
  <2> QED
    BY <1>0, <2>1, <2>2 DEF Follows
<1>6. CASE StopSIPStack \/ StartSIPStack
  BY <1>1, <1>6 DEF StopSIPStack, StartSIPStack, Follows
<1>7. CASE UNCHANGED vars
  BY <1>7 DEF vars, threads, network, flags, Follows, Working, Engaged
<1>8. ASSUME NEW t \in App, Call(t) PROVE Follows'
  BY <1>0, <1>3, <1>8 DEF Call
<1>9. ASSUME NEW u \in User, AddMessage("sip", u) \/ BuddyOnline(u) PROVE Follows'
  BY <1>0, <1>3, <1>9
<1> QED
  BY <1>2, <1>4, <1>5, <1>6, <1>7, <1>8, <1>9 DEF Next, Report

\* started_ stays set only while a status is still to come or a thread is at
\* work, when nobody removes messages and the stack neither fails nor stops.
THEOREM SpecRunning ==
  ASSUME Bound["remove"] = 0, Bound["fail"] = 0, Bound["stop"] = 0
  PROVE  Spec => []Running
<1>1. Init => Follows
  BY DEF Init, Follows
<1>2. Control /\ Follows /\ [Next]_vars => Follows'
  BY FollowsStep
<1>3. Control /\ Follows => Running
  <2> SUFFICES ASSUME Control, Follows, started PROVE Running
    BY DEF Running
  <2>1. ASSUME NEW t \in Thread, Engaged(t) PROVE "started" \in held[t]
    BY <2>1, FitsHeld DEF Control, Fits, Engaged
  <2> QED
    BY <2>1 DEF Follows, Running, Working, Callbacks
<1> QED
  BY <1>1, <1>2, <1>3, SpecControl, PTL DEF Spec

-----------------------------------------------------------------------------
(***************************************************************************)
(* No wakeup is lost.  A stop of the stack makes startEngine return at     *)
(* once, and a pass over the databases adds messages without it; otherwise *)
(* whoever makes a message ready to be sent starts the engine, before or   *)
(* after the engine looked for one.                                        *)
(***************************************************************************)
Awake ==
  /\ sipUp
  /\ (\E u \in User : CanSend(u)) =>
       \/ started /\ \A t \in Thread : pc[t] # "stop"
       \/ \E t \in Thread : pc[t] = "start"

\* When nothing becomes ready and nobody stops or leaves startEngine.
LEMMA QuietAwake ==
  ASSUME Awake, UNCHANGED <<sipUp, started>>,
         \A u \in User : CanSend(u)' => CanSend(u),
         \A t \in Thread : pc'[t] = "stop" => pc[t] = "stop",
         \A t \in Thread : pc[t] = "start" => pc'[t] = "start"
  PROVE  Awake'
BY DEF Awake

\* A thread in sendMessage is the only one there: nobody else stops.
LEMMA EngagedAwake ==
  ASSUME Control, sipUp', started', NEW t \in Thread, Engaged(t),
         pc'[t] # "stop", \A x \in Thread \ {t} : pc'[x] = pc[x]
  PROVE  Awake'
<1>1. \A x \in Thread : pc[x] = "stop" => x = t
  BY OneEngaged DEF Control, Engaged, Sections
<1> QED
  BY <1>1 DEF Awake

\* While a message can be sent, the engine is started or about to be.
LEMMA AwakeStep ==
  ASSUME Bound["sync"] = 0, Bound["stop"] = 0
  PROVE  Control /\ NoSync /\ Awake /\ [Next]_vars => Awake'
<1> SUFFICES ASSUME Control, NoSync, Awake, [Next]_vars PROVE Awake'
  OBVIOUS
<1>0. /\ Base /\ Locking /\ OneTask /\ "sip" \in Thread /\ App \subseteq Thread
      /\ sipUp /\ started \in BOOLEAN /\ autoResend \in BOOLEAN
  BY PendingTyped DEF Control, Thread, Awake, Base, TypeOK
<1>1. ~Spend("sync") /\ ~Spend("stop")
  <2>1. used["sync"] \in Nat /\ used["stop"] \in Nat
    BY <1>0 DEF Base, TypeOK, Budget
  <2> QED
    BY <2>1 DEF Spend
<1>2. ASSUME UNCHANGED <<users, pool, autoResend>>
      PROVE  \A u \in User : CanSend(u)' => CanSend(u)
  BY <1>2 DEF CanSend, Eligible
<1>3. ASSUME NEW t \in Thread, StartEngine(t) PROVE Awake'
  <2>1. started' /\ sipUp' /\ Free(t, "started")
    BY <1>0, <1>3 DEF StartEngine, network
  <2>2. \A x \in Thread : pc[x] # "stop"
    BY <1>3, <2>1, FitsHeld DEF Free, Control, Fits, Sections, StartEngine
  <2>3. \A x \in Thread : pc'[x] # "stop"
    BY <1>0, <1>3, <2>2, LeaveIs DEF StartEngine
  <2> QED
    BY <2>1, <2>3 DEF Awake
<1>4. ASSUME NEW t \in Thread, SortMessages(t) \/ ScanGivesUp(t) \/ ScanSends(t) PROVE Awake'
  <2>1. Engaged(t) /\ pc[t] # "stop"
    BY <1>4 DEF SortMessages, ScanGivesUp, ScanSends, Engaged, Sections
  <2>2. started' /\ sipUp'
    BY <1>0, <1>4, <2>1 DEF SortMessages, ScanGivesUp, ScanSends, OneTask, flags, network
  <2>3. pc'[t] # "stop" /\ \A x \in Thread \ {t} : pc'[x] = pc[x]
    <3>1. CASE SortMessages(t) \/ ScanSends(t)
      <4>1. \E locks : \E l \in {"scan", "idle"} : Leave(t, l, locks)
        BY <3>1 DEF SortMessages, ScanSends
      <4> QED
        BY <1>0, <4>1, LeaveIs
    <3>2. CASE ScanGivesUp(t)
      BY <2>1, <3>2 DEF ScanGivesUp, threads
    <3> QED
      BY <1>4, <3>1, <3>2
  <2> QED
    BY <2>1, <2>2, <2>3, EngagedAwake
<1>5. ASSUME NEW t \in Thread, ScanEnds(t) PROVE Awake'
  <2>1. UNCHANGED <<sipUp, users, pool, autoResend>> /\ Stops = {}
    BY <1>5 DEF ScanEnds, engine, network, flags
  <2>2. \A u \in User : ~CanSend(u)
    BY <1>0, <2>1 DEF Base, PoolsPrioritised, CanSend, Stops
  <2> QED
    BY <1>0, <1>2, <2>1, <2>2 DEF Awake
<1>6. ASSUME NEW t \in Thread, Stop(t) PROVE Awake'
  <2>1. UNCHANGED <<sipUp, users, pool, autoResend>> /\ pc[t] = "stop"
    BY <1>6 DEF Stop, engine, network
  <2>2. \A x \in Thread : pc[x] = "start" => pc'[x] = "start"
    BY <1>0, <1>6, LeaveIs DEF Stop
  <2> QED
    BY <1>2, <2>1, <2>2 DEF Awake
<1>7. ASSUME NEW t \in Thread, Erase(t) PROVE Awake'
  <2>1. target[t] \in User /\ pool \in [User -> Pool]
    BY <1>0, <1>7 DEF Erase, Base, SlotInUse, TypeOK
  <2>2. \A u \in User : CanSend(u)' => CanSend(u)
    BY <1>7, <2>1 DEF Erase, CanSend, Eligible, flags
  <2>3. \A x \in Thread : /\ pc'[x] = "stop" => pc[x] = "stop"
                          /\ pc[x] = "start" => pc'[x] = "start"
    BY <1>0, <1>7, LeaveIs DEF Erase
  <2> QED
    BY <1>7, <2>2, <2>3, QuietAwake DEF Erase, flags, network
<1>8. ASSUME NEW t \in Thread, NEW u \in User, NEW uid,
             \/ AddMessage(t, u) \/ ResendMessage(t, u, uid)
             \/ (t = "sip" /\ BuddyOnline(u))
      PROVE  Awake'
  <2>1. Leave(t, "start", {}) /\ UNCHANGED sipUp
    BY <1>8 DEF AddMessage, ResendMessage, BuddyOnline, network
  <2>2. pc'[t] = "start"
    BY <1>0, <2>1, LeaveIs
  <2> QED
    BY <1>0, <2>1, <2>2 DEF Awake
<1>9. ASSUME NEW t \in Thread, NEW u \in User, RemoveMessages(t, u) PROVE Awake'
  <2>1. \A x \in Thread : /\ pc'[x] = "stop" => pc[x] = "stop"
                          /\ pc[x] = "start" => pc'[x] = "start"
    BY <1>0, <1>9, LeaveIs DEF RemoveMessages
  <2> QED
    BY <1>2, <1>9, <2>1, QuietAwake DEF RemoveMessages, engine, flags
<1>10. ASSUME NEW t \in Thread, NEW enabled \in BOOLEAN, SetAutoResendEnabled(t, enabled)
       PROVE  Awake'
  <2>1. UNCHANGED <<sipUp, started, users, pool>> /\ pc[t] = "idle" /\ autoResend' = enabled
    BY <1>10 DEF SetAutoResendEnabled, engine, network
  <2>2. CASE enabled /\ ~autoResend
    <3>1. pc'[t] = "start"
      BY <1>0, <1>10, <2>2, LeaveIs DEF SetAutoResendEnabled
    <3> QED
      BY <1>0, <2>1, <3>1 DEF Awake
  <2>3. CASE ~(enabled /\ ~autoResend)
    <3>1. \A u \in User : CanSend(u)' => CanSend(u)
      <4> SUFFICES ASSUME NEW u \in User, CanSend(u)' PROVE CanSend(u)
        OBVIOUS
      <4>1. pool[u].msgs \in Seq(Message)
        BY <1>0 DEF Base, TypeOK, Pool
      <4>2. DOMAIN pool[u].msgs # {}
        BY <2>1 DEF CanSend, Eligible
      <4>3. 1 \in DOMAIN pool[u].msgs
        BY <4>1, <4>2
      <4> QED
        BY <2>1, <2>3, <4>3 DEF CanSend, Eligible
    <3>2. \A x \in Thread : /\ pc'[x] = "stop" => pc[x] = "stop"
                            /\ pc[x] = "start" => pc'[x] = "start"
      BY <1>0, <1>10, <2>1, LeaveIs DEF SetAutoResendEnabled
    <3> QED
      BY <2>1, <3>1, <3>2, QuietAwake
  <2> QED
    BY <2>2, <2>3
<1>11. ASSUME NEW ok \in BOOLEAN, OnSendMsgDone(ok) PROVE Awake'
  <2>1. UNCHANGED <<sipUp, started, users, pool, autoResend>> /\ pc["sip"] = "idle"
    BY <1>11 DEF OnSendMsgDone, engine, flags
  <2>2. UNCHANGED pc \/ Leave("sip", "notify", {"msg"})
    BY <1>11 DEF OnSendMsgDone, threads
  <2>3. \A x \in Thread : /\ pc'[x] = "stop" => pc[x] = "stop"
                          /\ pc[x] = "start" => pc'[x] = "start"
    BY <1>0, <2>1, <2>2, LeaveIs
  <2> QED
    BY <1>2, <2>1, <2>3, QuietAwake
<1>12. CASE Callback
  <2>1. Working
    BY <1>12 DEF Callback, Notify, SettleSent, SettleFailed, MarkFailed, Restart,
                 Working, Callbacks
  <2>2. started' /\ sipUp' /\ \A x \in Thread : pc[x] # "stop"
    BY <1>0, <1>12, <2>1 DEF OneTask, Engaged, Sections, Callback, Notify, SettleSent,
       SettleFailed, MarkFailed, Restart, flags, network
  <2>3. \E locks : \E l \in Callbacks \cup {"send"} : Leave("sip", l, locks)
    BY <1>12 DEF Callback, Notify, SettleSent, SettleFailed, MarkFailed, Restart, Callbacks
  <2>4. \A x \in Thread : pc'[x] # "stop"
    BY <1>0, <2>2, <2>3, LeaveIs DEF Callbacks
  <2> QED
    BY <2>2, <2>4 DEF Awake
<1>13. CASE StopSIPStack \/ StartSIPStack
  BY <1>0, <1>1, <1>13 DEF StopSIPStack, StartSIPStack
<1>14. CASE UNCHANGED vars
  BY <1>2, <1>14, QuietAwake DEF vars, engine, flags, threads, network
<1>15. ASSUME NEW t \in Thread, Run(t) PROVE Awake'
  <2>1. \A u \in User, done \in BOOLEAN : ~SyncAdd(t, u, done)
    BY DEF NoSync, SyncAdd
  <2> QED
    BY <1>3, <1>4, <1>5, <1>6, <1>7, <1>15, <2>1 DEF Run
<1>16. ASSUME NEW t \in App, Call(t) PROVE Awake'
  <2>1. ~SyncBegin(t)
    BY <1>1 DEF SyncBegin
  <2> QED
    BY <1>0, <1>8, <1>9, <1>10, <1>16, <2>1 DEF Call
<1> QED
  BY <1>0, <1>8, <1>11, <1>12, <1>13, <1>14, <1>15, <1>16 DEF Next, Report

\* A message that can be sent finds the engine running, or a thread about to
\* start it, also when it is added while the engine decides to stop.
THEOREM SpecNoLostWakeup ==
  ASSUME Bound["sync"] = 0, Bound["stop"] = 0
  PROVE  Spec => []NoLostWakeup
<1>1. Init => NoSync /\ Awake
  BY DEF Init, NoSync, Awake, CanSend
<1>2. Control /\ NoSync /\ [Next]_vars => NoSync'
  BY NoSyncStep
<1>3. Control /\ NoSync /\ Awake /\ [Next]_vars => Awake'
  BY AwakeStep
<1>4. Awake => NoLostWakeup
  BY DEF Awake, NoLostWakeup
<1> QED
  BY <1>1, <1>2, <1>3, <1>4, SpecControl, PTL DEF Spec

-----------------------------------------------------------------------------
(***************************************************************************)
(* No message is lost, when messages have uids of their own (Smkex gives   *)
(* all of its messages the same one, and loses some).                      *)
(***************************************************************************)
DistinctUids == \A m, n \in MsgId : Uid[m] = Uid[n] => m = n

Has(msgs, m) == \E i \in DOMAIN msgs : msgs[i].id = m

\* A success is recorded before its message leaves the pool.
Recorded == pc["sip"] = "settle" /\ status => slot.id \in sent

\* Marks keep the messages, and a removal all those with another uid.
LEMMA MarksKeepMessages ==
  ASSUME NEW msgs \in Seq(Message), NEW uid, NEW done \in BOOLEAN, NEW m
  PROVE  /\ Has(msgs, m) => Has(MarkMsg(msgs, uid, done), m)
         /\ Has(msgs, m) => Has(MarkAll(msgs, done), m)
<1>1. /\ MarkMsg(msgs, uid, done) \in Seq(Message) /\ MarkAll(msgs, done) \in Seq(Message)
      /\ Len(MarkMsg(msgs, uid, done)) = Len(msgs) /\ Len(MarkAll(msgs, done)) = Len(msgs)
      /\ \A i \in 1 .. Len(msgs) : MarkMsg(msgs, uid, done)[i].id = msgs[i].id
      /\ \A i \in 1 .. Len(msgs) : MarkAll(msgs, done)[i].id = msgs[i].id
  BY MarkMsgKeeps, MarkAllKeeps
<1>2. /\ DOMAIN msgs = 1 .. Len(msgs)
      /\ DOMAIN MarkMsg(msgs, uid, done) = 1 .. Len(msgs)
      /\ DOMAIN MarkAll(msgs, done) = 1 .. Len(msgs)
  BY <1>1, LenProperties
<1> QED
  BY <1>1, <1>2 DEF Has

\* Removing one message leaves the others.
LEMMA RemovalKeepsOthers ==
  ASSUME NEW msgs \in Seq(Message), NEW uid, NEW m, Has(msgs, m), Uid[m] # uid
  PROVE  Has(RmMessage(msgs, uid), m)
<1>1. /\ RmMessage(msgs, uid) \in Seq(Message)
      /\ \A j \in 1 .. Len(msgs) :
              \/ \E k \in 1 .. Len(RmMessage(msgs, uid)) : RmMessage(msgs, uid)[k] = msgs[j]
              \/ Uid[msgs[j].id] = uid
  BY RmMessageKeeps
<1>2. DOMAIN msgs = 1 .. Len(msgs)
      /\ DOMAIN RmMessage(msgs, uid) = 1 .. Len(RmMessage(msgs, uid))
  BY <1>1, LenProperties
<1> QED
  BY <1>1, <1>2 DEF Has

\* A step that accounts for every message of every pool loses none.
LEMMA AccountedFor ==
  ASSUME NoMessageLost, added' = added, sent \subseteq sent', removed \subseteq removed',
         \A u \in users, m \in MsgId :
           Has(pool[u].msgs, m) =>
             m \in sent' \cup removed' \/ (u \in users' /\ Has(pool'[u].msgs, m)),
         Base
  PROVE  NoMessageLost'
<1> SUFFICES ASSUME NEW m \in 1 .. added, m \notin sent' \cup removed' PROVE Queued(m)'
  BY DEF NoMessageLost
<1>1. m \in MsgId /\ m \notin sent \cup removed
  BY EngineConstantsOK DEF Base, TypeOK, MsgId
<1>2. PICK u \in users : Has(pool[u].msgs, m)
  BY <1>1 DEF NoMessageLost, Queued, Has
<1>3. u \in users' /\ Has(pool'[u].msgs, m)
  BY <1>1, <1>2
<1> QED
  BY <1>3 DEF Queued, Has

\* Steps that leave the queues alone keep every message accounted for.
LEMMA StayAccounted ==
  ASSUME Base, NoMessageLost, UNCHANGED <<users, pool, added, removed>>, sent \subseteq sent'
  PROVE  NoMessageLost'
BY DEF NoMessageLost, Queued

\* A message of a queue is a message of the pool.
LEMMA PoolMessages ==
  ASSUME Base, NEW u \in User
  PROVE  pool[u] \in Pool /\ pool[u].msgs \in Seq(Message)
BY DEF Base, TypeOK, Pool

\* A new message goes to the end of its pool; being marked keeps the others.
LEMMA AddingLosesNone ==
  ASSUME Base, NoMessageLost, NEW t, NEW u \in User, NEW done \in BOOLEAN,
         AddMessageInternal(t, u, done), UNCHANGED <<sent, removed>>
  PROVE  NoMessageLost'
<1> DEFINE new == [id |-> added + 1, done |-> done]
           msgs == Append(pool[u].msgs, new)
<1>1. added + 1 \in MsgId /\ added' = added + 1 /\ added \in Nat
  BY EngineConstantsOK DEF AddMessageInternal, Base, TypeOK, MsgId
<1>2. pool[u] \in Pool /\ pool[u].msgs \in Seq(Message) /\ new \in Message
  BY <1>1, PoolMessages DEF Message
<1>3. /\ msgs \in Seq(Message) /\ DOMAIN msgs = 1 .. Len(pool[u].msgs) + 1
      /\ \A i \in 1 .. Len(pool[u].msgs) : msgs[i] = pool[u].msgs[i]
      /\ msgs[Len(pool[u].msgs) + 1] = new
      /\ DOMAIN pool[u].msgs = 1 .. Len(pool[u].msgs) /\ Len(pool[u].msgs) \in Nat
  <2> HIDE DEF new
  <2> QED
    BY <1>2
<1>4. Has(msgs, added + 1) /\ \A m : Has(pool[u].msgs, m) => Has(msgs, m)
  <2>1. new.id = added + 1
    OBVIOUS
  <2> HIDE DEF msgs, new
  <2> QED
    BY <1>3, <2>1 DEF Has
<1>5. pool' = [pool EXCEPT ![u] = MarkUserPoolAsClean([pool[u] EXCEPT !.msgs = msgs])]
      /\ users' = users \cup {u}
  BY DEF AddMessageInternal
<1> HIDE DEF msgs
<1>6. /\ pool'[u].msgs = msgs \/ pool'[u].msgs = MarkAll(msgs, FALSE)
      /\ \A w \in User \ {u} : pool'[w] = pool[w]
  BY <1>2, <1>5 DEF MarkUserPoolAsClean, Base, TypeOK, Pool
<1>7. \A m : Has(msgs, m) => Has(pool'[u].msgs, m)
  BY <1>3, <1>6, MarksKeepMessages
<1>8. SUFFICES ASSUME NEW m \in 1 .. added + 1, m \notin sent \cup removed
               PROVE  Queued(m)'
  BY <1>1 DEF NoMessageLost
<1>9. CASE m = added + 1
  <2>1. Has(pool'[u].msgs, m) /\ u \in users'
    BY <1>4, <1>5, <1>7, <1>9
  <2> QED
    BY <2>1 DEF Queued, Has
<1>10. CASE m \in 1 .. added
  <2>1. PICK w \in users : Has(pool[w].msgs, m)
    BY <1>8, <1>10 DEF NoMessageLost, Queued, Has
  <2>2. Has(pool'[w].msgs, m) /\ w \in users'
    BY <1>4, <1>5, <1>6, <1>7, <2>1 DEF Base, TypeOK
  <2> QED
    BY <2>2 DEF Queued, Has
<1> QED
  BY <1>1, <1>8, <1>9, <1>10

\* The one message that a success takes out of its pool is the one transferred.
LEMMA SettlingLosesNone ==
  ASSUME DistinctUids, Base, Recorded, NoMessageLost, SettleSent
  PROVE  NoMessageLost'
<1> DEFINE u == slot.user
           marked == MarkMsg(pool[u].msgs, Uid[slot.id], TRUE)
           rest == RmMessage(marked, Uid[slot.id])
<1>1. u \in User /\ slot.id \in MsgId /\ slot.id \in sent
      /\ UNCHANGED <<sent, removed, added>>
  BY DEF SettleSent, Base, SlotInUse, Recorded, history
<1>2. pool[u] \in Pool /\ pool[u].msgs \in Seq(Message)
  BY <1>1, PoolMessages
<1>3. marked \in Seq(Message) /\ \A m : Has(pool[u].msgs, m) => Has(marked, m)
  <2> DEFINE uid == Uid[slot.id]
             msgs == pool[u].msgs
  <2>1. msgs \in Seq(Message)
    BY <1>2
  <2> HIDE DEF uid, msgs
  <2>2. MarkMsg(msgs, uid, TRUE) \in Seq(Message)
        /\ \A m : Has(msgs, m) => Has(MarkMsg(msgs, uid, TRUE), m)
    BY <2>1, MarkMsgKeeps, MarksKeepMessages
  <2> QED
    BY <2>2 DEF uid, msgs
<1>4. \A m \in MsgId : Has(pool[u].msgs, m) => m \in sent \/ Has(rest, m)
  <2> TAKE m \in MsgId
  <2>1. Uid[m] = Uid[slot.id] => m \in sent
    BY <1>1 DEF DistinctUids
  <2> HIDE DEF marked
  <2> QED
    BY <1>3, <2>1, RemovalKeepsOthers
<1>5. CASE u \notin users
  BY <1>1, <1>5, StayAccounted DEF SettleSent, engine
<1>6. CASE u \in users /\ rest = <<>>
  <2>1. \A m \in MsgId : Has(pool[u].msgs, m) => m \in sent
    <3>1. \A m : ~Has(<<>>, m)
      BY DEF Has
    <3> HIDE DEF rest
    <3> QED
      BY <1>4, <1>6, <3>1
  <2>2. users' = users \ {u} /\ pool' = [pool EXCEPT ![u] = EmptyPool]
    BY <1>6 DEF SettleSent
  <2> HIDE DEF u, rest
  <2>3. \A w \in users, m \in MsgId :
          Has(pool[w].msgs, m) =>
            m \in sent' \cup removed' \/ (w \in users' /\ Has(pool'[w].msgs, m))
    BY <1>1, <2>1, <2>2 DEF Base, TypeOK
  <2> QED
    BY <1>1, <2>3, AccountedFor
<1>7. CASE u \in users /\ rest # <<>>
  <2>1. UNCHANGED users /\ pool'[u].msgs = rest /\ \A w \in User \ {u} : pool'[w] = pool[w]
    <3>1. pool' = [pool EXCEPT ![u] = [pool[u] EXCEPT !.msgs = rest,
                                                      !.weight = Weight(pool[u].weight + 1)]]
      BY <1>1, <1>2, <1>7 DEF SettleSent, Base, TypeOK
    <3> HIDE DEF u, rest
    <3> QED
      BY <1>1, <1>2, <1>7, <3>1 DEF Base, TypeOK, Pool, SettleSent, u, rest
  <2> HIDE DEF u, rest
  <2>2. \A w \in users, m \in MsgId :
          Has(pool[w].msgs, m) =>
            m \in sent' \cup removed' \/ (w \in users' /\ Has(pool'[w].msgs, m))
    BY <1>1, <1>4, <2>1 DEF Base, TypeOK
  <2> QED
    BY <1>1, <2>2, AccountedFor
<1> QED
  BY <1>5, <1>6, <1>7

\* Marks, wherever they come from.
LEMMA MarkingLosesNone ==
  ASSUME Base, NoMessageLost, NEW t \in Thread, NEW u \in User, NEW uid,
         \/ ScanGivesUp(t) \/ SettleFailed \/ MarkFailed
         \/ BuddyOnline(u) \/ ResendMessage(t, u, uid)
  PROVE  NoMessageLost'
<1>1. UNCHANGED <<users, added, sent, removed>>
  BY DEF ScanGivesUp, SettleFailed, MarkFailed, BuddyOnline, ResendMessage, history
<1>2. SUFFICES ASSUME NEW w \in users, NEW m \in MsgId, Has(pool[w].msgs, m)
               PROVE  Has(pool'[w].msgs, m)
  BY <1>1, AccountedFor
<1>3. w \in User /\ pool[w] \in Pool /\ pool[w].msgs \in Seq(Message)
      /\ pool \in [User -> Pool]
  BY PoolMessages DEF Base, TypeOK
<1>4. \A q : /\ MarkUserPoolProcessed(q).msgs = MarkAll(q.msgs, TRUE)
             /\ \/ MarkUserPoolAsClean(q).msgs = q.msgs
                \/ MarkUserPoolAsClean(q).msgs = MarkAll(q.msgs, FALSE)
  BY DEF MarkUserPoolProcessed, MarkUserPoolAsClean
<1>5. /\ Has(MarkAll(pool[w].msgs, TRUE), m)
      /\ Has(MarkAll(pool[w].msgs, FALSE), m)
      /\ \A x : /\ Has(MarkMsg(pool[w].msgs, x, TRUE), m)
                /\ Has(MarkMsg(pool[w].msgs, x, FALSE), m)
  <2> DEFINE msgs == pool[w].msgs
  <2>1. msgs \in Seq(Message) /\ Has(msgs, m)
    BY <1>2, <1>3
  <2> HIDE DEF msgs
  <2>2. /\ Has(MarkAll(msgs, TRUE), m) /\ Has(MarkAll(msgs, FALSE), m)
        /\ \A x : Has(MarkMsg(msgs, x, TRUE), m) /\ Has(MarkMsg(msgs, x, FALSE), m)
    BY <2>1, MarksKeepMessages
  <2> QED
    BY <2>2 DEF msgs
<1>6. \/ pool'[w].msgs \in {pool[w].msgs, MarkAll(pool[w].msgs, TRUE),
                            MarkAll(pool[w].msgs, FALSE)}
      \/ \E x : pool'[w].msgs \in {MarkMsg(pool[w].msgs, x, TRUE),
                                   MarkMsg(pool[w].msgs, x, FALSE)}
  <2>1. CASE ScanGivesUp(t)
    BY <1>3, <1>4, <2>1 DEF ScanGivesUp
  <2>2. CASE MarkFailed
    BY <1>3, <1>4, <2>2 DEF MarkFailed
  <2>3. CASE BuddyOnline(u)
    BY <1>3, <1>4, <2>3 DEF BuddyOnline
  <2>4. CASE SettleFailed
    <3>1. CASE w = slot.user
      <4>1. pool'[w] = [pool[w] EXCEPT !.msgs = MarkMsg(pool[w].msgs, Uid[slot.id], TRUE),
                                       !.dirty = TRUE]
        BY <1>3, <2>4, <3>1 DEF SettleFailed
      <4>2. pool'[w].msgs = MarkMsg(pool[w].msgs, Uid[slot.id], TRUE)
        BY <1>3, <4>1 DEF Pool
      <4> QED
        BY <4>2
    <3>2. CASE w # slot.user
      BY <1>3, <2>4, <3>2 DEF SettleFailed
    <3> QED
      BY <3>1, <3>2
  <2>5. CASE ResendMessage(t, u, uid)
    <3>1. pool'[w] = IF w = u THEN [msgs |-> MarkMsg(pool[u].msgs, uid, FALSE),
                                    weight |-> 0, dirty |-> FALSE]
                     ELSE [pool[w] EXCEPT !.weight = Weight(pool[w].weight + 1)]
      BY <1>3, <2>5 DEF ResendMessage
    <3>2. CASE w = u
      <4> DEFINE msgs == MarkMsg(pool[w].msgs, uid, FALSE)
      <4>1. pool'[w] = [msgs |-> msgs, weight |-> 0, dirty |-> FALSE]
        BY <3>1, <3>2
      <4>2. pool'[w].msgs = msgs
        <5> HIDE DEF msgs
        <5> QED
          BY <4>1
      <4> QED
        BY <4>2
    <3>3. CASE w # u
      <4>1. pool'[w].msgs = pool[w].msgs
        BY <1>3, <3>1, <3>3 DEF Pool
      <4> QED
        BY <4>1
    <3> QED
      BY <3>2, <3>3
  <2> QED
    BY <2>1, <2>2, <2>3, <2>4, <2>5
<1> QED
  BY <1>2, <1>5, <1>6

\* A removal says which messages it took.
LEMMA ErasingLosesNone ==
  ASSUME Base, NoMessageLost, NEW t \in Thread, Erase(t)
  PROVE  NoMessageLost'
<1>1. target[t] \in User /\ pool \in [User -> Pool]
  BY DEF Erase, Base, SlotInUse, TypeOK
<1>2. \A m : Has(pool[target[t]].msgs, m) => m \in removed'
  BY DEF Erase, Has
<1>3. UNCHANGED <<added, sent>> /\ removed \subseteq removed'
      /\ users' = users \ {target[t]} /\ pool' = [pool EXCEPT ![target[t]] = EmptyPool]
  BY DEF Erase
<1>4. \A w \in users, m \in MsgId :
        Has(pool[w].msgs, m) =>
          m \in sent' \cup removed' \/ (w \in users' /\ Has(pool'[w].msgs, m))
  BY <1>1, <1>2, <1>3
<1> QED
  BY <1>3, <1>4, AccountedFor

\* The status and the slot stay until the message is settled.
LEMMA RecordedStep == Control /\ Recorded /\ [Next]_vars => Recorded'
<1> SUFFICES ASSUME Control, Recorded, [Next]_vars, pc'["sip"] = "settle", status'
             PROVE  slot.id \in sent' /\ slot'.id = slot.id
  BY DEF Recorded
<1>0. Base /\ OneTask /\ "sip" \in Thread /\ App \subseteq Thread /\ "sip" \notin App
  BY NamesDiffer DEF Control, Thread
<1>1. CASE Notify
  BY <1>1 DEF Notify, network
<1>2. ASSUME pc["sip"] = "settle", sent \subseteq sent', status' = status, slot'.id = slot.id
      PROVE  slot.id \in sent' /\ slot'.id = slot.id
  BY <1>2 DEF Recorded
<1>3. ASSUME NEW t \in Thread, Run(t) PROVE slot.id \in sent' /\ slot'.id = slot.id
  <2>1. pc["sip"] = "settle" /\ t # "sip"
    <3>1. \E locks : \E l \in Label \ {"settle"} : Leave(t, l, locks) \/ UNCHANGED pc
      BY <1>3 DEF Run, StartEngine, SortMessages, ScanGivesUp, ScanSends, ScanEnds, Stop,
                  Erase, SyncAdd, Label, threads
    <3>2. pc["sip"] = "settle"
      BY <1>0, <3>1, LeaveIs
    <3> QED
      BY <1>3, <3>2 DEF Run, StartEngine, SortMessages, ScanGivesUp, ScanSends, ScanEnds,
                        Stop, Erase, SyncAdd
  <2>2. ~ScanSends(t)
    BY <1>0, <2>1 DEF OneTask, Working, Callbacks, ScanSends, Engaged, Sections
  <2>3. UNCHANGED <<slot, sent, status>>
    BY <1>3, <2>2 DEF Run, StartEngine, SortMessages, ScanGivesUp, ScanEnds, Stop, Erase,
                      SyncAdd, threads, network, history
  <2> QED
    BY <1>2, <2>1, <2>3
<1>4. ASSUME NEW t \in App, Call(t) PROVE slot.id \in sent' /\ slot'.id = slot.id
  <2>1. pc'["sip"] = pc["sip"]
    <3>1. \E l, locks : Leave(t, l, locks)
      BY <1>4 DEF Call, SyncBegin, AddMessage, RemoveMessages, ResendMessage,
                  SetAutoResendEnabled
    <3> QED
      BY <1>0, <3>1, LeaveIs
  <2>2. UNCHANGED <<sent, status>>
    BY <1>4 DEF Call, SyncBegin, AddMessage, RemoveMessages, ResendMessage,
                SetAutoResendEnabled, history
  <2>3. slot'.id = slot.id
    <3>1. slot' = slot \/ slot' = [slot EXCEPT !.live = FALSE]
      BY <1>4 DEF Call, SyncBegin, AddMessage, RemoveMessages, ResendMessage,
                  SetAutoResendEnabled, network
    <3> QED
      BY <1>0, <3>1 DEF Base, TypeOK
  <2> QED
    BY <1>2, <2>1, <2>2, <2>3
<1>5. ASSUME NEW u \in User, AddMessage("sip", u) \/ BuddyOnline(u) PROVE FALSE
  <2>1. Leave("sip", "start", {})
    BY <1>5 DEF AddMessage, BuddyOnline
  <2> QED
    BY <1>0, <2>1, LeaveIs
<1>6. ASSUME SettleSent \/ SettleFailed \/ MarkFailed \/ Restart \/ Report PROVE FALSE
  <2>1. \/ UNCHANGED pc /\ pc["sip"] = "idle"
        \/ \E locks : \E l \in Label \ {"settle"} : Leave("sip", l, locks)
    BY <1>6 DEF SettleSent, SettleFailed, MarkFailed, Restart, Report, OnSendMsgDone, Label,
                threads
  <2> QED
    BY <1>0, <2>1, LeaveIs
<1>7. CASE StopSIPStack \/ StartSIPStack \/ UNCHANGED vars
  BY <1>2, <1>7 DEF StopSIPStack, StartSIPStack, vars, threads, network, history
<1> QED
  BY <1>1, <1>3, <1>4, <1>5, <1>6, <1>7 DEF Next, Callback

\* Every step keeps every message accounted for.
LEMMA NoLossStep ==
  ASSUME DistinctUids
  PROVE  Control /\ Recorded /\ NoMessageLost /\ [Next]_vars => NoMessageLost'
<1> SUFFICES ASSUME Control, Recorded, NoMessageLost, [Next]_vars PROVE NoMessageLost'
  OBVIOUS
<1>0. Base /\ "sip" \in Thread /\ App \subseteq Thread
  BY DEF Control, Thread
<1>1. ASSUME NEW t \in Thread, NEW u \in User, AddMessage(t, u) PROVE NoMessageLost'
  BY <1>0, <1>1, AddingLosesNone DEF AddMessage
<1>2. ASSUME NEW t \in Thread, Run(t) PROVE NoMessageLost'
  <2>1. CASE StartEngine(t) \/ SortMessages(t) \/ ScanSends(t) \/ ScanEnds(t) \/ Stop(t)
    BY <1>0, <2>1, StayAccounted
       DEF StartEngine, SortMessages, ScanSends, ScanEnds, Stop, engine, history
  <2>2. CASE ScanGivesUp(t)
    <3>1. priority[Least(Stops)] \in User
      BY <1>0, <2>2 DEF ScanGivesUp, MustGiveUp, Base, TypeOK
    <3> QED
      BY <1>0, <2>2, <3>1, MarkingLosesNone
  <2>3. ASSUME NEW u \in User, NEW done \in BOOLEAN, SyncAdd(t, u, done) PROVE NoMessageLost'
    BY <1>0, <2>3, AddingLosesNone DEF SyncAdd
  <2> QED
    BY <1>0, <1>2, <2>1, <2>2, <2>3, ErasingLosesNone DEF Run
<1>3. ASSUME NEW t \in App, Call(t) PROVE NoMessageLost'
  <2>1. ASSUME NEW u \in User, NEW m \in MsgId, ResendMessage(t, u, Uid[m])
        PROVE  NoMessageLost'
    <3> DEFINE uid == Uid[m]
    <3>1. ResendMessage(t, u, uid)
      BY <2>1
    <3> HIDE DEF uid
    <3> QED
      BY <1>0, <3>1, MarkingLosesNone
  <2>2. ASSUME NEW u \in User, RemoveMessages(t, u) PROVE NoMessageLost'
    BY <1>0, <2>2, StayAccounted DEF RemoveMessages, engine, history
  <2>3. ASSUME NEW enabled \in BOOLEAN, SetAutoResendEnabled(t, enabled) PROVE NoMessageLost'
    BY <1>0, <2>3, StayAccounted DEF SetAutoResendEnabled, engine, history
  <2>4. CASE SyncBegin(t)
    BY <1>0, <2>4, StayAccounted DEF SyncBegin, engine, history
  <2> QED
    BY <1>0, <1>1, <1>3, <2>1, <2>2, <2>3, <2>4 DEF Call
<1>4. ASSUME NEW u \in User, BuddyOnline(u) PROVE NoMessageLost'
  BY <1>0, <1>4, MarkingLosesNone
<1>5. CASE Callback
  <2>1. CASE SettleFailed \/ MarkFailed
    <3>1. slot.user \in User
      BY <1>0, <2>1 DEF Base, SlotInUse, SettleFailed, MarkFailed
    <3> QED
      BY <1>0, <2>1, <3>1, MarkingLosesNone
  <2>2. CASE Notify \/ Restart
    BY <1>0, <2>2, StayAccounted DEF Notify, Restart, engine, history
  <2> QED
    BY <1>0, <1>5, <2>1, <2>2, SettlingLosesNone DEF Callback
<1>6. CASE Report \/ StopSIPStack \/ StartSIPStack \/ UNCHANGED vars
  BY <1>0, <1>6, StayAccounted
     DEF Report, OnSendMsgDone, StopSIPStack, StartSIPStack, vars, engine, history
<1> QED
  BY <1>0, <1>1, <1>2, <1>3, <1>4, <1>5, <1>6 DEF Next

\* With uids of their own, every message that was added was transferred, was
\* removed by the application or is still in its pool, whatever happens.
THEOREM SpecNoMessageLost ==
  ASSUME DistinctUids
  PROVE  Spec => []NoMessageLost
<1>1. Init => Recorded /\ NoMessageLost
  BY DEF Init, Recorded, NoMessageLost, Thread
<1>2. Control /\ Recorded /\ [Next]_vars => Recorded'
  BY RecordedStep
<1>3. Control /\ Recorded /\ NoMessageLost /\ [Next]_vars => NoMessageLost'
  BY NoLossStep
<1> QED
  BY <1>1, <1>2, <1>3, SpecControl, PTL DEF Spec
=============================================================================
