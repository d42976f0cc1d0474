----------------------------- MODULE SmkexProofs -----------------------------
(***************************************************************************)
(* Proofs about Smkex, for every value of its constants.                   *)
(*                                                                         *)
(* The invariants of interest are about a session alone, but a session is  *)
(* filled from records, so the inductive invariant IInv also says what a   *)
(* record on its way may hold (GoodMessage) and what a handler in flight   *)
(* may be about to assign (Keyed).                                         *)
(*                                                                         *)
(* The last part counts records: BacklogInv bounds what the answers, the   *)
(* alerts and the handshakes they restart may put on the way.              *)
(***************************************************************************)
EXTENDS Smkex, SequenceTheorems, FiniteSetTheorems, TLAPS

\* The statuses that are only entered with a session key.
KeyedStatus == {"waitNonceHDest", "waitNonceInit", "waitKeyInit",
                "waitNonce2HInit", "connected"}

Keyed(p) == \/ sess[p].status \in KeyedStatus
            \/ pc[p]["sip"] = "finish" /\ next[p] \in KeyedStatus

DrawnNonce == Peer \X {"nonce"} \X Nat

\* The records that peer p may find in its queue.
GoodMessage == [p \in Peer |->
  {m \in Message :
     /\ m.type = "handshakeKey" => \E i \in 1 .. inc[Other(p)] : m.key = <<Other(p), i>>
     /\ m.type \in {"handshakeNonce", "handshakeNonceH"} => m.nonce \in DrawnNonce}]

GoodSession(p, s) ==
  /\ s.sessionKey = {} \/ Genuine(p, s.sessionKey)
  /\ s.localNonce \in DrawnNonce

IInv ==
  /\ TypeOK
  /\ \A p \in Peer : net[p] \in Seq(GoodMessage[p])
  /\ \A p \in Peer : GoodSession(p, sess[p])
  /\ \A p \in Peer : Keyed(p) => sess[p].sessionKey # {}

-----------------------------------------------------------------------------
\* The other peer is a peer, and differs.
LEMMA OtherPeer ==
  ASSUME NEW p \in Peer
  PROVE  Other(p) \in Peer /\ Other(p) # p /\ Other(Other(p)) = p
BY PeersDiffer DEF Peer, Other

\* A single record is a sequence of records.
LEMMA Singleton ==
  ASSUME NEW S, NEW x \in S
  PROVE  <<x>> \in Seq(S)
OBVIOUS

\* A record that arrives at p: its queue shrinks and the buddy's grows.
LEMMA QueueStep ==
  ASSUME NEW f, NEW n, n \in [Peer -> Seq(Message)],
         \A q \in Peer : n[q] \in Seq(f[q]),
         NEW p \in Peer, n[p] # <<>>, NEW out \in Seq(f[Other(p)])
  PROVE  /\ Head(n[p]) \in f[p]
         /\ \A q \in Peer :
              [n EXCEPT ![p] = Tail(@), ![Other(p)] = @ \o out][q] \in Seq(f[q])
<1>1. Other(p) \in Peer /\ Other(p) # p
  BY OtherPeer
<1>2. n[p] \in Seq(f[p]) /\ n[Other(p)] \in Seq(f[Other(p)])
  BY <1>1
<1>3. Head(n[p]) \in f[p] /\ Tail(n[p]) \in Seq(f[p])
  BY <1>2, HeadTailProperties, Zenon
<1>4. n[Other(p)] \o out \in Seq(f[Other(p)])
  BY <1>2, ConcatProperties, Zenon
<1> QED
  BY <1>1, <1>2, <1>3, <1>4

\* p sends the records of out.
LEMMA SendStep ==
  ASSUME NEW f, NEW n, n \in [Peer -> Seq(Message)],
         \A q \in Peer : n[q] \in Seq(f[q]),
         NEW p \in Peer, NEW out \in Seq(f[Other(p)])
  PROVE  \A q \in Peer : [n EXCEPT ![Other(p)] = @ \o out][q] \in Seq(f[q])
<1>1. Other(p) \in Peer
  BY OtherPeer
<1>2. n[Other(p)] \o out \in Seq(f[Other(p)])
  BY <1>1, ConcatProperties, Zenon
<1> QED
  BY <1>1, <1>2

\* Queues of good records are queues of records.
LEMMA GoodQueues ==
  ASSUME NEW n, \A q \in Peer : n[q] \in Seq(GoodMessage[q]), DOMAIN n = Peer,
         n = [q \in Peer |-> n[q]]
  PROVE  n \in [Peer -> Seq(Message)]
<1> SUFFICES ASSUME NEW q \in Peer PROVE n[q] \in Seq(Message)
  OBVIOUS
<1>1. GoodMessage[q] \subseteq Message
  BY DEF GoodMessage
<1> QED
  BY <1>1, SeqMonotonic

\* While no process restarts, the same records and sessions are good.
LEMMA SameInc ==
  ASSUME inc' = inc
  PROVE  /\ GoodMessage' = GoodMessage
         /\ \A p \in Peer : \A s : Genuine(p, s)' <=> Genuine(p, s)
         /\ \A p \in Peer : \A s : GoodSession(p, s)' <=> GoodSession(p, s)
<1>1. \A p \in Peer : \A s : Genuine(p, s)' <=> Genuine(p, s)
  BY DEF Genuine, LocalKey
<1> QED
  BY <1>1 DEF GoodMessage, GoodSession

\* A stored record and its answers keep IInv when the session that results is
\* good and has a key wherever the control points past one.
LEMMA StoreKeepsIInv ==
  ASSUME IInv, NEW p \in Peer, net[p] # <<>>,
         NEW s \in Session, NEW out \in Seq(GoodMessage[Other(p)]),
         GoodSession(p, s), Store(p, s, out),
         pc' \in [Peer -> [Thread -> Label]],
         next' \in [Peer -> Status],
         \A q \in Peer : q \notin alive => pc'[q] = IdleThreads,
         \A q \in Peer \ {p} : pc'[q] = pc[q] /\ next'[q] = next[q],
         s.sessionKey # {} \/ ~ Keyed(p)',
         refusals' \in Nat
  PROVE  IInv'
<1>1. inc' = inc /\ alive' = alive
  BY DEF Store
<1>2. sess' = [sess EXCEPT ![p] = s] /\ sess \in [Peer -> Session]
  BY DEF Store, IInv, TypeOK
<1>3. net' = [net EXCEPT ![p] = Tail(@), ![Other(p)] = @ \o out]
  BY DEF Store
<1>4. \A q \in Peer : net'[q] \in Seq(GoodMessage[q])
  BY <1>3, QueueStep DEF IInv, TypeOK
<1>5. net' \in [Peer -> Seq(Message)]
  <2>1. net' = [q \in Peer |-> net'[q]]
    BY <1>3 DEF IInv, TypeOK
  <2> QED
    BY <2>1, <1>4, GoodQueues
<1>6. TypeOK'
  BY <1>1, <1>2, <1>5 DEF TypeOK, IInv, Store
<1>7. \A q \in Peer : GoodSession(q, sess[q])'
  <2> SUFFICES ASSUME NEW q \in Peer PROVE GoodSession(q, sess[q])'
    OBVIOUS
  <2>1. GoodSession(q, sess'[q])
    BY <1>2 DEF IInv
  <2> QED
    BY <2>1, <1>1, SameInc DEF GoodSession
<1>8. \A q \in Peer : Keyed(q)' => sess'[q].sessionKey # {}
  BY <1>2 DEF IInv, Keyed
<1> QED
  BY <1>1, <1>4, <1>6, <1>7, <1>8, SameInc DEF IInv

\* A handler that goes on to assign a status: it needs a key for a keyed one.
LEMMA GoOnKeepsIInv ==
  ASSUME IInv, NEW p \in Peer, net[p] # <<>>, CanRun(p, "sip"),
         NEW s \in Session, NEW out \in Seq(GoodMessage[Other(p)]),
         NEW st \in Status,
         GoodSession(p, s), StoreAndGoOn(p, s, out, st), refusals' \in Nat,
         s.sessionKey # {} \/ (st \notin KeyedStatus /\ s.status \notin KeyedStatus)
  PROVE  IInv'
<1>1. Store(p, s, out) /\ next' = [next EXCEPT ![p] = st]
      /\ pc' = [pc EXCEPT ![p]["sip"] = "finish"] /\ p \in alive
  BY DEF StoreAndGoOn, Goto, CanRun
<1>2. /\ pc' \in [Peer -> [Thread -> Label]]
      /\ next' \in [Peer -> Status]
      /\ \A q \in Peer : q \notin alive => pc'[q] = IdleThreads
      /\ \A q \in Peer \ {p} : pc'[q] = pc[q] /\ next'[q] = next[q]
      /\ next'[p] = st
  BY <1>1 DEF IInv, TypeOK, Thread, Label
<1>3. sess'[p] = s
  BY <1>1 DEF IInv, TypeOK, Store
<1>4. s.sessionKey # {} \/ ~ Keyed(p)'
  BY <1>2, <1>3 DEF Keyed
<1> QED
  BY <1>1, <1>2, <1>4, StoreKeepsIInv

LEMMA StoreThenKeepsIInv ==
  ASSUME IInv, NEW p \in Peer, net[p] # <<>>, CanRun(p, "sip"),
         NEW s \in Session, NEW out \in Seq(GoodMessage[Other(p)]),
         NEW st \in Status,
         GoodSession(p, s), StoreThen(p, s, out, st),
         s.sessionKey # {} \/ (st \notin KeyedStatus /\ s.status \notin KeyedStatus)
  PROVE  IInv'
BY GoOnKeepsIInv DEF StoreThen, IInv, TypeOK

\* A handler that leaves the status and the threads as they are.
LEMMA StoreOnlyKeepsIInv ==
  ASSUME IInv, NEW p \in Peer, net[p] # <<>>,
         NEW s \in Session, s.status = sess[p].status,
         s.sessionKey = sess[p].sessionKey,
         GoodSession(p, s), StoreOnly(p, s, <<>>)
  PROVE  IInv'
<1>1. Store(p, s, <<>>) /\ pc' = pc /\ next' = next /\ refusals' \in Nat
  BY DEF StoreOnly, IInv, TypeOK
<1>2. <<>> \in Seq(GoodMessage[Other(p)])
  BY EmptySeq, Zenon
<1>3. sess'[p] = s
  BY <1>1 DEF IInv, TypeOK, Store
<1>4. s.sessionKey # {} \/ ~ Keyed(p)'
  BY <1>1, <1>3 DEF Keyed, IInv
<1> QED
  BY <1>1, <1>2, <1>4, StoreKeepsIInv DEF IInv, TypeOK

\* What a handler may assume of its session and of the record at the head.
LEMMA HandlerFacts ==
  ASSUME IInv, NEW p \in Peer, NEW type, NEW st, Receives(p, type, st)
  PROVE  /\ CanRun(p, "sip") /\ net[p] # <<>>
         /\ sess[p] \in Session /\ GoodSession(p, sess[p]) /\ sess[p].status \in st
         /\ Head(net[p]) \in GoodMessage[p] /\ Head(net[p]).type = type
         /\ sess[p].status \in KeyedStatus => sess[p].sessionKey # {}
<1>1. net[p] \in Seq(GoodMessage[p])
  BY DEF IInv
<1>2. Head(net[p]) \in GoodMessage[p]
  BY <1>1, HeadTailProperties, Zenon DEF Receives
<1> QED
  BY <1>2 DEF Receives, IInv, TypeOK, Keyed

\* The records a peer sends are good for its buddy.
LEMMA GoodRecords ==
  ASSUME IInv, NEW p \in Peer
  PROVE  /\ KeyRecord(p) \in GoodMessage[Other(p)]
         /\ NonceRecord(p) \in GoodMessage[Other(p)]
         /\ Alert \in GoodMessage[Other(p)]
         /\ \A s \in Session : s.localNonce \in DrawnNonce =>
              NonceHRecord(s) \in GoodMessage[Other(p)]
<1>1. Other(p) \in Peer /\ Other(Other(p)) = p
  BY OtherPeer
<1>2. inc[p] \in Nat \ {0} /\ sess[p].localNonce \in DrawnNonce
  BY DEF IInv, TypeOK, GoodSession
<1>3. DrawnNonce \subseteq Nonce /\ LocalKey(p) \in Key
  BY <1>2 DEF DrawnNonce, Nonce, LocalKey, Key
<1>4. KeyRecord(p) \in GoodMessage[Other(p)]
  <2>1. KeyRecord(p) \in Message
    BY <1>3 DEF KeyRecord, Message
  <2>2. inc[p] \in 1 .. inc[p] /\ KeyRecord(p).key = <<p, inc[p]>>
    BY <1>2 DEF KeyRecord, LocalKey
  <2> QED
    BY <1>1, <2>1, <2>2 DEF GoodMessage, KeyRecord
<1>5. NonceRecord(p) \in GoodMessage[Other(p)]
  BY <1>1, <1>2, <1>3 DEF NonceRecord, GoodMessage, Message
<1>6. Alert \in GoodMessage[Other(p)]
  BY <1>1 DEF Alert, GoodMessage, Message
<1>7. ASSUME NEW s \in Session, s.localNonce \in DrawnNonce
      PROVE  NonceHRecord(s) \in GoodMessage[Other(p)]
  BY <1>1, <1>3, <1>7 DEF NonceHRecord, GoodMessage, Message
<1> QED
  BY <1>4, <1>5, <1>6, <1>7

\* Either verdict on a good session with a key keeps IInv.
LEMMA VerdictKeepsIInv ==
  ASSUME IInv, NEW p \in Peer, net[p] # <<>>, CanRun(p, "sip"),
         NEW s \in Session, NEW out \in Seq(GoodMessage[Other(p)]),
         GoodSession(p, s), s.sessionKey # {}, Verdict(p, s, out)
  PROVE  IInv'
<1>1. CASE StoreThen(p, s, out, "connected")
  BY <1>1, StoreThenKeepsIInv DEF Status
<1>2. CASE Refuse(p, s, out)
  <2>1. StoreAndGoOn(p, s, Append(out, Alert), "notConnected") /\ refusals' \in Nat
    BY <1>2 DEF Refuse, IInv, TypeOK
  <2>2. Alert \in GoodMessage[Other(p)]
    BY GoodRecords
  <2>3. Append(out, Alert) \in Seq(GoodMessage[Other(p)])
    BY <2>2, AppendProperties, Zenon
  <2> QED
    BY <2>1, <2>3, GoOnKeepsIInv DEF Status
<1> QED
  BY <1>1, <1>2 DEF Verdict

\* Storing the buddy's key and deriving the session key from it.
LEMMA KeyStored ==
  ASSUME IInv, NEW p \in Peer, NEW st, Receives(p, "handshakeKey", st),
         NEW s, s = [sess[p] EXCEPT !.remoteKey = Head(net[p]).key]
  PROVE  /\ s \in Session /\ GoodSession(p, s)
         /\ WithSessionKey(p, s) \in Session
         /\ GoodSession(p, WithSessionKey(p, s))
         /\ WithSessionKey(p, s).sessionKey # {}
<1>1. PICK i \in 1 .. inc[Other(p)] : Head(net[p]).key = <<Other(p), i>>
  BY HandlerFacts DEF GoodMessage
<1>2. Head(net[p]).key \in Key
  <2>1. Other(p) \in Peer /\ inc[Other(p)] \in Nat
    BY OtherPeer DEF IInv, TypeOK
  <2>2. i \in Nat
    BY <2>1
  <2>3. <<Other(p), i>> \in Key
    BY <2>1, <2>2 DEF Key
  <2> QED
    BY <1>1, <2>3, Zenon
<1>3. LocalKey(p) \in Key
  BY DEF Key, LocalKey, IInv, TypeOK
<1>4. s \in Session /\ GoodSession(p, s)
  BY <1>2 DEF Session, IInv, TypeOK, GoodSession
<1>5. WithSessionKey(p, s) \in Session
  BY <1>2, <1>3, <1>4 DEF WithSessionKey, Session
<1>6. WithSessionKey(p, s).sessionKey = {LocalKey(p), <<Other(p), i>>}
  BY <1>1, <1>4 DEF WithSessionKey, Session
<1>7. GoodSession(p, WithSessionKey(p, s))
  BY <1>4, <1>6 DEF GoodSession, Genuine, WithSessionKey, Session
<1> QED
  BY <1>4, <1>5, <1>6, <1>7

\* Storing the buddy's nonce, alone or with a hash.
LEMMA NonceStored ==
  ASSUME IInv, NEW p \in Peer, NEW st,
         NEW type \in {"handshakeNonce", "handshakeNonceH"}, Receives(p, type, st)
  PROVE  LET s == [sess[p] EXCEPT !.remoteNonce = Head(net[p]).nonce]
         IN  s \in Session /\ GoodSession(p, s)
<1>1. Head(net[p]).nonce \in DrawnNonce
  BY HandlerFacts DEF GoodMessage
<1>2. Head(net[p]).nonce \in Nonce
  BY <1>1 DEF DrawnNonce, Nonce
<1> QED
  BY <1>2 DEF Session, IInv, TypeOK, GoodSession

LEMMA NonceHStored ==
  ASSUME IInv, NEW p \in Peer, NEW st, Receives(p, "handshakeNonceH", st)
  PROVE  LET s == [WithNonceH(p) EXCEPT !.remoteNonce = Head(net[p]).nonce]
         IN  /\ WithNonceH(p) \in Session /\ GoodSession(p, WithNonceH(p))
             /\ s \in Session /\ GoodSession(p, s)
<1>1. Head(net[p]).nonce \in DrawnNonce
  BY HandlerFacts DEF GoodMessage
<1>2. Head(net[p]).nonce \in Nonce
  BY <1>1 DEF DrawnNonce, Nonce
<1>3. WithNonceH(p) \in Session /\ GoodSession(p, WithNonceH(p))
  BY DEF WithNonceH, Session, IInv, TypeOK, GoodSession
<1> QED
  BY <1>2, <1>3 DEF Session, GoodSession

-----------------------------------------------------------------------------
\* A process that ends takes its outgoing records with it.
LEMMA DieKeepsIInv ==
  ASSUME IInv, NEW p \in Peer, Die(p)
  PROVE  IInv'
<1>1. inc' = inc /\ sess' = sess /\ next' = next /\ budgets' = budgets /\ known' = known
  BY DEF Die
<1>2. net' = [net EXCEPT ![Other(p)] = <<>>]
  BY DEF Die
<1>3. \A q \in Peer : net'[q] \in Seq(GoodMessage[q])
  <2>1. <<>> \in Seq(GoodMessage[Other(p)])
    BY EmptySeq, Zenon
  <2> QED
    BY <1>2, <2>1 DEF IInv, TypeOK
<1>4. net' \in [Peer -> Seq(Message)]
  BY <1>2, EmptySeq DEF IInv, TypeOK
<1>5. TypeOK'
  BY <1>1, <1>4 DEF Die, IInv, TypeOK, IdleThreads, Thread, Label, budgets
<1>6. \A q \in Peer : GoodSession(q, sess[q])'
  BY <1>1, SameInc DEF IInv
<1>7. \A q \in Peer : Keyed(q)' => sess'[q].sessionKey # {}
  BY <1>1 DEF Die, IInv, TypeOK, Keyed, IdleThreads, Thread
<1> QED
  BY <1>1, <1>3, <1>5, <1>6, <1>7, SameInc DEF IInv

\* The handlers of a key.
LEMMA HandleKeyKeepsIInv ==
  ASSUME IInv, NEW p \in Peer, HandleKey(p)
  PROVE  IInv'
<1> DEFINE s == [sess[p] EXCEPT !.remoteKey = Head(net[p]).key]
<1>0. <<>> \in Seq(GoodMessage[Other(p)])
  BY EmptySeq, Zenon
<1>1. CASE KeyNotConnected(p)
  <2>1. Receives(p, "handshakeKey", {"notConnected"})
        /\ StoreThen(p, WithSessionKey(p, s), <<KeyRecord(p)>>, "waitNonceInit")
    BY <1>1 DEF KeyNotConnected
  <2>2. <<KeyRecord(p)>> \in Seq(GoodMessage[Other(p)])
    BY GoodRecords, Singleton, Zenon
  <2> HIDE DEF s
  <2> QED
    BY <2>1, <2>2, HandlerFacts, KeyStored, StoreThenKeepsIInv DEF Status, s
<1>2. CASE KeyWaitKeyNonceHDest(p)
  <2>1. Receives(p, "handshakeKey", {"waitKeyNonceHDest"})
        /\ StoreThen(p, WithSessionKey(p, s), <<>>, "waitNonceHDest")
    BY <1>2 DEF KeyWaitKeyNonceHDest
  <2>2. WithSessionKey(p, s) \in Session /\ GoodSession(p, WithSessionKey(p, s))
        /\ WithSessionKey(p, s).sessionKey # {}
    BY <2>1, KeyStored
  <2> HIDE DEF s
  <2> QED
    BY <1>0, <2>1, <2>2, HandlerFacts, StoreThenKeepsIInv DEF Status
<1>3. CASE KeyWaitKeyDest(p)
  <2> DEFINE t == WithSessionKey(p, s)
  <2>1. Receives(p, "handshakeKey", {"waitKeyDest"})
        /\ Verdict(p, t, <<NonceHRecord(t)>>)
    BY <1>3 DEF KeyWaitKeyDest
  <2>2. t \in Session /\ GoodSession(p, t) /\ t.sessionKey # {}
    BY <2>1, KeyStored
  <2>3. NonceHRecord(t) \in GoodMessage[Other(p)]
    BY <2>2, GoodRecords DEF GoodSession
  <2>4. <<NonceHRecord(t)>> \in Seq(GoodMessage[Other(p)])
    BY <2>3, Singleton, Zenon
  <2> HIDE DEF t
  <2> QED
    BY <2>1, <2>2, <2>4, HandlerFacts, VerdictKeepsIInv
<1>4. CASE KeyConnected(p) /\ StoreThen(p, s, <<>>, "waitNonceInit")
  <2>1. Receives(p, "handshakeKey", {"connected"})
    BY <1>4 DEF KeyConnected
  <2>2. s \in Session /\ GoodSession(p, s) /\ sess[p].sessionKey # {}
    BY <2>1, KeyStored, HandlerFacts DEF KeyedStatus
  <2>3. s.sessionKey # {}
    BY <2>2 DEF IInv, TypeOK, Session
  <2> HIDE DEF s
  <2> QED
    BY <1>0, <1>4, <2>1, <2>2, <2>3, HandlerFacts, StoreThenKeepsIInv DEF Status
<1>5. CASE KeyIgnored(p)
  <2>1. Receives(p, "handshakeKey",
                 {"waitNonceHDest", "waitNonceInit", "waitKeyInit", "waitNonce2HInit"})
        /\ StoreOnly(p, sess[p], <<>>)
    BY <1>5 DEF KeyIgnored
  <2> QED
    BY <2>1, HandlerFacts, StoreOnlyKeepsIInv
<1>6. CASE Die(p)
  BY <1>6, DieKeepsIInv
<1> QED
  BY <1>1, <1>2, <1>3, <1>4, <1>5, <1>6 DEF HandleKey, KeyConnected

\* The handlers of a nonce.
LEMMA HandleNonceKeepsIInv ==
  ASSUME IInv, NEW p \in Peer, HandleNonce(p)
  PROVE  IInv'
<1> DEFINE s == [sess[p] EXCEPT !.remoteNonce = Head(net[p]).nonce]
<1>0. <<>> \in Seq(GoodMessage[Other(p)])
  BY EmptySeq, Zenon
<1>s. ASSUME NEW st, Receives(p, "handshakeNonce", st)
      PROVE  /\ s \in Session /\ GoodSession(p, s)
             /\ s.sessionKey = sess[p].sessionKey /\ s.status = sess[p].status
  BY <1>s, NonceStored, HandlerFacts DEF Session
<1>1. CASE NonceWaitNonceInit(p)
  <2>1. Receives(p, "handshakeNonce", {"waitNonceInit"})
        /\ StoreThen(p, s, <<NonceHRecord(s)>>, "waitNonce2HInit")
    BY <1>1 DEF NonceWaitNonceInit
  <2>2. s \in Session /\ GoodSession(p, s) /\ s.sessionKey # {}
    BY <2>1, <1>s, HandlerFacts DEF KeyedStatus
  <2>3. NonceHRecord(s) \in GoodMessage[Other(p)]
    BY <2>2, GoodRecords DEF GoodSession
  <2>4. <<NonceHRecord(s)>> \in Seq(GoodMessage[Other(p)])
    BY <2>3, Singleton, Zenon
  <2> HIDE DEF s
  <2> QED
    BY <2>1, <2>2, <2>4, HandlerFacts, StoreThenKeepsIInv DEF Status
<1>2. CASE NonceWaitKeyNonceHDest(p) /\ StoreThen(p, s, <<>>, "waitKeyDest")
  <2>1. Receives(p, "handshakeNonce", {"waitKeyNonceHDest"})
    BY <1>2 DEF NonceWaitKeyNonceHDest
  <2>2. s \in Session /\ GoodSession(p, s) /\ s.status \notin KeyedStatus
    BY <2>1, <1>s, HandlerFacts DEF KeyedStatus
  <2> HIDE DEF s
  <2> QED
    BY <1>0, <1>2, <2>1, <2>2, HandlerFacts, StoreThenKeepsIInv DEF Status, KeyedStatus
<1>3. CASE NonceConnected(p)
  <2>1. Receives(p, "handshakeNonce", {"connected"})
        /\ StoreThen(p, s, <<>>, "waitKeyInit")
    BY <1>3 DEF NonceConnected
  <2>2. s \in Session /\ GoodSession(p, s) /\ s.sessionKey # {}
    BY <2>1, <1>s, HandlerFacts DEF KeyedStatus
  <2> HIDE DEF s
  <2> QED
    BY <1>0, <2>1, <2>2, HandlerFacts, StoreThenKeepsIInv DEF Status
<1>4. CASE NonceRefused(p)
  <2> DEFINE st == {"notConnected", "waitNonceHDest", "waitKeyDest", "waitKeyInit",
                    "waitNonce2HInit"}
  <2>1. Receives(p, "handshakeNonce", st)
        /\ StoreThen(p, sess[p], <<Alert>>, "notConnected")
    BY <1>4 DEF NonceRefused
  <2>2. <<Alert>> \in Seq(GoodMessage[Other(p)])
    BY GoodRecords, Singleton, Zenon
  <2>3. sess[p] \in Session /\ GoodSession(p, sess[p]) /\ net[p] # <<>>
        /\ CanRun(p, "sip")
        /\ (sess[p].status \in KeyedStatus => sess[p].sessionKey # {})
    BY <2>1, HandlerFacts
  <2> QED
    BY <2>1, <2>2, <2>3, StoreThenKeepsIInv DEF Status, KeyedStatus
<1>5. CASE Die(p)
  BY <1>5, DieKeepsIInv
<1> QED
  BY <1>1, <1>2, <1>3, <1>4, <1>5 DEF HandleNonce, NonceWaitKeyNonceHDest

\* The handlers of a nonce with a hash.
LEMMA HandleNonceHKeepsIInv ==
  ASSUME IInv, NEW p \in Peer, HandleNonceH(p)
  PROVE  IInv'
<1> DEFINE s == [WithNonceH(p) EXCEPT !.remoteNonce = Head(net[p]).nonce]
<1>0. <<>> \in Seq(GoodMessage[Other(p)])
  BY EmptySeq, Zenon
<1>s. ASSUME NEW st, Receives(p, "handshakeNonceH", st)
      PROVE  /\ s \in Session /\ GoodSession(p, s)
             /\ s.sessionKey = sess[p].sessionKey /\ s.status = sess[p].status
             /\ WithNonceH(p) \in Session /\ GoodSession(p, WithNonceH(p))
             /\ WithNonceH(p).sessionKey = sess[p].sessionKey
             /\ WithNonceH(p).status = sess[p].status
  <2>1. s \in Session /\ GoodSession(p, s)
        /\ WithNonceH(p) \in Session /\ GoodSession(p, WithNonceH(p))
    BY <1>s, NonceHStored
  <2>2. sess[p] \in Session
    BY <1>s, HandlerFacts
  <2> QED
    BY <2>1, <2>2 DEF WithNonceH, Session
<1>1. CASE NonceHWaitKeyNonceHDest(p)
  <2>1. Receives(p, "handshakeNonceH", {"waitKeyNonceHDest"}) /\ StoreOnly(p, s, <<>>)
    BY <1>1 DEF NonceHWaitKeyNonceHDest
  <2> HIDE DEF s
  <2> QED
    BY <2>1, <1>s, HandlerFacts, StoreOnlyKeepsIInv
<1>2. CASE NonceHWaitNonceHDest(p)
  <2>1. Receives(p, "handshakeNonceH", {"waitNonceHDest"})
        /\ Verdict(p, s, <<NonceHRecord(sess[p])>>)
    BY <1>2 DEF NonceHWaitNonceHDest
  <2>2. s \in Session /\ GoodSession(p, s) /\ s.sessionKey # {}
    BY <2>1, <1>s, HandlerFacts DEF KeyedStatus
  <2>3. NonceHRecord(sess[p]) \in GoodMessage[Other(p)]
    BY <2>1, HandlerFacts, GoodRecords DEF GoodSession
  <2>4. <<NonceHRecord(sess[p])>> \in Seq(GoodMessage[Other(p)])
    BY <2>3, Singleton, Zenon
  <2> HIDE DEF s
  <2> QED
    BY <2>1, <2>2, <2>4, HandlerFacts, VerdictKeepsIInv
<1>3. CASE NonceHWaitNonce2HInit(p)
  <2>1. Receives(p, "handshakeNonceH", {"waitNonce2HInit"}) /\ Verdict(p, s, <<>>)
    BY <1>3 DEF NonceHWaitNonce2HInit
  <2>2. s \in Session /\ GoodSession(p, s) /\ s.sessionKey # {}
    BY <2>1, <1>s, HandlerFacts DEF KeyedStatus
  <2> HIDE DEF s
  <2> QED
    BY <1>0, <2>1, <2>2, HandlerFacts, VerdictKeepsIInv
<1>4. CASE NonceHIgnored(p)
  <2>1. Receives(p, "handshakeNonceH",
                 {"notConnected", "waitKeyDest", "waitNonceInit", "waitKeyInit",
                  "connected"})
        /\ StoreOnly(p, WithNonceH(p), <<>>)
    BY <1>4 DEF NonceHIgnored
  <2> QED
    BY <2>1, <1>s, HandlerFacts, StoreOnlyKeepsIInv
<1> QED
  BY <1>1, <1>2, <1>3, <1>4 DEF HandleNonceH

\* An alert, and the last assignment of a handler.
LEMMA AlertKeepsIInv ==
  ASSUME IInv, NEW p \in Peer, AlertReceived(p)
  PROVE  IInv'
<1> DEFINE s == [sess[p] EXCEPT !.status = "notConnected"]
<1>1. Receives(p, "alert", Status) /\ Store(p, s, <<>>) /\ next' = next
      /\ (pc' = [pc EXCEPT ![p]["sip"] = "init"] \/ pc' = pc)
      /\ refusals' \in Nat
  BY DEF AlertReceived, Goto, IInv, TypeOK
<1>2. p \in alive /\ pc[p]["sip"] = "idle" /\ net[p] # <<>>
  BY <1>1 DEF Receives, CanRun
<1>3. s \in Session /\ GoodSession(p, s) /\ s.status = "notConnected"
  <2>1. sess[p] \in Session /\ GoodSession(p, sess[p])
    BY DEF IInv, TypeOK
  <2>2. s \in Session /\ s.status = "notConnected"
    BY <2>1 DEF Session, Status
  <2> QED
    BY <2>1, <2>2 DEF Session, GoodSession
<1>4. <<>> \in Seq(GoodMessage[Other(p)])
  BY EmptySeq, Zenon
<1>5. /\ pc' \in [Peer -> [Thread -> Label]]
      /\ \A q \in Peer : q \notin alive => pc'[q] = IdleThreads
      /\ \A q \in Peer \ {p} : pc'[q] = pc[q]
      /\ pc'[p]["sip"] # "finish"
  <2>1. pc \in [Peer -> [Thread -> Label]] /\ "sip" \in Thread /\ "init" \in Label
        /\ \A q \in Peer : q \notin alive => pc[q] = IdleThreads
    BY DEF IInv, TypeOK, Thread, Label
  <2>2. CASE pc' = pc
    BY <1>2, <2>1, <2>2
  <2>3. CASE pc' = [pc EXCEPT ![p]["sip"] = "init"]
    BY <1>2, <2>1, <2>3
  <2> QED
    BY <1>1, <2>2, <2>3
<1>6. sess'[p] = s
  BY <1>1 DEF IInv, TypeOK, Store
<1>7. ~ Keyed(p)'
  BY <1>3, <1>5, <1>6 DEF Keyed, KeyedStatus
<1> HIDE DEF s
<1> QED
  BY <1>1, <1>2, <1>3, <1>4, <1>5, <1>7, StoreKeepsIInv DEF IInv, TypeOK

\* A step that changes only the session and the threads of p: its type, its
\* goodness and its keyedness are all there is to show.
LEMMA LocalStepKeepsIInv ==
  ASSUME IInv, NEW p \in Peer, p \in alive, NEW s \in Session, GoodSession(p, s),
         sess' = [sess EXCEPT ![p] = s],
         NEW t \in Thread,
         NEW label \in Label \ {"finish"},
         pc' = [pc EXCEPT ![p][t] = label],
         s.sessionKey # {} \/ ~ Keyed(p)',
         UNCHANGED <<known, alive, inc, next, net, losses, dups, refusals, restarts>>,
         inits' \in [Peer -> Nat]
  PROVE  IInv'
<1>1. sess' \in [Peer -> Session] /\ \A q \in Peer : sess'[q] = IF q = p THEN s ELSE sess[q]
  BY DEF IInv, TypeOK
<1>2. pc' \in [Peer -> [Thread -> Label]]
      /\ \A q \in Peer \ {p} : pc'[q] = pc[q]
  BY DEF IInv, TypeOK, Thread, Label
<1>3. TypeOK'
  BY <1>1, <1>2 DEF IInv, TypeOK, IdleThreads
<1>4. \A q \in Peer : GoodSession(q, sess[q])'
  <2> SUFFICES ASSUME NEW q \in Peer PROVE GoodSession(q, sess[q])'
    OBVIOUS
  <2>1. GoodSession(q, sess'[q])
    BY <1>1 DEF IInv
  <2> QED
    BY <2>1 DEF GoodSession, Genuine, LocalKey
<1>5. \A q \in Peer : Keyed(q)' => sess'[q].sessionKey # {}
  BY <1>1, <1>2 DEF IInv, Keyed
<1> QED
  BY <1>3, <1>4, <1>5, SameInc DEF IInv

\* A step that only sends records of p and moves a thread on.
LEMMA SendKeepsIInv ==
  ASSUME IInv, NEW p \in Peer, p \in alive, NEW t \in Thread,
         NEW label \in Label \ {"finish"}, Goto(p, t, label),
         NEW m \in GoodMessage[Other(p)], Send(p, <<m>>),
         UNCHANGED <<sess, known, alive, inc, next, budgets>>
  PROVE  IInv'
<1>1. net' = [net EXCEPT ![Other(p)] = @ \o <<m>>]
  BY DEF Send
<1>2. <<m>> \in Seq(GoodMessage[Other(p)])
  BY Singleton, Zenon
<1>3. \A q \in Peer : net'[q] \in Seq(GoodMessage[q])
  BY <1>1, <1>2, SendStep DEF IInv, TypeOK
<1>4. net' \in [Peer -> Seq(Message)]
  <2>1. net' = [q \in Peer |-> net'[q]]
    BY <1>1 DEF IInv, TypeOK
  <2> QED
    BY <2>1, <1>3, GoodQueues
<1>5. pc' = [pc EXCEPT ![p][t] = label]
  BY DEF Goto
<1>6. pc' \in [Peer -> [Thread -> Label]] /\ (\A q \in Peer \ {p} : pc'[q] = pc[q])
      /\ (pc'[p]["sip"] = "finish" => pc[p]["sip"] = "finish")
  BY <1>5 DEF IInv, TypeOK, Thread
<1>7. TypeOK'
  BY <1>4, <1>6 DEF IInv, TypeOK, budgets, IdleThreads
<1>8. \A q \in Peer : GoodSession(q, sess[q])'
  BY SameInc DEF IInv
<1>9. \A q \in Peer : Keyed(q)' => sess'[q].sessionKey # {}
  BY <1>6 DEF IInv, Keyed
<1> QED
  BY <1>3, <1>7, <1>8, <1>9, SameInc DEF IInv

\* initSession, step by step.
LEMMA InitStepKeepsIInv ==
  ASSUME IInv, NEW p \in Peer, NEW t \in Thread, InitStep(p, t)
  PROVE  IInv'
<1>0. /\ sess[p] \in Session /\ GoodSession(p, sess[p])
      /\ Keyed(p) => sess[p].sessionKey # {}
      /\ pc[p] \in [Thread -> Label]
  BY DEF IInv, TypeOK
<1>1. CASE InitWithoutSession(p, t)
  BY <1>1, DieKeepsIInv DEF InitWithoutSession
<1>2. CASE InitSuppressed(p, t)
  <2> DEFINE s == [sess[p] EXCEPT !.iAmSessionInitiator = TRUE]
  <2>1. s \in Session /\ s.sessionKey = sess[p].sessionKey /\ s.status = sess[p].status
    BY <1>0 DEF Session
  <2>2. GoodSession(p, s)
    BY <1>0, <2>1 DEF Session, GoodSession
  <2>3. sess' = [sess EXCEPT ![p] = s] /\ pc' = [pc EXCEPT ![p][t] = "idle"]
        /\ p \in alive /\ inits' = inits
        /\ UNCHANGED <<known, alive, inc, next, net, losses, dups, refusals, restarts>>
    BY <1>2 DEF InitSuppressed, Goto, CanRun, IInv, TypeOK, budgets
  <2>4. s.sessionKey # {} \/ ~ Keyed(p)'
    BY <1>0, <2>1, <2>3 DEF IInv, TypeOK, Keyed, Thread
  <2> HIDE DEF s
  <2> QED
    BY <2>1, <2>2, <2>3, <2>4, LocalStepKeepsIInv DEF Label, IInv, TypeOK
<1>3. CASE InitBegin(p, t)
  <2>1. PICK i \in NonceId :
          sess' = [sess EXCEPT ![p].iAmSessionInitiator = TRUE,
                               ![p].localNonce = <<p, "nonce", i>>]
    BY <1>3 DEF InitBegin
  <2> DEFINE s == [sess[p] EXCEPT !.iAmSessionInitiator = TRUE,
                                  !.localNonce = <<p, "nonce", i>>]
  <2>2. <<p, "nonce", i>> \in DrawnNonce /\ DrawnNonce \subseteq Nonce
    BY ConstantsOK DEF DrawnNonce, Nonce
  <2>3. s \in Session /\ s.sessionKey = sess[p].sessionKey /\ s.status = sess[p].status
    BY <1>0, <2>2 DEF Session
  <2>4. GoodSession(p, s)
    BY <1>0, <2>2, <2>3 DEF Session, GoodSession
  <2>5. sess' = [sess EXCEPT ![p] = s] /\ pc' = [pc EXCEPT ![p][t] = "sendKey"]
        /\ p \in alive /\ inits' = inits
        /\ UNCHANGED <<known, alive, inc, next, net, losses, dups, refusals, restarts>>
    BY <1>3, <2>1 DEF InitBegin, Goto, CanRun, IInv, TypeOK, budgets
  <2>6. s.sessionKey # {} \/ ~ Keyed(p)'
    BY <1>0, <2>3, <2>5 DEF IInv, TypeOK, Keyed, Thread
  <2> HIDE DEF s
  <2> QED
    BY <2>3, <2>4, <2>5, <2>6, LocalStepKeepsIInv DEF Label, IInv, TypeOK
<1>4. CASE InitSendKey(p, t)
  BY <1>4, GoodRecords, SendKeepsIInv DEF InitSendKey, CanRun, Label
<1>5. CASE InitSendNonce(p, t)
  BY <1>5, GoodRecords, SendKeepsIInv DEF InitSendNonce, CanRun, Label
<1>6. CASE InitSetStatus(p, t)
  <2> DEFINE s == [sess[p] EXCEPT !.status = "waitKeyNonceHDest"]
  <2>1. s \in Session /\ s.sessionKey = sess[p].sessionKey
        /\ s.status \notin KeyedStatus
    BY <1>0 DEF Session, Status, KeyedStatus
  <2>2. GoodSession(p, s)
    BY <1>0, <2>1 DEF Session, GoodSession
  <2>3. sess' = [sess EXCEPT ![p] = s] /\ pc' = [pc EXCEPT ![p][t] = "idle"]
        /\ p \in alive /\ inits' = inits
        /\ UNCHANGED <<known, alive, inc, next, net, losses, dups, refusals, restarts>>
    BY <1>6 DEF InitSetStatus, Goto, CanRun, IInv, TypeOK, budgets
  <2>4. s.sessionKey # {} \/ ~ Keyed(p)'
    BY <1>0, <2>1, <2>3 DEF IInv, TypeOK, Keyed, Thread
  <2> HIDE DEF s
  <2> QED
    BY <2>1, <2>2, <2>3, <2>4, LocalStepKeepsIInv DEF Label, IInv, TypeOK
<1> QED
  BY <1>1, <1>2, <1>3, <1>4, <1>5, <1>6 DEF InitStep

\* The application's call, and a handler's assignment to the status.
LEMMA CallKeepsIInv ==
  ASSUME IInv, NEW p \in Peer, AppCallsInitSession(p)
  PROVE  IInv'
<1>1. sess[p] \in Session /\ GoodSession(p, sess[p])
  BY DEF IInv, TypeOK
<1>2. sess' = [sess EXCEPT ![p] = sess[p]] /\ pc' = [pc EXCEPT ![p]["app"] = "init"]
      /\ p \in alive /\ inits' \in [Peer -> Nat]
      /\ UNCHANGED <<known, alive, inc, next, net, losses, dups, refusals, restarts>>
  BY DEF AppCallsInitSession, Goto, CanRun, IInv, TypeOK
<1>3. sess[p].sessionKey # {} \/ ~ Keyed(p)'
  BY <1>2 DEF IInv, TypeOK, Keyed, Thread
<1> QED
  BY <1>1, <1>2, <1>3, LocalStepKeepsIInv DEF Label, Thread

LEMMA FinishKeepsIInv ==
  ASSUME IInv, NEW p \in Peer, HandlerFinish(p)
  PROVE  IInv'
<1> DEFINE s == [sess[p] EXCEPT !.status = next[p]]
<1>1. /\ sess[p] \in Session /\ GoodSession(p, sess[p])
      /\ Keyed(p) => sess[p].sessionKey # {}
      /\ next[p] \in Status /\ pc[p]["sip"] = "finish"
  BY DEF IInv, TypeOK, HandlerFinish
<1>2. s \in Session /\ s.sessionKey = sess[p].sessionKey /\ s.status = next[p]
  BY <1>1 DEF Session
<1>3. GoodSession(p, s)
  BY <1>1, <1>2 DEF Session, GoodSession
<1>4. sess' = [sess EXCEPT ![p] = s] /\ pc' = [pc EXCEPT ![p]["sip"] = "idle"]
      /\ p \in alive /\ inits' = inits
      /\ UNCHANGED <<known, alive, inc, next, net, losses, dups, refusals, restarts>>
  BY DEF HandlerFinish, Goto, CanRun, IInv, TypeOK, budgets
<1>5. s.sessionKey # {} \/ ~ Keyed(p)'
  BY <1>1, <1>2, <1>4 DEF IInv, TypeOK, Keyed, Thread
<1> HIDE DEF s
<1> QED
  BY <1>2, <1>3, <1>4, <1>5, LocalStepKeepsIInv DEF Label, Thread, IInv, TypeOK

\* The environment.
LEMMA QueueOnlyKeepsIInv ==
  ASSUME IInv, NEW p \in Peer, NEW new \in Seq(GoodMessage[p]),
         net' = [net EXCEPT ![p] = new],
         losses' \in Nat, dups' \in Nat,
         UNCHANGED <<sess, known, alive, inc, pc, next, inits, refusals, restarts>>
  PROVE  IInv'
<1>1. \A q \in Peer : net'[q] \in Seq(GoodMessage[q])
  BY DEF IInv, TypeOK
<1>2. net' \in [Peer -> Seq(Message)]
  <2>1. net' = [q \in Peer |-> net'[q]]
    BY DEF IInv, TypeOK
  <2> QED
    BY <2>1, <1>1, GoodQueues
<1>3. TypeOK'
  BY <1>2 DEF IInv, TypeOK
<1>4. \A q \in Peer : GoodSession(q, sess[q])'
  BY SameInc DEF IInv
<1>5. \A q \in Peer : Keyed(q)' => sess'[q].sessionKey # {}
  BY DEF IInv, Keyed
<1> QED
  BY <1>1, <1>3, <1>4, <1>5, SameInc DEF IInv

LEMMA RestartKeepsIInv ==
  ASSUME IInv, NEW p \in Peer, Restart(p)
  PROVE  IInv'
<1>1. PICK i \in NonceId : sess' = [sess EXCEPT ![p] = NewSession(p, i)]
  BY DEF Restart
<1> DEFINE s == NewSession(p, i)
<1>2. /\ inc' = [inc EXCEPT ![p] = @ + 1] /\ inc \in [Peer -> Nat \ {0}]
      /\ pc' = pc /\ next' = next /\ net' = net /\ p \notin alive
      /\ alive' = alive \cup {p}
  BY DEF Restart, IInv, TypeOK
<1>3. \A q \in Peer : 1 .. inc[q] \subseteq 1 .. inc'[q]
  BY <1>2
<1>4. \A q \in Peer : GoodMessage[q] \subseteq GoodMessage'[q]
  <2> SUFFICES ASSUME NEW q \in Peer, NEW m \in GoodMessage[q] PROVE m \in GoodMessage'[q]
    OBVIOUS
  <2>1. Other(q) \in Peer
    BY OtherPeer
  <2> QED
    BY <2>1, <1>3 DEF GoodMessage
<1>5. \A q \in Peer : net'[q] \in Seq(GoodMessage'[q])
  <2> SUFFICES ASSUME NEW q \in Peer PROVE net[q] \in Seq(GoodMessage'[q])
    BY <1>2
  <2>1. net[q] \in Seq(GoodMessage[q])
    BY DEF IInv
  <2> QED
    BY <2>1, <1>4, SeqMonotonic
<1>6. s \in Session /\ s.sessionKey = {} /\ s.status = "notConnected"
      /\ s.localNonce \in DrawnNonce
  <2>1. i \in Nat /\ 0 \in Nat /\ Other(p) \in Peer
    BY ConstantsOK, OtherPeer
  <2>2. Garbage(p) \in Nonce
    BY <2>1 DEF Garbage, Nonce
  <2>3. <<p, "nonce", i>> \in DrawnNonce /\ DrawnNonce \subseteq Nonce
    BY <2>1 DEF DrawnNonce, Nonce
  <2>4. <<Other(p), 0>> \in Key
    BY <2>1 DEF Key
  <2> QED
    BY <2>2, <2>3, <2>4 DEF NewSession, Session, Status
<1>7. sess' \in [Peer -> Session] /\ \A q \in Peer : sess'[q] = IF q = p THEN s ELSE sess[q]
  BY <1>1, <1>6 DEF IInv, TypeOK
<1>8. TypeOK'
  BY <1>2, <1>7 DEF Restart, IInv, TypeOK
<1>9. \A q \in Peer : GoodSession(q, sess[q])'
  <2> SUFFICES ASSUME NEW q \in Peer PROVE GoodSession(q, sess[q])'
    OBVIOUS
  <2>1. CASE q = p
    BY <2>1, <1>6, <1>7 DEF GoodSession
  <2>2. CASE q # p
    <3>1. sess'[q] = sess[q] /\ GoodSession(q, sess[q]) /\ inc'[q] = inc[q]
      BY <2>2, <1>2, <1>7 DEF IInv
    <3>2. Other(q) \in Peer /\ 1 .. inc[Other(q)] \subseteq 1 .. inc'[Other(q)]
      BY <1>3, OtherPeer
    <3>3. LocalKey(q)' = LocalKey(q)
      BY <3>1 DEF LocalKey
    <3> QED
      BY <3>1, <3>2, <3>3 DEF GoodSession, Genuine
  <2> QED
    BY <2>1, <2>2
<1>10. \A q \in Peer : Keyed(q)' => sess'[q].sessionKey # {}
  <2>1. pc[p] = IdleThreads
    BY <1>2 DEF IInv, TypeOK
  <2> QED
    BY <2>1, <1>2, <1>6, <1>7 DEF IInv, Keyed, KeyedStatus, IdleThreads, Thread
<1> QED
  BY <1>5, <1>8, <1>9, <1>10 DEF IInv

LEMMA EnvironmentKeepsIInv ==
  ASSUME IInv, NEW p \in Peer, Environment(p)
  PROVE  IInv'
<1>0. net[p] \in Seq(GoodMessage[p])
  BY DEF IInv
<1>1. CASE Lose(p)
  <2>1. net[p] # <<>> /\ net' = [net EXCEPT ![p] = Tail(net[p])]
        /\ losses' \in Nat /\ dups' \in Nat
        /\ UNCHANGED <<sess, known, alive, inc, pc, next, inits, refusals, restarts>>
    BY <1>1 DEF Lose, IInv, TypeOK
  <2>2. Tail(net[p]) \in Seq(GoodMessage[p])
    BY <1>0, <2>1, HeadTailProperties, Zenon
  <2> QED
    BY <2>1, <2>2, QueueOnlyKeepsIInv
<1>2. CASE Duplicate(p)
  <2>1. net[p] # <<>> /\ net' = [net EXCEPT ![p] = <<Head(net[p])>> \o net[p]]
        /\ losses' \in Nat /\ dups' \in Nat
        /\ UNCHANGED <<sess, known, alive, inc, pc, next, inits, refusals, restarts>>
    BY <1>2 DEF Duplicate, IInv, TypeOK
  <2>2. Head(net[p]) \in GoodMessage[p]
    BY <1>0, <2>1, HeadTailProperties, Zenon
  <2>3. <<Head(net[p])>> \in Seq(GoodMessage[p])
    BY <2>2, Singleton, Zenon
  <2>4. <<Head(net[p])>> \o net[p] \in Seq(GoodMessage[p])
    BY <1>0, <2>3, ConcatProperties, Zenon
  <2> QED
    BY <2>1, <2>4, QueueOnlyKeepsIInv
<1>3. CASE Crash(p)
  BY <1>3, DieKeepsIInv DEF Crash
<1>4. CASE Restart(p)
  BY <1>4, RestartKeepsIInv
<1> QED
  BY <1>1, <1>2, <1>3, <1>4 DEF Environment

-----------------------------------------------------------------------------
\* IInv holds initially and every step keeps it.
LEMMA InitIInv == Init => IInv
<1> SUFFICES ASSUME Init PROVE IInv
  OBVIOUS
<1>1. \A p \in Peer : /\ NewSession(p, 0) \in Session
                      /\ GoodSession(p, NewSession(p, 0))
                      /\ NewSession(p, 0).status = "notConnected"
  <2> SUFFICES ASSUME NEW p \in Peer
               PROVE  /\ NewSession(p, 0) \in Session
                      /\ GoodSession(p, NewSession(p, 0))
                      /\ NewSession(p, 0).status = "notConnected"
    OBVIOUS
  <2>1. 0 \in Nat /\ Other(p) \in Peer
    BY OtherPeer
  <2>2. Garbage(p) \in Nonce
    BY <2>1 DEF Garbage, Nonce
  <2>3. <<p, "nonce", 0>> \in DrawnNonce /\ DrawnNonce \subseteq Nonce
    BY <2>1 DEF DrawnNonce, Nonce
  <2>4. <<Other(p), 0>> \in Key
    BY <2>1 DEF Key
  <2> QED
    BY <2>2, <2>3, <2>4 DEF NewSession, Session, Status, GoodSession
<1>2. \A p \in Peer : net[p] \in Seq(GoodMessage[p])
  BY EmptySeq DEF Init
<1>3. net \in [Peer -> Seq(Message)]
  BY EmptySeq DEF Init
<1>4. TypeOK
  BY <1>1, <1>3, ConstantsOK DEF Init, TypeOK, IdleThreads, Label, Status
<1>5. \A p \in Peer : ~ Keyed(p)
  BY <1>1 DEF Init, Keyed, KeyedStatus, IdleThreads, Thread
<1> QED
  BY <1>1, <1>2, <1>4, <1>5 DEF Init, IInv

LEMMA NextIInv == IInv /\ [Next]_vars => IInv'
<1> SUFFICES ASSUME IInv, [Next]_vars PROVE IInv'
  OBVIOUS
<1>1. CASE UNCHANGED vars
  <2>1. UNCHANGED <<sess, known, alive, inc, pc, next, net, inits, losses, dups, refusals,
                  restarts>>
    BY <1>1 DEF vars, budgets
  <2>2. TypeOK'
    BY <2>1 DEF IInv, TypeOK
  <2>3. (\A p \in Peer : GoodSession(p, sess[p]))' /\ (\A p \in Peer : Keyed(p)' <=> Keyed(p))
    BY <2>1, SameInc DEF IInv, Keyed
  <2> QED
    BY <2>1, <2>2, <2>3, SameInc DEF IInv
<1>2. ASSUME NEW p \in Peer, AppCallsInitSession(p) PROVE IInv'
  BY <1>2, CallKeepsIInv
<1>3. ASSUME NEW p \in Peer, NEW t \in Thread, InitStep(p, t) PROVE IInv'
  BY <1>3, InitStepKeepsIInv
<1>4. ASSUME NEW p \in Peer, Handle(p) PROVE IInv'
  BY <1>4, HandleKeyKeepsIInv, HandleNonceKeepsIInv, HandleNonceHKeepsIInv,
     AlertKeepsIInv, FinishKeepsIInv DEF Handle
<1>5. ASSUME NEW p \in Peer, Environment(p) PROVE IInv'
  BY <1>5, EnvironmentKeepsIInv
<1> QED
  BY <1>1, <1>2, <1>3, <1>4, <1>5 DEF Next

\* The inductive invariant holds in every state.
LEMMA SpecIInv == Spec => []IInv
  BY InitIInv, NextIInv, PTL DEF Spec

\* Type correctness of sessions, queues and threads, for any number of
\* calls, losses, duplicates and restarts.
THEOREM SpecTypeOK == Spec => []TypeOK
<1>1. IInv => TypeOK
  BY DEF IInv
<1> QED
  BY <1>1, SpecIInv, PTL

\* A connected peer's session key comes from a key its buddy sent.
THEOREM SpecConnectedHasGenuineKey == Spec => []ConnectedHasGenuineKey
<1>1. IInv => ConnectedHasGenuineKey
  BY DEF IInv, ConnectedHasGenuineKey, Connected, Keyed, KeyedStatus, GoodSession
<1> QED
  BY <1>1, SpecIInv, PTL

-----------------------------------------------------------------------------
\* A process has only its first key pair until something restarts.
FirstKeys == restarts = 0 => \A p \in Peer : inc[p] = 1

\* No handler touches the key pairs or the restarts.
LEMMA HandleKeepsInc ==
  ASSUME NEW p \in Peer, Handle(p)
  PROVE  inc' = inc /\ restarts' = restarts
<1>1. ASSUME NEW s, NEW out, Store(p, s, out) PROVE inc' = inc /\ restarts' = restarts
  BY <1>1 DEF Store
<1>2. ASSUME NEW s, NEW out, NEW st, StoreThen(p, s, out, st)
      PROVE  inc' = inc /\ restarts' = restarts
  BY <1>1, <1>2 DEF StoreThen, StoreAndGoOn
<1>3. ASSUME NEW s, NEW out, StoreOnly(p, s, out) PROVE inc' = inc /\ restarts' = restarts
  BY <1>1, <1>3 DEF StoreOnly
<1>4. ASSUME NEW s, NEW out, Verdict(p, s, out) PROVE inc' = inc /\ restarts' = restarts
  BY <1>1, <1>2, <1>4 DEF Verdict, Refuse, StoreAndGoOn
<1>5. ASSUME Die(p) PROVE inc' = inc /\ restarts' = restarts
  BY <1>5 DEF Die, budgets
<1>6. CASE HandleKey(p)
  BY <1>2, <1>3, <1>4, <1>5, <1>6 DEF HandleKey, KeyNotConnected, KeyWaitKeyNonceHDest,
     KeyWaitKeyDest, KeyConnected, KeyIgnored
<1>7. CASE HandleNonce(p)
  BY <1>2, <1>5, <1>7 DEF HandleNonce, NonceWaitNonceInit, NonceWaitKeyNonceHDest,
     NonceConnected, NonceRefused
<1>8. CASE HandleNonceH(p)
  BY <1>3, <1>4, <1>8 DEF HandleNonceH, NonceHWaitKeyNonceHDest, NonceHWaitNonceHDest,
     NonceHWaitNonce2HInit, NonceHIgnored
<1>9. CASE AlertReceived(p) \/ HandlerFinish(p)
  BY <1>1, <1>9 DEF AlertReceived, HandlerFinish, budgets
<1> QED
  BY <1>6, <1>7, <1>8, <1>9 DEF Handle

LEMMA NextFirstKeys == TypeOK /\ FirstKeys /\ [Next]_vars => FirstKeys'
<1> SUFFICES ASSUME TypeOK, FirstKeys, [Next]_vars PROVE FirstKeys'
  OBVIOUS
<1>1. ASSUME inc' = inc, restarts' = restarts PROVE FirstKeys'
  BY <1>1 DEF FirstKeys
<1>2. CASE UNCHANGED vars
  BY <1>1, <1>2 DEF vars, budgets
<1>3. ASSUME NEW p \in Peer, AppCallsInitSession(p) PROVE FirstKeys'
  BY <1>1, <1>3 DEF AppCallsInitSession
<1>4. ASSUME NEW p \in Peer, NEW t \in Thread, InitStep(p, t) PROVE FirstKeys'
  BY <1>1, <1>4 DEF InitStep, InitWithoutSession, InitSuppressed, InitBegin, InitSendKey,
     InitSendNonce, InitSetStatus, Die, budgets
<1>5. ASSUME NEW p \in Peer, Handle(p) PROVE FirstKeys'
  BY <1>1, <1>5, HandleKeepsInc
<1>6. ASSUME NEW p \in Peer, Environment(p) PROVE FirstKeys'
  <2>1. CASE Lose(p) \/ Duplicate(p) \/ Crash(p)
    BY <1>1, <2>1 DEF Lose, Duplicate, Crash, Die, budgets
  <2>2. CASE Restart(p)
    BY <2>2 DEF Restart, TypeOK, FirstKeys
  <2> QED
    BY <1>6, <2>1, <2>2 DEF Environment
<1> QED
  BY <1>2, <1>3, <1>4, <1>5, <1>6 DEF Next

\* Without a restart two connected peers hold the same session key, whatever
\* is lost, repeated or interleaved.
THEOREM SpecKeyAgreement == Spec => []KeyAgreement
<1>1. Init => FirstKeys
  BY DEF Init, FirstKeys
<1>2. IInv => TypeOK
  BY DEF IInv
<1>3. IInv /\ FirstKeys => KeyAgreement
  <2> SUFFICES ASSUME IInv, FirstKeys, restarts = 0, NEW p \in Peer, Connected(p)
               PROVE  sess[p].sessionKey = {LocalKey(A), LocalKey(B)}
    BY DEF KeyAgreement
  <2>1. Genuine(p, sess[p].sessionKey)
    BY DEF IInv, Connected, Keyed, KeyedStatus, GoodSession
  <2>2. inc[p] = 1 /\ inc[Other(p)] = 1
    BY OtherPeer DEF FirstKeys
  <2>3. sess[p].sessionKey = {<<p, 1>>, <<Other(p), 1>>}
    BY <2>1, <2>2 DEF Genuine, LocalKey
  <2>4. inc[A] = 1 /\ inc[B] = 1
    BY DEF FirstKeys, Peer
  <2> QED
    BY <2>3, <2>4, PeersDiffer DEF Peer, Other, LocalKey
<1> QED
  BY <1>1, <1>2, <1>3, SpecIInv, NextFirstKeys, PTL DEF Spec

-----------------------------------------------------------------------------
(***************************************************************************)
(* Smkex implements SessionKeys.                                           *)
(***************************************************************************)
KeyOf == [p \in Peer |-> sess[p].sessionKey]
UpPeers == {p \in Peer : Connected(p)}

\* A step that leaves keys and connections alone is a stutter of SessionKeys.
LEMMA Stutters ==
  ASSUME IInv, inc' = inc, NEW p \in Peer, NEW s \in Session,
         sess' = [sess EXCEPT ![p] = s],
         s.sessionKey = sess[p].sessionKey, s.status = sess[p].status
  PROVE  UNCHANGED SK!vars
<1>1. \A q \in Peer : sess'[q].sessionKey = sess[q].sessionKey
                      /\ sess'[q].status = sess[q].status
  BY DEF IInv, TypeOK
<1> QED
  BY <1>1 DEF SK!vars, Connected

\* A step of p that only assigns a status, to "connected" only with a key.
LEMMA StatusStep ==
  ASSUME IInv, inc' = inc, NEW p \in Peer, NEW s \in Session,
         sess' = [sess EXCEPT ![p] = s],
         s.sessionKey = sess[p].sessionKey,
         s.status = "connected" => s.sessionKey # {}
  PROVE  SK!Next
<1>1. \A q \in Peer : sess'[q] = IF q = p THEN s ELSE sess[q]
  BY DEF IInv, TypeOK
<1>2. KeyOf' = KeyOf
  BY <1>1 DEF KeyOf
<1>3. CASE s.status = "connected"
  <2>1. UpPeers' = UpPeers \cup {p}
    BY <1>1, <1>3 DEF UpPeers, Connected
  <2>2. KeyOf[p] # {}
    BY <1>3 DEF KeyOf
  <2>3. SK!Connect(p)
    BY <1>2, <2>1, <2>2 DEF SK!Connect, KeyOf, UpPeers
  <2> QED
    BY <2>3 DEF SK!Next, SK!Peer, Peer
<1>4. CASE s.status # "connected"
  <2>1. UpPeers' = UpPeers \ {p}
    BY <1>1, <1>4 DEF UpPeers, Connected
  <2>2. SK!Disconnect(p)
    BY <1>2, <2>1 DEF SK!Disconnect, KeyOf, UpPeers
  <2> QED
    BY <2>2 DEF SK!Next, SK!Peer, Peer
<1> QED
  BY <1>3, <1>4

\* A handler that derives a key does so under a session that is not connected.
LEMMA DeriveStep ==
  ASSUME IInv, inc' = inc, NEW p \in Peer, NEW s \in Session,
         sess' = [sess EXCEPT ![p] = s],
         s.status = sess[p].status, s.status # "connected",
         Genuine(p, s.sessionKey)
  PROVE  SK!Next
<1>1. \A q \in Peer : sess'[q] = IF q = p THEN s ELSE sess[q]
  BY DEF IInv, TypeOK
<1>2. PICK i \in 1 .. inc[Other(p)] : s.sessionKey = {<<p, inc[p]>>, <<Other(p), i>>}
  BY DEF Genuine, LocalKey
<1>3. KeyOf' = [KeyOf EXCEPT ![p] = s.sessionKey]
  <2>1. \A q \in Peer : KeyOf'[q] = IF q = p THEN s.sessionKey ELSE KeyOf[q]
    BY <1>1 DEF KeyOf
  <2>2. KeyOf = [q \in Peer |-> KeyOf[q]] /\ KeyOf' = [q \in Peer |-> KeyOf'[q]]
    BY DEF KeyOf
  <2> HIDE DEF KeyOf
  <2> QED
    BY <2>1, <2>2
<1>4. UpPeers' = UpPeers /\ p \notin UpPeers
  BY <1>1 DEF UpPeers, Connected
<1>5. SK!Other(p) = Other(p) /\ p \in SK!Peer
  BY DEF SK!Other, Other, SK!Peer, Peer
<1>6. SK!Derive(p)
  BY <1>2, <1>3, <1>4, <1>5 DEF SK!Derive, KeyOf, UpPeers
<1> QED
  BY <1>5, <1>6 DEF SK!Next

\* The three shapes of a handler's first step.
LEMMA StoreSession ==
  ASSUME NEW p \in Peer, NEW s, NEW out, Store(p, s, out)
  PROVE  inc' = inc /\ sess' = [sess EXCEPT ![p] = s]
BY DEF Store

LEMMA StoreThenSession ==
  ASSUME NEW p \in Peer, NEW s, NEW out, NEW st, StoreThen(p, s, out, st)
  PROVE  inc' = inc /\ sess' = [sess EXCEPT ![p] = s]
BY StoreSession DEF StoreThen, StoreAndGoOn

LEMMA VerdictSession ==
  ASSUME NEW p \in Peer, NEW s, NEW out, Verdict(p, s, out)
  PROVE  inc' = inc /\ sess' = [sess EXCEPT ![p] = s]
BY StoreSession DEF Verdict, Refuse, StoreThen, StoreAndGoOn

LEMMA DieStutters == ASSUME NEW p \in Peer, Die(p) PROVE UNCHANGED SK!vars
BY DEF Die, SK!vars, Connected

\* The key handlers derive, or leave the session key alone.
LEMMA HandleKeyRefines ==
  ASSUME IInv, NEW p \in Peer, HandleKey(p)
  PROVE  [SK!Next]_(SK!vars)
<1> DEFINE s == [sess[p] EXCEPT !.remoteKey = Head(net[p]).key]
           t == WithSessionKey(p, s)
<1>0. sess[p] \in Session
  BY DEF IInv, TypeOK
<1>1. ASSUME NEW st, Receives(p, "handshakeKey", st)
      PROVE  /\ s \in Session /\ s.sessionKey = sess[p].sessionKey
             /\ s.status = sess[p].status /\ t.status = sess[p].status
             /\ t \in Session /\ Genuine(p, t.sessionKey)
             /\ sess[p].status \in st
  <2>1. s \in Session /\ t \in Session /\ GoodSession(p, t) /\ t.sessionKey # {}
    BY <1>1, KeyStored
  <2>2. sess[p].status \in st
    BY <1>1, HandlerFacts
  <2> QED
    BY <1>0, <2>1, <2>2 DEF GoodSession, WithSessionKey, Session
<1>2. ASSUME Receives(p, "handshakeKey",
                      {"notConnected", "waitKeyNonceHDest", "waitKeyDest"}),
             inc' = inc, sess' = [sess EXCEPT ![p] = t]
      PROVE  SK!Next
  <2>1. t \in Session /\ t.status = sess[p].status /\ t.status # "connected"
        /\ Genuine(p, t.sessionKey)
    BY <1>1, <1>2
  <2> HIDE DEF t
  <2> QED
    BY <1>2, <2>1, DeriveStep
<1>3. CASE KeyNotConnected(p) \/ KeyWaitKeyNonceHDest(p) \/ KeyWaitKeyDest(p)
  <2>1. Receives(p, "handshakeKey",
                 {"notConnected", "waitKeyNonceHDest", "waitKeyDest"})
    BY <1>3 DEF KeyNotConnected, KeyWaitKeyNonceHDest, KeyWaitKeyDest, Receives
  <2>2. inc' = inc /\ sess' = [sess EXCEPT ![p] = t]
    BY <1>3, StoreThenSession, VerdictSession
       DEF KeyNotConnected, KeyWaitKeyNonceHDest, KeyWaitKeyDest
  <2> QED
    BY <1>2, <2>1, <2>2
<1>4. CASE KeyConnected(p) /\ ~ Die(p)
  <2>1. Receives(p, "handshakeKey", {"connected"})
        /\ inc' = inc /\ sess' = [sess EXCEPT ![p] = s]
    BY <1>4, StoreThenSession DEF KeyConnected
  <2>2. s \in Session /\ s.sessionKey = sess[p].sessionKey /\ s.status = sess[p].status
    BY <1>1, <2>1
  <2> HIDE DEF s
  <2> QED
    BY <2>1, <2>2, Stutters
<1>5. CASE KeyIgnored(p)
  <2>1. inc' = inc /\ sess' = [sess EXCEPT ![p] = sess[p]]
    BY <1>5, StoreSession DEF KeyIgnored, StoreOnly
  <2> QED
    BY <1>0, <2>1, Stutters
<1>6. CASE Die(p)
  BY <1>6, DieStutters
<1> QED
  BY <1>3, <1>4, <1>5, <1>6 DEF HandleKey

\* The nonce handlers leave keys and status alone.
LEMMA HandleNonceRefines ==
  ASSUME IInv, NEW p \in Peer, HandleNonce(p) \/ HandleNonceH(p)
  PROVE  UNCHANGED SK!vars
<1> DEFINE s == [sess[p] EXCEPT !.remoteNonce = Head(net[p]).nonce]
           h == WithNonceH(p)
           hs == [h EXCEPT !.remoteNonce = Head(net[p]).nonce]
<1>0. sess[p] \in Session
  BY DEF IInv, TypeOK
<1>1. CASE Die(p)
  BY <1>1, DieStutters
<1>2. CASE HandleNonce(p) /\ ~ Die(p)
  <2>1. inc' = inc /\ (\/ sess' = [sess EXCEPT ![p] = s]
                       \/ sess' = [sess EXCEPT ![p] = sess[p]])
        /\ \E st : Receives(p, "handshakeNonce", st)
    BY <1>2, StoreThenSession DEF HandleNonce, NonceWaitNonceInit,
       NonceWaitKeyNonceHDest, NonceConnected, NonceRefused
  <2>2. s \in Session
    BY <2>1, NonceStored
  <2>3. s.sessionKey = sess[p].sessionKey /\ s.status = sess[p].status
    BY <1>0 DEF Session
  <2> HIDE DEF s
  <2> QED
    BY <1>0, <2>1, <2>2, <2>3, Stutters
<1>3. CASE HandleNonceH(p)
  <2>1. inc' = inc /\ (\/ sess' = [sess EXCEPT ![p] = h]
                       \/ sess' = [sess EXCEPT ![p] = hs])
        /\ \E st : Receives(p, "handshakeNonceH", st)
    BY <1>3, StoreSession, VerdictSession DEF HandleNonceH, NonceHWaitKeyNonceHDest,
       NonceHWaitNonceHDest, NonceHWaitNonce2HInit, NonceHIgnored, StoreOnly
  <2>2. h \in Session /\ hs \in Session
    BY <2>1, NonceHStored
  <2>3. /\ h.sessionKey = sess[p].sessionKey /\ h.status = sess[p].status
        /\ hs.sessionKey = sess[p].sessionKey /\ hs.status = sess[p].status
    BY <1>0 DEF Session, WithNonceH
  <2> HIDE DEF h, hs
  <2> QED
    BY <2>1, <2>2, <2>3, Stutters
<1> QED
  BY <1>1, <1>2, <1>3

\* A thread that begins or is in initSession.
LEMMA InitStepRefines ==
  ASSUME IInv, NEW p \in Peer, NEW t \in Thread, InitStep(p, t)
  PROVE  [SK!Next]_(SK!vars)
<1>0. sess[p] \in Session
  BY DEF IInv, TypeOK
<1>1. CASE InitWithoutSession(p, t)
  BY <1>1, DieStutters DEF InitWithoutSession
<1>2. CASE InitSuppressed(p, t)
  <2> DEFINE s == [sess[p] EXCEPT !.iAmSessionInitiator = TRUE]
  <2>1. inc' = inc /\ sess' = [sess EXCEPT ![p] = s]
    BY <1>2, <1>0 DEF InitSuppressed, IInv, TypeOK, Session
  <2>2. s \in Session /\ s.sessionKey = sess[p].sessionKey /\ s.status = sess[p].status
    BY <1>0 DEF Session
  <2> HIDE DEF s
  <2> QED
    BY <2>1, <2>2, Stutters
<1>3. CASE InitBegin(p, t)
  <2>1. PICK i \in NonceId :
          sess' = [sess EXCEPT ![p].iAmSessionInitiator = TRUE,
                               ![p].localNonce = <<p, "nonce", i>>]
    BY <1>3 DEF InitBegin
  <2> DEFINE n == <<p, "nonce", i>>
             s == [sess[p] EXCEPT !.iAmSessionInitiator = TRUE, !.localNonce = n]
  <2>2. n \in Nonce
    BY ConstantsOK DEF Nonce
  <2> HIDE DEF n
  <2>3. s \in Session /\ s.sessionKey = sess[p].sessionKey /\ s.status = sess[p].status
    BY <1>0, <2>2 DEF Session
  <2>4. inc' = inc /\ sess' = [sess EXCEPT ![p] = s]
    BY <1>3, <1>0, <2>1 DEF InitBegin, IInv, TypeOK, Session, n
  <2> HIDE DEF s
  <2> QED
    BY <2>3, <2>4, Stutters
<1>4. CASE InitSendKey(p, t) \/ InitSendNonce(p, t)
  BY <1>4 DEF InitSendKey, InitSendNonce, SK!vars, Connected
<1>5. CASE InitSetStatus(p, t)
  <2> DEFINE s == [sess[p] EXCEPT !.status = "waitKeyNonceHDest"]
  <2>1. inc' = inc /\ sess' = [sess EXCEPT ![p] = s]
    BY <1>5, <1>0 DEF InitSetStatus, IInv, TypeOK, Session
  <2>2. s \in Session /\ s.sessionKey = sess[p].sessionKey
        /\ s.status = "waitKeyNonceHDest"
    BY <1>0 DEF Session, Status
  <2> HIDE DEF s
  <2> QED
    BY <2>1, <2>2, StatusStep
<1> QED
  BY <1>1, <1>2, <1>3, <1>4, <1>5 DEF InitStep

\* The alert and the second step of a handler only assign a status.
LEMMA StatusRefines ==
  ASSUME IInv, NEW p \in Peer, AlertReceived(p) \/ HandlerFinish(p)
  PROVE  SK!Next
<1>0. sess[p] \in Session
  BY DEF IInv, TypeOK
<1>1. CASE AlertReceived(p)
  <2> DEFINE s == [sess[p] EXCEPT !.status = "notConnected"]
  <2>1. inc' = inc /\ sess' = [sess EXCEPT ![p] = s]
    BY <1>1, StoreSession DEF AlertReceived
  <2>2. s \in Session /\ s.sessionKey = sess[p].sessionKey /\ s.status = "notConnected"
    BY <1>0 DEF Session, Status
  <2> HIDE DEF s
  <2> QED
    BY <2>1, <2>2, StatusStep
<1>2. CASE HandlerFinish(p)
  <2> DEFINE s == [sess[p] EXCEPT !.status = next[p]]
  <2>1. inc' = inc /\ sess' = [sess EXCEPT ![p] = s]
    BY <1>2, <1>0 DEF HandlerFinish, IInv, TypeOK, Session
  <2>2. s \in Session /\ s.sessionKey = sess[p].sessionKey /\ s.status = next[p]
    BY <1>0 DEF Session, IInv, TypeOK
  <2>3. next[p] = "connected" => sess[p].sessionKey # {}
    BY <1>2 DEF HandlerFinish, IInv, Keyed, KeyedStatus
  <2> HIDE DEF s
  <2> QED
    BY <2>1, <2>2, <2>3, StatusStep
<1> QED
  BY <1>1, <1>2

\* A restart forgets the key and the connection.
LEMMA RestartRefines ==
  ASSUME IInv, NEW p \in Peer, Restart(p)
  PROVE  SK!Next
<1>1. PICK i \in NonceId : sess' = [sess EXCEPT ![p] = NewSession(p, i)]
  BY DEF Restart
<1> DEFINE s == NewSession(p, i)
<1>2. s.sessionKey = {} /\ s.status = "notConnected"
  BY DEF NewSession
<1> HIDE DEF s
<1>3. \A q \in Peer : sess'[q] = IF q = p THEN s ELSE sess[q]
  BY <1>1 DEF IInv, TypeOK, s
<1>4. KeyOf' = [KeyOf EXCEPT ![p] = {}]
  <2>1. \A q \in Peer : KeyOf'[q] = IF q = p THEN {} ELSE KeyOf[q]
    BY <1>2, <1>3 DEF KeyOf
  <2>2. KeyOf = [q \in Peer |-> KeyOf[q]] /\ KeyOf' = [q \in Peer |-> KeyOf'[q]]
    BY DEF KeyOf
  <2> HIDE DEF KeyOf
  <2> QED
    BY <2>1, <2>2
<1>5. UpPeers' = UpPeers \ {p}
  BY <1>2, <1>3 DEF UpPeers, Connected
<1>6. inc' = [inc EXCEPT ![p] = @ + 1]
  BY DEF Restart
<1>7. SK!Restart(p)
  BY <1>4, <1>5, <1>6 DEF SK!Restart, KeyOf, UpPeers
<1> QED
  BY <1>7 DEF SK!Next, SK!Peer, Peer

\* Every step of Smkex is a step of SessionKeys or a stutter.
LEMMA NextRefines == IInv /\ [Next]_vars => [SK!Next]_(SK!vars)
<1> SUFFICES ASSUME IInv, [Next]_vars PROVE [SK!Next]_(SK!vars)
  OBVIOUS
<1>1. CASE UNCHANGED vars
  BY <1>1 DEF vars, budgets, SK!vars, Connected
<1>2. ASSUME NEW p \in Peer, AppCallsInitSession(p) PROVE [SK!Next]_(SK!vars)
  BY <1>2 DEF AppCallsInitSession, SK!vars, Connected
<1>3. ASSUME NEW p \in Peer, NEW t \in Thread, InitStep(p, t)
      PROVE  [SK!Next]_(SK!vars)
  BY <1>3, InitStepRefines
<1>4. ASSUME NEW p \in Peer, Handle(p) PROVE [SK!Next]_(SK!vars)
  <2>1. CASE HandleKey(p)
    BY <2>1, HandleKeyRefines
  <2>2. CASE HandleNonce(p) \/ HandleNonceH(p)
    BY <2>2, HandleNonceRefines
  <2>3. CASE AlertReceived(p) \/ HandlerFinish(p)
    BY <2>3, StatusRefines
  <2> QED
    BY <1>4, <2>1, <2>2, <2>3 DEF Handle
<1>5. ASSUME NEW p \in Peer, Environment(p) PROVE [SK!Next]_(SK!vars)
  <2>1. CASE Lose(p) \/ Duplicate(p)
    BY <2>1 DEF Lose, Duplicate, SK!vars, Connected
  <2>2. CASE Crash(p)
    BY <1>5, <2>2, DieStutters DEF Crash
  <2>3. CASE Restart(p)
    BY <2>3, RestartRefines
  <2> QED
    BY <1>5, <2>1, <2>2, <2>3 DEF Environment
<1> QED
  BY <1>1, <1>2, <1>3, <1>4, <1>5 DEF Next

\* The handshake, with all its messages, interleavings, losses and restarts,
\* promises what SessionKeys states.
THEOREM SpecImplementsSessionKeys == Spec => ImplementsSessionKeys
<1>1. Init => SK!Init
  <2> SUFFICES ASSUME Init PROVE SK!Init
    OBVIOUS
  <2>1. \A p \in Peer : sess[p].sessionKey = {} /\ sess[p].status = "notConnected"
    BY DEF Init, NewSession
  <2>2. KeyOf = [p \in Peer |-> {}]
    BY <2>1 DEF KeyOf
  <2>3. {p \in Peer : Connected(p)} = {}
    BY <2>1 DEF Connected
  <2>4. inc = [p \in SK!Peer |-> 1] /\ SK!Peer = Peer
    BY DEF Init, SK!Peer, Peer
  <2> QED
    BY <2>2, <2>3, <2>4 DEF SK!Init, KeyOf
<1> QED
  BY <1>1, SpecIInv, NextRefines, PTL DEF Spec, ImplementsSessionKeys, SK!Spec

-----------------------------------------------------------------------------
(***************************************************************************)
(* The backlog.  Records other than keys are never multiplied: each goes   *)
(* back to a call of initSession or a repetition, and to one record of its *)
(* kind at a time.  A key is sent as an answer once until the peer is back *)
(* in notConnected, so behind each place in a queue keys are bounded by    *)
(* the other records.                                                      *)
(***************************************************************************)
KeyType == {"handshakeKey"}
OtherType == {"handshakeNonce", "handshakeNonceH", "alert"}

\* How many records of types ts there are in s from place j on.
Places(s, j, ts) == {i \in j .. Len(s) : s[i].type \in ts}
Count(s, j, ts) == Cardinality(Places(s, j, ts))
One(m, ts) == IF m.type \in ts THEN 1 ELSE 0

LEMMA CountNat ==
  ASSUME NEW s \in Seq(Message), NEW j \in Nat, NEW ts
  PROVE  IsFiniteSet(Places(s, j, ts)) /\ Count(s, j, ts) \in Nat
<1>1. Len(s) \in Nat /\ j \in Int
  BY LenProperties
<1>2. IsFiniteSet(j .. Len(s))
  BY <1>1, FS_Interval
<1>3. Places(s, j, ts) \in SUBSET (j .. Len(s))
  BY DEF Places
<1>4. IsFiniteSet(Places(s, j, ts))
  BY <1>2, <1>3, FS_Subset
<1> QED
  BY <1>4, FS_CardinalityType DEF Count

\* The first record from place j on counts, or it does not.
LEMMA CountFirst ==
  ASSUME NEW s \in Seq(Message), NEW j \in 1 .. Len(s), NEW ts
  PROVE  Count(s, j, ts) = Count(s, j + 1, ts) + One(s[j], ts)
<1>1. Len(s) \in Nat /\ j \in Nat /\ j + 1 \in Nat
  BY LenProperties
<1>2. IsFiniteSet(Places(s, j + 1, ts)) /\ Count(s, j + 1, ts) \in Nat
  BY <1>1, CountNat
<1>3. j \notin Places(s, j + 1, ts)
  BY <1>1 DEF Places
<1>4. CASE s[j].type \in ts
  <2>1. Places(s, j, ts) = Places(s, j + 1, ts) \cup {j}
    BY <1>1, <1>4 DEF Places
  <2> QED
    BY <1>2, <1>3, <1>4, <2>1, FS_AddElement DEF Count, One
<1>5. CASE s[j].type \notin ts
  <2>1. Places(s, j, ts) = Places(s, j + 1, ts)
    BY <1>1, <1>5 DEF Places
  <2> QED
    BY <1>2, <1>5, <2>1 DEF Count, One
<1> QED
  BY <1>4, <1>5

\* Nothing is counted behind the end.
LEMMA CountEnd ==
  ASSUME NEW s \in Seq(Message), NEW ts
  PROVE  Count(s, Len(s) + 1, ts) = 0
<1>1. Places(s, Len(s) + 1, ts) = {}
  BY LenProperties DEF Places
<1> QED
  BY <1>1, FS_EmptySet DEF Count

\* A record is added at the end.
LEMMA CountAppend ==
  ASSUME NEW s \in Seq(Message), NEW m \in Message, NEW j \in 1 .. Len(s) + 1, NEW ts
  PROVE  Count(Append(s, m), j, ts) = Count(s, j, ts) + One(m, ts)
<1> DEFINE n == Len(s) + 1
<1>1. Len(s) \in Nat /\ j \in Nat
  BY LenProperties
<1>2. /\ Len(Append(s, m)) = n /\ Append(s, m)[n] = m
      /\ \A i \in 1 .. Len(s) : Append(s, m)[i] = s[i]
  BY AppendProperties
<1>3. IsFiniteSet(Places(s, j, ts)) /\ Count(s, j, ts) \in Nat
  BY <1>1, CountNat
<1>4. n \notin Places(s, j, ts)
  BY <1>1 DEF Places
<1>5. CASE m.type \in ts
  <2>1. Places(Append(s, m), j, ts) = Places(s, j, ts) \cup {n}
    BY <1>1, <1>2, <1>5 DEF Places
  <2> QED
    BY <1>3, <1>4, <1>5, <2>1, FS_AddElement DEF Count, One
<1>6. CASE m.type \notin ts
  <2>1. Places(Append(s, m), j, ts) = Places(s, j, ts)
    BY <1>1, <1>2, <1>6 DEF Places
  <2> QED
    BY <1>3, <1>6, <2>1 DEF Count, One
<1> QED
  BY <1>5, <1>6

\* Without the first record all places move up by one.
LEMMA CountTail ==
  ASSUME NEW s \in Seq(Message), s # <<>>, NEW j \in Nat \ {0}, NEW ts
  PROVE  Count(Tail(s), j, ts) = Count(s, j + 1, ts)
<1> DEFINE f == [i \in Places(Tail(s), j, ts) |-> i + 1]
<1>1. /\ Len(s) \in Nat /\ Tail(s) \in Seq(Message) /\ Len(Tail(s)) = Len(s) - 1
      /\ \A i \in 1 .. Len(Tail(s)) : Tail(s)[i] = s[i + 1]
  BY LenProperties, HeadTailProperties
<1>2. \A i \in Places(Tail(s), j, ts) : i \in Nat /\ i + 1 \in Places(s, j + 1, ts)
  BY <1>1 DEF Places
<1>3. \A k \in Places(s, j + 1, ts) : k - 1 \in Places(Tail(s), j, ts) /\ (k - 1) + 1 = k
  BY <1>1 DEF Places
<1>4. f \in Bijection(Places(Tail(s), j, ts), Places(s, j + 1, ts))
  <2>1. f \in [Places(Tail(s), j, ts) -> Places(s, j + 1, ts)]
    BY <1>2
  <2>2. \A x, y \in Places(Tail(s), j, ts) : f[x] = f[y] => x = y
    BY <1>2
  <2>3. \A k \in Places(s, j + 1, ts) : \E i \in Places(Tail(s), j, ts) : f[i] = k
    BY <1>3
  <2> QED
    BY <2>1, <2>2, <2>3 DEF Bijection, Injection, Surjection, IsInjective
<1>5. ExistsBijection(Places(Tail(s), j, ts), Places(s, j + 1, ts))
  BY <1>4 DEF ExistsBijection
<1>6. IsFiniteSet(Places(Tail(s), j, ts))
  BY <1>1, CountNat
<1> QED
  BY <1>5, <1>6, FS_Bijection DEF Count

\* The record that is received no longer counts.
LEMMA CountHead ==
  ASSUME NEW s \in Seq(Message), s # <<>>, NEW ts
  PROVE  Count(s, 1, ts) = Count(Tail(s), 1, ts) + One(Head(s), ts)
<1>1. Len(s) \in Nat \ {0} /\ s[1] = Head(s)
  BY EmptySeq, LenProperties
<1>2. Count(s, 1, ts) = Count(s, 2, ts) + One(s[1], ts)
  BY <1>1, CountFirst
<1>3. Count(Tail(s), 1, ts) = Count(s, 2, ts)
  BY CountTail
<1> QED
  BY <1>1, <1>2, <1>3

\* Every record is a key or one of the others.
LEMMA CountAll ==
  ASSUME NEW s \in Seq(Message)
  PROVE  Len(s) = Count(s, 1, KeyType) + Count(s, 1, OtherType)
<1> DEFINE K == Places(s, 1, KeyType)
           O == Places(s, 1, OtherType)
<1>1. Len(s) \in Nat
  BY LenProperties
<1>2. IsFiniteSet(K) /\ IsFiniteSet(O) /\ Cardinality(K) \in Nat /\ Cardinality(O) \in Nat
  BY CountNat DEF Count
<1>3. \A i \in 1 .. Len(s) : s[i].type \in KeyType \cup OtherType
  <2>1. \A m \in Message : m.type \in KeyType \cup OtherType
    BY DEF Message, KeyType, OtherType
  <2> QED
    BY <2>1, ElementOfSeq
<1>4. K \cup O = 1 .. Len(s)
  BY <1>3 DEF Places
<1>5. K \cap O = {}
  BY DEF Places, KeyType, OtherType
<1>6. Cardinality(1 .. Len(s)) = Len(s)
  <2>1. 1 \in Int /\ Len(s) \in Int
    BY <1>1
  <2>2. Cardinality(1 .. Len(s)) = IF 1 > Len(s) THEN 0 ELSE Len(s) - 1 + 1
    BY <2>1, FS_Interval, Zenon
  <2> QED
    BY <1>1, <2>2
<1>7. Cardinality(K \cup O) = Len(s)
  BY <1>4, <1>6, Zenon
<1>8. Cardinality(K \cup O) = Cardinality(K) + Cardinality(O) - Cardinality(K \cap O)
  BY <1>2, FS_Union, Zenon
<1>9. Cardinality(K \cap O) = 0
  BY <1>5, FS_EmptySet
<1>10. Cardinality(K) + Cardinality(O) - 0 = Len(s)
  BY <1>7, <1>8, <1>9, Zenon
<1> HIDE DEF K, O
<1>11. Len(s) = Cardinality(K) + Cardinality(O)
  BY <1>1, <1>2, <1>10
<1> QED
  BY <1>11 DEF Count, K, O

-----------------------------------------------------------------------------
\* The status the handler or the thread of p leaves it in.
Settled(p) == IF pc[p]["sip"] = "finish" THEN next[p] ELSE sess[p].status

\* A thread in initSession has not sent its nonce yet, and may have sent a key.
Begun(label) == IF label \in {"init", "sendKey", "sendNonce"} THEN 1 ELSE 0
Owed(label) == IF label = "sendNonce" THEN 2 ELSE Begun(label)

\* In waitKeyDest the answer to a nonce is still to come; out of notConnected
\* no key is answered.
Kept(status) == IF status = "waitKeyDest" THEN 1 ELSE 0
Replied(status) == IF status = "notConnected" THEN 0 ELSE 1

\* The records other than keys that are on their way to p or that p will send.
InHand(p) ==
  Begun(pc[p]["app"]) + Begun(pc[p]["sip"]) + IF p \in alive THEN Kept(Settled(p)) ELSE 0
Due(p) == Count(net[p], 1, OtherType) + InHand(p)

\* The keys p may have sent since it sent another record.
Room(p) == Owed(pc[p]["app"]) + Owed(pc[p]["sip"]) + Replied(Settled(p))

Spent == inits[A] + inits[B] + dups + refusals

\* How many of the records that were allowed exist no more.
Slack == Spent - Due(A) - Due(B)

Spaced(q, p) ==
  \A j \in 1 .. Len(net[q]) + 1 :
    Count(net[q], j, KeyType) <= 2 * Count(net[q], j, OtherType) + Room(p) + Slack

\* The dead have nothing on its way.
Silent == \A p \in Peer : p \notin alive => net[Other(p)] = <<>>

BacklogInv ==
  /\ 0 <= Slack
  /\ \A p \in Peer : Spaced(Other(p), p)
  /\ Silent

\* All of these are numbers.
LEMMA NumbersOK ==
  ASSUME TypeOK
  PROVE  /\ Slack \in Int /\ Spent \in Nat
         /\ \A p \in Peer : /\ InHand(p) \in Nat /\ Room(p) \in Nat /\ Due(p) \in Nat
                            /\ Count(net[p], 1, OtherType) \in Nat
         /\ \A p \in Peer : Slack = Spent - Due(p) - Due(Other(p))
<1>1. A \in Peer /\ B \in Peer
  BY DEF Peer
<1>2. Spent \in Nat
  BY <1>1 DEF Spent, TypeOK
<1>3. ASSUME NEW p \in Peer
      PROVE  /\ InHand(p) \in Nat /\ Room(p) \in Nat /\ Due(p) \in Nat
             /\ Count(net[p], 1, OtherType) \in Nat
  <2>1. Count(net[p], 1, OtherType) \in Nat
    BY CountNat DEF TypeOK
  <2>2. InHand(p) \in Nat
    BY DEF InHand, Begun, Kept
  <2>3. Room(p) \in Nat
    BY DEF Room, Owed, Begun, Replied
  <2> QED
    BY <2>1, <2>2, <2>3 DEF Due
<1>4. ASSUME NEW p \in Peer PROVE Slack = Spent - Due(p) - Due(Other(p))
  BY <1>1, <1>2, <1>3, PeersDiffer DEF Slack, Other, Peer
<1> QED
  BY <1>1, <1>2, <1>3, <1>4 DEF Slack

\* The same of the next state.
LEMMA NumbersPrimed ==
  ASSUME TypeOK'
  PROVE  /\ Slack' \in Int /\ Spent' \in Nat
         /\ \A p \in Peer : /\ InHand(p)' \in Nat /\ Room(p)' \in Nat /\ Due(p)' \in Nat
                            /\ Count(net'[p], 1, OtherType) \in Nat
         /\ \A p \in Peer : Slack' = Spent' - Due(p)' - Due(Other(p))'
<1>1. A \in Peer /\ B \in Peer
  BY DEF Peer
<1>2. Spent' \in Nat
  BY <1>1 DEF Spent, TypeOK
<1>3. ASSUME NEW p \in Peer
      PROVE  /\ InHand(p)' \in Nat /\ Room(p)' \in Nat /\ Due(p)' \in Nat
             /\ Count(net'[p], 1, OtherType) \in Nat
  <2>1. Count(net'[p], 1, OtherType) \in Nat
    BY CountNat DEF TypeOK
  <2>2. InHand(p)' \in Nat
    BY DEF InHand, Begun, Kept
  <2>3. Room(p)' \in Nat
    BY DEF Room, Owed, Begun, Replied
  <2> QED
    BY <2>1, <2>2, <2>3 DEF Due
<1>4. ASSUME NEW p \in Peer PROVE Slack' = Spent' - Due(p)' - Due(Other(p))'
  BY <1>1, <1>2, <1>3, PeersDiffer DEF Slack, Other, Peer
<1> QED
  BY <1>1, <1>2, <1>3, <1>4 DEF Slack

\* The sum behind BacklogInvBounds.
LEMMA BacklogSum ==
  ASSUME NEW ka \in Nat, NEW kb \in Nat, NEW oa \in Nat, NEW ob \in Nat,
         NEW ha \in Nat, NEW hb \in Nat, NEW ra \in Nat, NEW rb \in Nat,
         NEW spent \in Nat, NEW slack \in Nat,
         slack = spent - (oa + ha) - (ob + hb),
         ra <= 2 * ha + 1, rb <= 2 * hb + 1,
         ka <= 2 * oa + rb + slack, kb <= 2 * ob + ra + slack
  PROVE  (ka + oa) + (kb + ob) <= 3 * spent + 2
OBVIOUS

\* The invariant bounds the backlog.
LEMMA BacklogInvBounds ==
  ASSUME TypeOK, BacklogInv
  PROVE  BacklogBounded
<1>1. A \in Peer /\ B \in Peer /\ Other(A) = B /\ Other(B) = A
  BY PeersDiffer DEF Peer, Other
<1>2. /\ Spaced(A, B) /\ Spaced(B, A)
      /\ net[A] \in Seq(Message) /\ net[B] \in Seq(Message)
  BY <1>1 DEF BacklogInv, TypeOK
<1> DEFINE KA == Count(net[A], 1, KeyType)
           KB == Count(net[B], 1, KeyType)
           OA == Count(net[A], 1, OtherType)
           OB == Count(net[B], 1, OtherType)
<1>3. /\ KA \in Nat /\ KB \in Nat /\ OA \in Nat /\ OB \in Nat
      /\ Len(net[A]) = KA + OA /\ Len(net[B]) = KB + OB
  BY <1>2, CountNat, CountAll
<1>4. KA <= 2 * OA + Room(B) + Slack /\ KB <= 2 * OB + Room(A) + Slack
  BY <1>2, LenProperties DEF Spaced
<1>5. Room(A) <= 2 * InHand(A) + 1 /\ Room(B) <= 2 * InHand(B) + 1
  BY <1>1 DEF Room, InHand, Owed, Begun, Replied, Kept
<1>6. Slack = Spent - (OA + InHand(A)) - (OB + InHand(B))
  BY DEF Due, Slack
<1>7. /\ Slack \in Nat /\ Spent \in Nat /\ InHand(A) \in Nat /\ InHand(B) \in Nat
      /\ Room(A) \in Nat /\ Room(B) \in Nat
  BY <1>1, NumbersOK DEF BacklogInv
<1>8. (KA + OA) + (KB + OB) <= 3 * Spent + 2
  BY <1>3, <1>4, <1>5, <1>6, <1>7, BacklogSum
<1> QED
  BY <1>3, <1>8 DEF BacklogBounded, Spent

-----------------------------------------------------------------------------
\* What p takes from its queue and what it adds to its buddy's: h is 1 when the
\* record taken is not a key, o how many of those added are not, k when one is.
Takes(p, h) ==
  \/ net'[p] = net[p] /\ h = 0
  \/ net[p] # <<>> /\ net'[p] = Tail(net[p]) /\ h = One(Head(net[p]), OtherType)

Puts(p, k, o) ==
  \/ net'[Other(p)] = net[Other(p)] /\ k = 0 /\ o = 0
  \/ p \in alive /\ \E m \in Message :
       /\ net'[Other(p)] = Append(net[Other(p)], m)
       /\ k = One(m, KeyType) /\ o = One(m, OtherType)
  \/ p \in alive /\ \E m, n \in Message :
       /\ net'[Other(p)] = Append(Append(net[Other(p)], m), n)
       /\ {m.type, n.type} \subseteq OtherType /\ k = 0 /\ o = 2

\* The sums behind PeerStep.
LEMMA PutSum ==
  ASSUME NEW a \in Int, NEW b \in Int, NEW x \in Int, NEW y \in Int,
         NEW r \in Int, NEW l \in Int, NEW r2 \in Int, NEW l2 \in Int,
         a <= 2 * b + r + l, x + r + l <= 2 * y + r2 + l2
  PROVE  a + x <= 2 * (b + y) + r2 + l2
OBVIOUS

LEMMA LooserSum ==
  ASSUME NEW a \in Int, NEW b \in Int, NEW r \in Int, NEW l \in Int, NEW r2 \in Int,
         NEW l2 \in Int, a <= 2 * b + r + l, r + l <= r2 + l2
  PROVE  a <= 2 * b + r2 + l2
OBVIOUS

LEMMA SlackSum ==
  ASSUME NEW s \in Int, NEW s2 \in Int, NEW cp \in Int, NEW cq \in Int,
         NEW ip \in Int, NEW ip2 \in Int, NEW iq \in Int, NEW h \in Int, NEW o \in Int,
         NEW k \in Int, NEW r \in Int, NEW r2 \in Int, NEW l \in Int, NEW l2 \in Int,
         l = s - (cp + ip) - (cq + iq), l2 = s2 - (cp - h + ip2) - (cq + o + iq),
         o + ip2 + s <= h + ip + s2,
         k + r + o + ip2 + s <= 2 * o + r2 + s2 + h + ip
  PROVE  l <= l2 /\ k + r + l <= 2 * o + r2 + l2
OBVIOUS

\* A record taken at the head leaves a queue spaced, and one put at its end too.
LEMMA TakenSpaced ==
  ASSUME NEW s \in Seq(Message), s # <<>>, NEW room \in Int, NEW slack \in Int,
         NEW slack2 \in Int, slack <= slack2,
         \A j \in 1 .. Len(s) + 1 :
           Count(s, j, KeyType) <= 2 * Count(s, j, OtherType) + room + slack,
         NEW j \in 1 .. Len(Tail(s)) + 1
  PROVE  Count(Tail(s), j, KeyType) <= 2 * Count(Tail(s), j, OtherType) + room + slack2
<1>1. Len(s) \in Nat /\ Len(Tail(s)) = Len(s) - 1
  BY LenProperties, HeadTailProperties
<1>2. j \in Nat \ {0} /\ j + 1 \in Nat /\ j + 1 \in 1 .. Len(s) + 1
  BY <1>1
<1>3. /\ Count(Tail(s), j, KeyType) = Count(s, j + 1, KeyType)
      /\ Count(Tail(s), j, OtherType) = Count(s, j + 1, OtherType)
  BY <1>2, CountTail
<1>4. Count(s, j + 1, KeyType) \in Nat /\ Count(s, j + 1, OtherType) \in Nat
  BY <1>2, CountNat
<1>5. Count(s, j + 1, KeyType) <= 2 * Count(s, j + 1, OtherType) + room + slack
  BY <1>2
<1> QED
  BY <1>3, <1>4, <1>5

LEMMA PutSpaced ==
  ASSUME NEW s \in Seq(Message), NEW m \in Message, NEW room \in Int, NEW slack \in Int,
         NEW room2 \in Nat, NEW slack2 \in Nat,
         One(m, KeyType) + room + slack <= 2 * One(m, OtherType) + room2 + slack2,
         \A j \in 1 .. Len(s) + 1 :
           Count(s, j, KeyType) <= 2 * Count(s, j, OtherType) + room + slack,
         NEW j \in 1 .. Len(Append(s, m)) + 1
  PROVE  Count(Append(s, m), j, KeyType)
           <= 2 * Count(Append(s, m), j, OtherType) + room2 + slack2
<1>1. Len(s) \in Nat /\ Append(s, m) \in Seq(Message) /\ Len(Append(s, m)) = Len(s) + 1
  BY LenProperties, AppendProperties
<1>2. CASE j = Len(s) + 2
  <2>1. Count(Append(s, m), j, KeyType) = 0 /\ Count(Append(s, m), j, OtherType) = 0
    <3>1. j = Len(Append(s, m)) + 1
      BY <1>1, <1>2
    <3> QED
      BY <1>1, <3>1, CountEnd
  <2> QED
    BY <2>1
<1>3. CASE j # Len(s) + 2
  <2>1. j \in 1 .. Len(s) + 1 /\ j \in Nat
    BY <1>1, <1>3
  <2>2. /\ Count(Append(s, m), j, KeyType) = Count(s, j, KeyType) + One(m, KeyType)
        /\ Count(Append(s, m), j, OtherType) = Count(s, j, OtherType) + One(m, OtherType)
    BY <2>1, CountAppend
  <2>3. /\ Count(s, j, KeyType) \in Nat /\ Count(s, j, OtherType) \in Nat
        /\ One(m, KeyType) \in Nat /\ One(m, OtherType) \in Nat
    BY <2>1, CountNat DEF One
  <2>4. Count(s, j, KeyType) <= 2 * Count(s, j, OtherType) + room + slack
    BY <2>1
  <2>5. Count(s, j, KeyType) + One(m, KeyType)
          <= 2 * (Count(s, j, OtherType) + One(m, OtherType)) + room2 + slack2
    <3>1. /\ Count(s, j, KeyType) \in Int /\ Count(s, j, OtherType) \in Int
          /\ One(m, KeyType) \in Int /\ One(m, OtherType) \in Int
          /\ room2 \in Int /\ slack2 \in Int
      BY <2>3
    <3> QED
      BY <2>4, <3>1, PutSum, Zenon
  <2> QED
    BY <2>2, <2>5, Zenon
<1> QED
  BY <1>2, <1>3

\* A step of p keeps the invariant when it creates no more other records than
\* it is allowed, and makes room for the key it sends.
LEMMA PeerStep ==
  ASSUME TypeOK, TypeOK', BacklogInv, NEW p \in Peer,
         NEW h, NEW k, NEW o, Takes(p, h), Puts(p, k, o), alive' = alive,
         InHand(Other(p))' = InHand(Other(p)), Room(Other(p))' = Room(Other(p)),
         o + InHand(p)' + Spent <= h + InHand(p) + Spent',
         k + Room(p) + o + InHand(p)' + Spent
           <= 2 * o + Room(p)' + Spent' + h + InHand(p)
  PROVE  BacklogInv'
<1> DEFINE q == Other(p)
<1>0. /\ q \in Peer /\ q # p /\ Other(q) = p
      /\ \A r \in Peer : r = p \/ r = q
  BY OtherPeer DEF Peer, Other
<1>1. net[p] \in Seq(Message) /\ net[q] \in Seq(Message)
  BY <1>0 DEF TypeOK
<1>a. h \in {0, 1}
  BY DEF Takes, One
<1>b. k \in {0, 1} /\ o \in {0, 1, 2}
  BY DEF Puts, One
<1>2. Count(net'[p], 1, OtherType) = Count(net[p], 1, OtherType) - h
  <2>1. Count(net[p], 1, OtherType) \in Nat /\ Count(net'[p], 1, OtherType) \in Nat
    BY NumbersOK, NumbersPrimed
  <2>2. CASE net'[p] = net[p] /\ h = 0
    BY <2>1, <2>2
  <2>3. CASE net[p] # <<>> /\ net'[p] = Tail(net[p]) /\ h = One(Head(net[p]), OtherType)
    <3>1. Count(net[p], 1, OtherType) = Count(net'[p], 1, OtherType) + h
      BY <1>1, <2>3, CountHead
    <3> QED
      BY <1>a, <2>1, <3>1
  <2> QED
    BY <2>2, <2>3 DEF Takes
<1>3. Count(net'[q], 1, OtherType) = Count(net[q], 1, OtherType) + o
  <2>1. Count(net[q], 1, OtherType) \in Nat
    BY <1>0, NumbersOK
  <2>2. 1 \in 1 .. Len(net[q]) + 1
    BY <1>1, LenProperties
  <2>3. CASE net'[q] = net[q] /\ o = 0
    BY <2>1, <2>3
  <2>4. ASSUME NEW m \in Message, net'[q] = Append(net[q], m), o = One(m, OtherType)
        PROVE  Count(net'[q], 1, OtherType) = Count(net[q], 1, OtherType) + o
    BY <1>1, <2>2, <2>4, CountAppend
  <2>5. ASSUME NEW m \in Message, NEW n \in Message, o = 2,
               net'[q] = Append(Append(net[q], m), n), {m.type, n.type} \subseteq OtherType
        PROVE  Count(net'[q], 1, OtherType) = Count(net[q], 1, OtherType) + o
    <3> DEFINE l == Append(net[q], m)
    <3>1. l \in Seq(Message) /\ 1 \in 1 .. Len(l) + 1
      BY <1>1, AppendProperties, LenProperties
    <3>2. Count(l, 1, OtherType) = Count(net[q], 1, OtherType) + One(m, OtherType)
      BY <1>1, <2>2, CountAppend
    <3>3. Count(Append(l, n), 1, OtherType) = Count(l, 1, OtherType) + One(n, OtherType)
      BY <3>1, CountAppend
    <3>4. One(m, OtherType) = 1 /\ One(n, OtherType) = 1
      BY <2>5 DEF One
    <3> HIDE DEF l
    <3> QED
      BY <2>1, <2>5, <3>2, <3>3, <3>4 DEF l
  <2> QED
    BY <2>3, <2>4, <2>5 DEF Puts
<1>4. /\ Slack \in Int /\ Slack' \in Int /\ Spent \in Nat /\ Spent' \in Nat
      /\ InHand(p) \in Nat /\ InHand(p)' \in Nat /\ InHand(q) \in Nat
      /\ Room(p) \in Nat /\ Room(p)' \in Nat /\ Room(q) \in Nat
      /\ Count(net[p], 1, OtherType) \in Nat /\ Count(net[q], 1, OtherType) \in Nat
  BY <1>0, NumbersOK, NumbersPrimed
<1>5. Slack <= Slack' /\ k + Room(p) + Slack <= 2 * o + Room(p)' + Slack'
  <2>1. Slack = Spent - (Count(net[p], 1, OtherType) + InHand(p))
                      - (Count(net[q], 1, OtherType) + InHand(q))
    BY NumbersOK DEF Due
  <2>2. Slack' = Spent' - (Count(net[p], 1, OtherType) - h + InHand(p)')
                        - (Count(net[q], 1, OtherType) + o + InHand(q))
    <3>1. Slack' = Spent' - Due(p)' - Due(q)'
      BY NumbersPrimed
    <3>2. Due(p)' = Count(net[p], 1, OtherType) - h + InHand(p)'
      BY <1>2 DEF Due
    <3>3. Due(q)' = Count(net[q], 1, OtherType) + o + InHand(q)
      BY <1>3 DEF Due
    <3> QED
      BY <3>1, <3>2, <3>3
  <2>3. h \in Int /\ k \in Int /\ o \in Int
    BY <1>a, <1>b
  <2> HIDE DEF q
  <2> QED
    BY <1>4, <2>1, <2>2, <2>3, SlackSum
<1>6. Slack \in Nat /\ Slack' \in Nat
  BY <1>4, <1>5 DEF BacklogInv
<1>7. Spaced(p, q)'
  <2>1. Spaced(p, q)
    BY <1>0 DEF BacklogInv
  <2>2. SUFFICES ASSUME NEW j \in 1 .. Len(net'[p]) + 1
                 PROVE  Count(net'[p], j, KeyType)
                          <= 2 * Count(net'[p], j, OtherType) + Room(q) + Slack'
    BY DEF Spaced
  <2>3. CASE net'[p] = net[p]
    <3>1. Count(net[p], j, KeyType) <= 2 * Count(net[p], j, OtherType) + Room(q) + Slack
      BY <2>1, <2>3 DEF Spaced
    <3>2. Count(net[p], j, KeyType) \in Nat /\ Count(net[p], j, OtherType) \in Nat
      BY <1>1, CountNat
    <3> QED
      <4>1. Count(net[p], j, KeyType) <= 2 * Count(net[p], j, OtherType) + Room(q) + Slack'
        <5>1. Room(q) + Slack <= Room(q) + Slack'
          BY <1>4, <1>5
        <5>2. /\ Count(net[p], j, KeyType) \in Int /\ Count(net[p], j, OtherType) \in Int
              /\ Room(q) \in Int /\ Slack \in Int /\ Slack' \in Int
          BY <1>4, <3>2
        <5> QED
          BY <3>1, <5>1, <5>2, LooserSum, Zenon
      <4> QED
        BY <2>3, <4>1
  <2>4. CASE net[p] # <<>> /\ net'[p] = Tail(net[p])
    <3>1. \A i \in 1 .. Len(net[p]) + 1 :
            Count(net[p], i, KeyType) <= 2 * Count(net[p], i, OtherType) + Room(q) + Slack
      BY <2>1 DEF Spaced
    <3>2. j \in 1 .. Len(Tail(net[p])) + 1
      BY <2>4
    <3>3. Room(q) \in Int /\ Slack \in Int /\ Slack' \in Int /\ Slack <= Slack'
      BY <1>4, <1>5
    <3>4. Count(Tail(net[p]), j, KeyType)
            <= 2 * Count(Tail(net[p]), j, OtherType) + Room(q) + Slack'
      BY <1>1, <2>4, <3>1, <3>2, <3>3, TakenSpaced
    <3> QED
      BY <2>4, <3>4
  <2> QED
    BY <2>3, <2>4 DEF Takes
<1>8. Spaced(q, p)'
  <2>1. Spaced(q, p)
    BY <1>0 DEF BacklogInv
  <2>3. SUFFICES ASSUME NEW j \in 1 .. Len(net'[q]) + 1
                 PROVE  Count(net'[q], j, KeyType)
                          <= 2 * Count(net'[q], j, OtherType) + Room(p)' + Slack'
    BY DEF Spaced
  <2>4. CASE net'[q] = net[q] /\ k = 0 /\ o = 0
    <3>1. Count(net[q], j, KeyType) <= 2 * Count(net[q], j, OtherType) + Room(p) + Slack
      BY <2>1, <2>4 DEF Spaced
    <3>2. Count(net[q], j, KeyType) \in Nat /\ Count(net[q], j, OtherType) \in Nat
      BY <1>1, CountNat
    <3> QED
      <4>1. Room(p) + Slack <= Room(p)' + Slack'
        BY <1>4, <1>5, <2>4
      <4>2. Count(net[q], j, KeyType) <= 2 * Count(net[q], j, OtherType) + Room(p)' + Slack'
        <5>1. /\ Count(net[q], j, KeyType) \in Int /\ Count(net[q], j, OtherType) \in Int
              /\ Room(p) \in Int /\ Room(p)' \in Int /\ Slack \in Int /\ Slack' \in Int
          BY <1>4, <3>2
        <5> QED
          BY <3>1, <4>1, <5>1, LooserSum, Zenon
      <4> QED
        BY <2>4, <4>2
  <2>5. ASSUME NEW m \in Message, net'[q] = Append(net[q], m),
               k = One(m, KeyType), o = One(m, OtherType)
        PROVE  Count(net'[q], j, KeyType)
                 <= 2 * Count(net'[q], j, OtherType) + Room(p)' + Slack'
    <3>1. \A i \in 1 .. Len(net[q]) + 1 :
            Count(net[q], i, KeyType) <= 2 * Count(net[q], i, OtherType) + Room(p) + Slack
      BY <2>1 DEF Spaced
    <3>2. j \in 1 .. Len(Append(net[q], m)) + 1
      BY <2>5
    <3>3. One(m, KeyType) + Room(p) + Slack <= 2 * One(m, OtherType) + Room(p)' + Slack'
      BY <1>5, <2>5
    <3>4. Count(Append(net[q], m), j, KeyType)
            <= 2 * Count(Append(net[q], m), j, OtherType) + Room(p)' + Slack'
      <4>1. Room(p) \in Int /\ Slack \in Int
        BY <1>4
      <4> QED
        BY <1>1, <1>4, <1>6, <3>1, <3>2, <3>3, <4>1, PutSpaced, Zenon
    <3> QED
      BY <2>5, <3>4
  <2>6. ASSUME NEW m \in Message, NEW n \in Message, k = 0, o = 2,
               net'[q] = Append(Append(net[q], m), n), {m.type, n.type} \subseteq OtherType
        PROVE  Count(net'[q], j, KeyType)
                 <= 2 * Count(net'[q], j, OtherType) + Room(p)' + Slack'
    <3> DEFINE l == Append(net[q], m)
               room == Room(p)' + 2
    <3>1. /\ Room(p) \in Int /\ Slack \in Int /\ Slack' \in Int /\ Slack' \in Nat
          /\ room \in Int /\ room \in Nat /\ Room(p)' \in Nat
      BY <1>4, <1>6
    <3>2. /\ One(m, KeyType) + Room(p) + Slack <= 2 * One(m, OtherType) + room + Slack'
          /\ One(n, KeyType) + room + Slack' <= 2 * One(n, OtherType) + Room(p)' + Slack'
      <4>1. /\ One(m, OtherType) = 1 /\ One(n, OtherType) = 1
            /\ One(m, KeyType) = 0 /\ One(n, KeyType) = 0
        BY <2>6 DEF One, OtherType, KeyType
      <4> QED
        BY <1>5, <2>6, <3>1, <4>1
    <3>3. l \in Seq(Message) /\ j \in 1 .. Len(Append(l, n)) + 1
      BY <1>1, <2>6, AppendProperties
    <3>4. \A i \in 1 .. Len(net[q]) + 1 :
            Count(net[q], i, KeyType) <= 2 * Count(net[q], i, OtherType) + Room(p) + Slack
      BY <2>1 DEF Spaced
    <3> HIDE DEF room
    <3>5. \A i \in 1 .. Len(l) + 1 :
            Count(l, i, KeyType) <= 2 * Count(l, i, OtherType) + room + Slack'
      BY <1>1, <3>1, <3>2, <3>4, PutSpaced, Zenon
    <3> HIDE DEF l
    <3>6. Count(Append(l, n), j, KeyType)
            <= 2 * Count(Append(l, n), j, OtherType) + Room(p)' + Slack'
      BY <3>1, <3>2, <3>3, <3>5, PutSpaced, Zenon
    <3> QED
      BY <2>6, <3>6 DEF l
  <2> QED
    BY <2>4, <2>5, <2>6 DEF Puts
<1>9. Silent'
  BY <1>0 DEF Silent, BacklogInv, Takes, Puts
<1> QED
  BY <1>0, <1>6, <1>7, <1>8, <1>9 DEF BacklogInv

\* What a step leaves alone has the same numbers.
LEMMA SameNumbers ==
  ASSUME NEW r \in Peer, pc'[r] = pc[r], next'[r] = next[r],
         sess'[r].status = sess[r].status, alive' = alive
  PROVE  InHand(r)' = InHand(r) /\ Room(r)' = Room(r)
BY DEF InHand, Room, Settled

\* The records that a handler of p sends: none, one, or a hash and an alert.
Sends(out, k, o) ==
  \/ out = <<>> /\ k = 0 /\ o = 0
  \/ \E m \in Message : out = <<m>> /\ k = One(m, KeyType) /\ o = One(m, OtherType)
  \/ \E m, n \in Message :
       out = <<m, n>> /\ {m.type, n.type} \subseteq OtherType /\ k = 0 /\ o = 2

LEMMA StoreMoves ==
  ASSUME IInv, BacklogInv, NEW p \in Peer, net[p] # <<>>, CanRun(p, "sip"),
         NEW s, NEW out, NEW k, NEW o, Sends(out, k, o), Store(p, s, out)
  PROVE  /\ Takes(p, One(Head(net[p]), OtherType)) /\ Puts(p, k, o)
         /\ alive' = alive /\ inits' = inits /\ dups' = dups
         /\ sess'[p] = s /\ sess'[Other(p)] = sess[Other(p)]
<1> DEFINE q == Other(p)
<1>1. q \in Peer /\ q # p /\ net[q] \in Seq(Message) /\ DOMAIN net = Peer /\ DOMAIN sess = Peer
  BY OtherPeer DEF IInv, TypeOK
<1>2. net' = [net EXCEPT ![p] = Tail(@), ![q] = @ \o out] /\ sess' = [sess EXCEPT ![p] = s]
      /\ alive' = alive /\ inits' = inits /\ dups' = dups
  BY DEF Store
<1>3. net'[p] = Tail(net[p]) /\ net'[q] = net[q] \o out
  BY <1>1, <1>2
<1>4. ASSUME NEW m \in Message, out = <<m>> PROVE net'[q] = Append(net[q], m)
  BY <1>1, <1>3, <1>4, AppendIsConcat
<1>5. ASSUME out = <<>> PROVE net'[q] = net[q]
  BY <1>1, <1>3, <1>5, ConcatEmptySeq
<1>6. ASSUME NEW m \in Message, NEW n \in Message, out = <<m, n>>
      PROVE  net'[q] = Append(Append(net[q], m), n)
  BY <1>1, <1>3, <1>6
<1>7. p \in alive
  BY DEF CanRun
<1> QED
  BY <1>1, <1>2, <1>3, <1>4, <1>5, <1>6, <1>7 DEF Takes, Puts, Sends

\* A handler keeps the invariant: o against the record it takes and the status
\* waitKeyDest it leaves, k against the status notConnected it leaves.
LEMMA GoOnKeepsBacklog ==
  ASSUME IInv, IInv', BacklogInv, NEW p \in Peer, NEW type, NEW st0, Receives(p, type, st0),
         NEW s, NEW out, NEW st, NEW k, NEW o, Sends(out, k, o),
         StoreAndGoOn(p, s, out, st), NEW d \in Nat, refusals' = refusals + d,
         o + Kept(st) <= One(Head(net[p]), OtherType) + Kept(sess[p].status) + d,
         k + Replied(sess[p].status) + o + Kept(st)
           <= 2 * o + Replied(st) + One(Head(net[p]), OtherType) + Kept(sess[p].status) + d
  PROVE  BacklogInv'
<1> DEFINE q == Other(p)
           h == One(Head(net[p]), OtherType)
           a == Begun(pc[p]["app"])
           b == Owed(pc[p]["app"])
<1>1. q \in Peer /\ q # p /\ TypeOK /\ TypeOK' /\ pc[p]["sip"] = "idle" /\ net[p] # <<>>
      /\ CanRun(p, "sip")
  BY OtherPeer DEF IInv, Receives
<1>2. /\ Takes(p, h) /\ Puts(p, k, o) /\ alive' = alive /\ sess'[q] = sess[q]
      /\ inits' = inits /\ dups' = dups
  BY <1>1, StoreMoves DEF StoreAndGoOn
<1>3. /\ pc'[q] = pc[q] /\ next'[q] = next[q] /\ next'[p] = st
      /\ pc'[p]["sip"] = "finish" /\ pc'[p]["app"] = pc[p]["app"]
  BY <1>1 DEF StoreAndGoOn, Goto, TypeOK, Thread
<1>4. InHand(q)' = InHand(q) /\ Room(q)' = Room(q)
  BY <1>1, <1>2, <1>3, SameNumbers
<1>5. p \in alive /\ p \in alive'
  BY <1>1, <1>2 DEF CanRun
<1>6. /\ InHand(p) = a + 0 + Kept(sess[p].status) /\ InHand(p)' = a + 0 + Kept(st)
      /\ Room(p) = b + 0 + Replied(sess[p].status) /\ Room(p)' = b + 0 + Replied(st)
  BY <1>1, <1>3, <1>5 DEF InHand, Room, Settled, Begun, Owed
<1>7. /\ a \in Nat /\ b \in Nat /\ h \in Nat /\ k \in Nat /\ o \in Nat
      /\ Kept(st) \in Nat /\ Replied(st) \in Nat
      /\ Kept(sess[p].status) \in Nat /\ Replied(sess[p].status) \in Nat
  BY DEF Begun, Owed, One, Sends, Kept, Replied
<1>8. Spent \in Nat /\ Spent' = Spent + d
  <2>1. inits[A] \in Nat /\ inits[B] \in Nat /\ dups \in Nat /\ refusals \in Nat
    BY <1>1 DEF TypeOK, Peer
  <2> QED
    BY <1>2, <2>1 DEF Spent
<1> HIDE DEF a, b, h, q
<1>9. o + InHand(p)' + Spent <= h + InHand(p) + Spent'
  BY <1>2, <1>6, <1>7, <1>8 DEF h
<1>10. k + Room(p) + o + InHand(p)' + Spent <= 2 * o + Room(p)' + Spent' + h + InHand(p)
  BY <1>2, <1>6, <1>7, <1>8 DEF h
<1> QED
  BY <1>1, <1>2, <1>4, <1>9, <1>10, PeerStep DEF q

LEMMA StoreThenKeepsBacklog ==
  ASSUME IInv, IInv', BacklogInv, NEW p \in Peer, NEW type, NEW st0, Receives(p, type, st0),
         NEW s, NEW out, NEW st, NEW k, NEW o, Sends(out, k, o), StoreThen(p, s, out, st),
         o + Kept(st) <= One(Head(net[p]), OtherType) + Kept(sess[p].status),
         k + Replied(sess[p].status) + o + Kept(st)
           <= 2 * o + Replied(st) + One(Head(net[p]), OtherType) + Kept(sess[p].status)
  PROVE  BacklogInv'
<1>1. StoreAndGoOn(p, s, out, st) /\ refusals' = refusals + 0
  BY DEF StoreThen, IInv, TypeOK
<1>2. /\ One(Head(net[p]), OtherType) \in Nat /\ Kept(sess[p].status) \in Nat
      /\ Replied(st) \in Nat /\ o \in Nat
  BY DEF One, Kept, Replied, Sends
<1>3. /\ o + Kept(st) <= One(Head(net[p]), OtherType) + Kept(sess[p].status) + 0
      /\ k + Replied(sess[p].status) + o + Kept(st)
           <= 2 * o + Replied(st) + One(Head(net[p]), OtherType) + Kept(sess[p].status) + 0
  BY <1>2
<1> QED
  BY <1>1, <1>3, GoOnKeepsBacklog

\* Two records, one after the other.
LEMMA AppendPair ==
  ASSUME NEW m \in Message, NEW n \in Message
  PROVE  Append(<<m>>, n) = <<m, n>>
<1>1. <<m>> \in Seq(Message)
  BY Singleton, Zenon
<1>2. /\ Len(Append(<<m>>, n)) = 2
      /\ Append(<<m>>, n)[1] = m /\ Append(<<m>>, n)[2] = n
      /\ Append(<<m>>, n) \in Seq(Message)
  BY <1>1, AppendProperties
<1>3. /\ <<m, n>> \in Seq(Message) /\ Len(<<m, n>>) = 2
      /\ <<m, n>>[1] = m /\ <<m, n>>[2] = n
  OBVIOUS
<1> DEFINE s == Append(<<m>>, n)
           t == <<m, n>>
<1>4. s \in Seq(Message) /\ t \in Seq(Message) /\ Len(s) = Len(t)
      /\ \A i \in 1 .. Len(s) : s[i] = t[i]
  <2> HIDE DEF s, t
  <2>1. Len(s) = 2 /\ Len(t) = 2 /\ s[1] = t[1] /\ s[2] = t[2]
    BY <1>2, <1>3 DEF s, t
  <2>2. \A i \in 1 .. 2 : i = 1 \/ i = 2
    OBVIOUS
  <2> QED
    BY <1>2, <1>3, <2>1, <2>2 DEF s, t
<1> HIDE DEF s, t
<1>5. s = t
  BY <1>4, SeqEqual
<1> QED
  BY <1>5 DEF s, t

\* A verdict: the alert of a refusal is one more record, and one more is allowed.
LEMMA VerdictKeepsBacklog ==
  ASSUME IInv, IInv', BacklogInv, NEW p \in Peer, NEW type, NEW st0, Receives(p, type, st0),
         NEW s, NEW out, NEW o \in {0, 1}, Sends(out, 0, o), Verdict(p, s, out),
         o <= One(Head(net[p]), OtherType) + Kept(sess[p].status)
  PROVE  BacklogInv'
<1> DEFINE h == One(Head(net[p]), OtherType)
           c == Kept(sess[p].status)
           e == Replied(sess[p].status)
<1>1. h \in Nat /\ c \in Nat /\ e \in {0, 1}
  BY DEF One, Kept, Replied
<1>2. CASE StoreThen(p, s, out, "connected")
  <2>1. Kept("connected") = 0 /\ Replied("connected") = 1
    BY DEF Kept, Replied
  <2> HIDE DEF h, c, e
  <2>2. o + Kept("connected") <= h + c
        /\ 0 + e + o + Kept("connected") <= 2 * o + Replied("connected") + h + c
    BY <1>1, <2>1 DEF h, c
  <2> QED
    BY <1>2, <2>2, StoreThenKeepsBacklog DEF h, c, e
<1>3. CASE Refuse(p, s, out)
  <2>1. StoreAndGoOn(p, s, Append(out, Alert), "notConnected") /\ refusals' = refusals + 1
    BY <1>3 DEF Refuse
  <2>2. Sends(Append(out, Alert), 0, o + 1)
    <3>1. Alert \in Message /\ Alert.type \in OtherType /\ Alert.type \notin KeyType
      BY DEF Alert, Message, OtherType, KeyType
    <3>2. CASE out = <<>> /\ o = 0
      BY <3>1, <3>2 DEF Sends, One
    <3>3. ASSUME NEW m \in Message, out = <<m>>, One(m, KeyType) = 0, o = One(m, OtherType)
          PROVE  Sends(Append(out, Alert), 0, o + 1)
      <4>1. m.type \in OtherType /\ o = 1
        BY <3>3 DEF One, Message, KeyType, OtherType
      <4>2. Append(out, Alert) = <<m, Alert>>
        BY <3>1, <3>3, AppendPair, Zenon
      <4> QED
        BY <3>1, <4>1, <4>2 DEF Sends
    <3> QED
      BY <3>2, <3>3 DEF Sends
  <2>3. Kept("notConnected") = 0 /\ Replied("notConnected") = 0
    BY DEF Kept, Replied
  <2> HIDE DEF h, c, e
  <2>4. (o + 1) + Kept("notConnected") <= h + c + 1
        /\ 0 + e + (o + 1) + Kept("notConnected")
             <= 2 * (o + 1) + Replied("notConnected") + h + c + 1
    BY <1>1, <2>3 DEF h, c
  <2> QED
    BY <2>1, <2>2, <2>4, GoOnKeepsBacklog DEF h, c, e
<1> QED
  BY <1>2, <1>3 DEF Verdict

\* A handler that keeps its status and sends nothing.
LEMMA StoreOnlyKeepsBacklog ==
  ASSUME IInv, IInv', BacklogInv, NEW p \in Peer, NEW type, NEW st0, Receives(p, type, st0),
         NEW s, s.status = sess[p].status, StoreOnly(p, s, <<>>)
  PROVE  BacklogInv'
<1> DEFINE q == Other(p)
           h == One(Head(net[p]), OtherType)
<1>1. q \in Peer /\ q # p /\ TypeOK /\ TypeOK' /\ net[p] # <<>> /\ CanRun(p, "sip")
  BY OtherPeer DEF IInv, Receives
<1>2. /\ Takes(p, h) /\ Puts(p, 0, 0) /\ alive' = alive /\ Spent' = Spent
      /\ sess'[q] = sess[q] /\ sess'[p] = s /\ pc' = pc /\ next' = next
  BY <1>1, StoreMoves DEF StoreOnly, Sends, Spent
<1>3. /\ InHand(q)' = InHand(q) /\ Room(q)' = Room(q)
      /\ InHand(p)' = InHand(p) /\ Room(p)' = Room(p)
  BY <1>1, <1>2, SameNumbers
<1>4. h \in Nat
  BY DEF One
<1>5. Spent \in Nat /\ InHand(p) \in Nat /\ Room(p) \in Nat
  BY <1>1, NumbersOK
<1> HIDE DEF h, q
<1>6. /\ 0 + InHand(p)' + Spent <= h + InHand(p) + Spent'
      /\ 0 + Room(p) + 0 + InHand(p)' + Spent
           <= 2 * 0 + Room(p)' + Spent' + h + InHand(p)
  BY <1>2, <1>3, <1>4, <1>5
<1> QED
  BY <1>1, <1>2, <1>3, <1>6, PeerStep DEF q

-----------------------------------------------------------------------------
\* What a peer sends are records.
LEMMA SentRecords ==
  ASSUME IInv, NEW p \in Peer
  PROVE  /\ KeyRecord(p) \in Message /\ NonceRecord(p) \in Message /\ Alert \in Message
         /\ \A s \in Session : GoodSession(p, s) => NonceHRecord(s) \in Message
<1>1. Other(p) \in Peer
  BY OtherPeer
<1>2. \A m \in GoodMessage[Other(p)] : m \in Message
  BY <1>1 DEF GoodMessage
<1>3. \A s \in Session : GoodSession(p, s) => s.localNonce \in DrawnNonce
  BY DEF GoodSession
<1> QED
  BY <1>2, <1>3, GoodRecords, Zenon

\* Keys: the answer to one uses up the room that notConnected leaves.
LEMMA HandleKeyKeepsBacklog ==
  ASSUME IInv, IInv', BacklogInv, NEW p \in Peer, HandleKey(p), ~Die(p)
  PROVE  BacklogInv'
<1> DEFINE s == [sess[p] EXCEPT !.remoteKey = Head(net[p]).key]
           w == WithSessionKey(p, s)
<1>1. CASE KeyNotConnected(p)
  <2>1. /\ Receives(p, "handshakeKey", {"notConnected"})
        /\ StoreThen(p, w, <<KeyRecord(p)>>, "waitNonceInit")
    BY <1>1 DEF KeyNotConnected
  <2>2. Sends(<<KeyRecord(p)>>, 1, 0)
    BY SentRecords DEF Sends, One, KeyType, OtherType, KeyRecord
  <2>3. sess[p].status = "notConnected" /\ One(Head(net[p]), OtherType) = 0
    BY <2>1, HandlerFacts DEF One, OtherType
  <2> HIDE DEF s, w
  <2> QED
    BY <2>1, <2>2, <2>3, StoreThenKeepsBacklog DEF Kept, Replied
<1>2. CASE KeyWaitKeyNonceHDest(p)
  <2>1. /\ Receives(p, "handshakeKey", {"waitKeyNonceHDest"})
        /\ StoreThen(p, w, <<>>, "waitNonceHDest")
    BY <1>2 DEF KeyWaitKeyNonceHDest
  <2>2. sess[p].status = "waitKeyNonceHDest" /\ One(Head(net[p]), OtherType) = 0
    BY <2>1, HandlerFacts DEF One, OtherType
  <2>3. Sends(<<>>, 0, 0)
    BY DEF Sends
  <2> HIDE DEF s, w
  <2> QED
    BY <2>1, <2>2, <2>3, StoreThenKeepsBacklog DEF Kept, Replied
<1>3. CASE KeyWaitKeyDest(p)
  <2>1. /\ Receives(p, "handshakeKey", {"waitKeyDest"})
        /\ Verdict(p, w, <<NonceHRecord(w)>>)
    BY <1>3 DEF KeyWaitKeyDest
  <2>2. w \in Session /\ GoodSession(p, w)
    BY <2>1, KeyStored
  <2> HIDE DEF s, w
  <2>4. NonceHRecord(w) \in Message
    BY <2>2, SentRecords
  <2>5. Sends(<<NonceHRecord(w)>>, 0, 1)
    BY <2>4 DEF Sends, One, KeyType, OtherType, NonceHRecord
  <2>6. sess[p].status = "waitKeyDest" /\ One(Head(net[p]), OtherType) = 0
    BY <2>1, HandlerFacts DEF One, OtherType
  <2> QED
    BY <2>1, <2>5, <2>6, VerdictKeepsBacklog DEF Kept
<1>4. CASE KeyConnected(p)
  <2>1. /\ Receives(p, "handshakeKey", {"connected"})
        /\ StoreThen(p, s, <<>>, "waitNonceInit")
    BY <1>4 DEF KeyConnected
  <2>2. sess[p].status = "connected" /\ One(Head(net[p]), OtherType) = 0
    BY <2>1, HandlerFacts DEF One, OtherType
  <2>3. Sends(<<>>, 0, 0)
    BY DEF Sends
  <2> HIDE DEF s
  <2> QED
    BY <2>1, <2>2, <2>3, StoreThenKeepsBacklog DEF Kept, Replied
<1>5. CASE KeyIgnored(p)
  <2> HIDE DEF s, w
  <2> QED
    BY <1>5, StoreOnlyKeepsBacklog DEF KeyIgnored
<1> QED
  BY <1>1, <1>2, <1>3, <1>4, <1>5 DEF HandleKey

\* Nonces: each answer takes the place of the record it answers.
LEMMA HandleNonceKeepsBacklog ==
  ASSUME IInv, IInv', BacklogInv, NEW p \in Peer, HandleNonce(p), ~Die(p)
  PROVE  BacklogInv'
<1> DEFINE s == [sess[p] EXCEPT !.remoteNonce = Head(net[p]).nonce]
<1>0. Sends(<<>>, 0, 0)
  BY DEF Sends
<1>1. CASE NonceWaitNonceInit(p)
  <2>1. /\ Receives(p, "handshakeNonce", {"waitNonceInit"})
        /\ StoreThen(p, s, <<NonceHRecord(s)>>, "waitNonce2HInit")
    BY <1>1 DEF NonceWaitNonceInit
  <2>2. s \in Session /\ GoodSession(p, s)
    BY <2>1, NonceStored
  <2> HIDE DEF s
  <2>3. NonceHRecord(s) \in Message
    BY <2>2, SentRecords
  <2>4. Sends(<<NonceHRecord(s)>>, 0, 1)
    BY <2>3 DEF Sends, One, KeyType, OtherType, NonceHRecord
  <2>5. sess[p].status = "waitNonceInit" /\ One(Head(net[p]), OtherType) = 1
    BY <2>1, HandlerFacts DEF One, OtherType
  <2> QED
    BY <2>1, <2>4, <2>5, StoreThenKeepsBacklog DEF Kept, Replied
<1>2. CASE NonceWaitKeyNonceHDest(p)
  <2>1. /\ Receives(p, "handshakeNonce", {"waitKeyNonceHDest"})
        /\ StoreThen(p, s, <<>>, "waitKeyDest")
    BY <1>2 DEF NonceWaitKeyNonceHDest
  <2>2. sess[p].status = "waitKeyNonceHDest" /\ One(Head(net[p]), OtherType) = 1
    BY <2>1, HandlerFacts DEF One, OtherType
  <2> HIDE DEF s
  <2> QED
    BY <1>0, <2>1, <2>2, StoreThenKeepsBacklog DEF Kept, Replied
<1>3. CASE NonceConnected(p)
  <2>1. /\ Receives(p, "handshakeNonce", {"connected"})
        /\ StoreThen(p, s, <<>>, "waitKeyInit")
    BY <1>3 DEF NonceConnected
  <2>2. sess[p].status = "connected" /\ One(Head(net[p]), OtherType) = 1
    BY <2>1, HandlerFacts DEF One, OtherType
  <2> HIDE DEF s
  <2> QED
    BY <1>0, <2>1, <2>2, StoreThenKeepsBacklog DEF Kept, Replied
<1>4. CASE NonceRefused(p)
  <2>1. PICK st : Receives(p, "handshakeNonce", st)
    BY <1>4 DEF NonceRefused
  <2>2. StoreThen(p, sess[p], <<Alert>>, "notConnected")
    BY <1>4 DEF NonceRefused
  <2>3. Sends(<<Alert>>, 0, 1)
    BY SentRecords DEF Sends, One, KeyType, OtherType, Alert
  <2>4. One(Head(net[p]), OtherType) = 1
    BY <2>1, HandlerFacts DEF One, OtherType
  <2>5. /\ 1 + Kept("notConnected") <= 1 + Kept(sess[p].status)
        /\ 0 + Replied(sess[p].status) + 1 + Kept("notConnected")
             <= 2 * 1 + Replied("notConnected") + 1 + Kept(sess[p].status)
    BY DEF Kept, Replied
  <2> QED
    BY <2>1, <2>2, <2>3, <2>4, <2>5, StoreThenKeepsBacklog
<1> QED
  BY <1>1, <1>2, <1>3, <1>4 DEF HandleNonce

\* Hashes: the same.
LEMMA HandleNonceHKeepsBacklog ==
  ASSUME IInv, IInv', BacklogInv, NEW p \in Peer, HandleNonceH(p)
  PROVE  BacklogInv'
<1> DEFINE s == [WithNonceH(p) EXCEPT !.remoteNonce = Head(net[p]).nonce]
<1>1. CASE NonceHWaitKeyNonceHDest(p)
  <2>1. /\ Receives(p, "handshakeNonceH", {"waitKeyNonceHDest"})
        /\ StoreOnly(p, s, <<>>)
    BY <1>1 DEF NonceHWaitKeyNonceHDest
  <2>2. s.status = sess[p].status
    BY DEF WithNonceH, IInv, TypeOK, Session
  <2> HIDE DEF s
  <2> QED
    BY <2>1, <2>2, StoreOnlyKeepsBacklog
<1>2. CASE NonceHWaitNonceHDest(p)
  <2>1. /\ Receives(p, "handshakeNonceH", {"waitNonceHDest"})
        /\ Verdict(p, s, <<NonceHRecord(sess[p])>>)
    BY <1>2 DEF NonceHWaitNonceHDest
  <2>2. s \in Session /\ GoodSession(p, s)
    BY <2>1, NonceHStored
  <2> HIDE DEF s
  <2>4. NonceHRecord(sess[p]) \in Message
    BY SentRecords DEF IInv, TypeOK
  <2>5. Sends(<<NonceHRecord(sess[p])>>, 0, 1)
    BY <2>4 DEF Sends, One, KeyType, OtherType, NonceHRecord
  <2>6. sess[p].status = "waitNonceHDest" /\ One(Head(net[p]), OtherType) = 1
    BY <2>1, HandlerFacts DEF One, OtherType
  <2> QED
    BY <2>1, <2>5, <2>6, VerdictKeepsBacklog DEF Kept
<1>3. CASE NonceHWaitNonce2HInit(p)
  <2>1. /\ Receives(p, "handshakeNonceH", {"waitNonce2HInit"})
        /\ Verdict(p, s, <<>>)
    BY <1>3 DEF NonceHWaitNonce2HInit
  <2>2. s \in Session /\ GoodSession(p, s)
    BY <2>1, NonceHStored
  <2> HIDE DEF s
  <2>4. Sends(<<>>, 0, 0)
    BY DEF Sends
  <2>5. sess[p].status = "waitNonce2HInit" /\ One(Head(net[p]), OtherType) = 1
    BY <2>1, HandlerFacts DEF One, OtherType
  <2> QED
    BY <2>1, <2>4, <2>5, VerdictKeepsBacklog DEF Kept
<1>4. CASE NonceHIgnored(p)
  <2>1. WithNonceH(p).status = sess[p].status
    BY DEF WithNonceH, IInv, TypeOK, Session
  <2> QED
    BY <1>4, <2>1, StoreOnlyKeepsBacklog DEF NonceHIgnored
<1> QED
  BY <1>1, <1>2, <1>3, <1>4 DEF HandleNonceH

\* An alert is not answered; the handshake it restarts takes its place.
LEMMA AlertKeepsBacklog ==
  ASSUME IInv, IInv', BacklogInv, NEW p \in Peer, AlertReceived(p)
  PROVE  BacklogInv'
<1> DEFINE q == Other(p)
           a == Begun(pc[p]["app"])
           b == Owed(pc[p]["app"])
           s == [sess[p] EXCEPT !.status = "notConnected"]
           x == IF sess[p].iAmSessionInitiator THEN 1 ELSE 0
<1>1. /\ q \in Peer /\ q # p /\ TypeOK /\ TypeOK' /\ pc[p]["sip"] = "idle"
      /\ net[p] # <<>> /\ CanRun(p, "sip") /\ Receives(p, "alert", Status)
  BY OtherPeer DEF IInv, AlertReceived, Receives
<1>2. One(Head(net[p]), OtherType) = 1
  BY <1>1 DEF Receives, One, OtherType
<1>3. Store(p, s, <<>>) /\ next' = next /\ refusals' = refusals
  BY DEF AlertReceived
<1>4. s.status = "notConnected"
  BY <1>1 DEF TypeOK, Session
<1> HIDE DEF s
<1>5. /\ Takes(p, 1) /\ Puts(p, 0, 0) /\ alive' = alive /\ Spent' = Spent
      /\ sess'[p] = s /\ sess'[q] = sess[q]
  <2>1. Sends(<<>>, 0, 0)
    BY DEF Sends
  <2> QED
    BY <1>1, <1>2, <1>3, <2>1, StoreMoves DEF Spent
<1>6. /\ pc'[q] = pc[q] /\ pc'[p]["app"] = pc[p]["app"]
      /\ pc'[p]["sip"] = IF sess[p].iAmSessionInitiator THEN "init" ELSE "idle"
  <2>1. pc' = IF sess[p].iAmSessionInitiator THEN [pc EXCEPT ![p]["sip"] = "init"] ELSE pc
    BY DEF AlertReceived, Goto
  <2>2. pc \in [Peer -> [Thread -> Label]]
    BY <1>1 DEF TypeOK
  <2> HIDE DEF q
  <2> QED
    BY <1>1, <2>1, <2>2 DEF Thread
<1>7. InHand(q)' = InHand(q) /\ Room(q)' = Room(q)
  BY <1>1, <1>3, <1>5, <1>6, SameNumbers
<1>8. p \in alive /\ p \in alive'
  BY <1>1, <1>5 DEF CanRun
<1>9. /\ InHand(p) = a + 0 + Kept(sess[p].status) /\ InHand(p)' = a + x + 0
      /\ Room(p) = b + 0 + Replied(sess[p].status) /\ Room(p)' = b + x + 0
  BY <1>1, <1>4, <1>5, <1>6, <1>8 DEF InHand, Room, Settled, Begun, Owed, Kept, Replied
<1>10. /\ a \in Nat /\ b \in Nat /\ x \in {0, 1} /\ Kept(sess[p].status) \in {0, 1}
       /\ Replied(sess[p].status) \in {0, 1}
  BY DEF Begun, Owed, Kept, Replied
<1>11. Spent \in Nat
  BY <1>1, NumbersOK
<1> HIDE DEF a, b, x, q
<1>12. /\ 0 + InHand(p)' + Spent <= 1 + InHand(p) + Spent'
       /\ 0 + Room(p) + 0 + InHand(p)' + Spent
            <= 2 * 0 + Room(p)' + Spent' + 1 + InHand(p)
  BY <1>5, <1>9, <1>10, <1>11
<1> QED
  BY <1>1, <1>5, <1>7, <1>12, PeerStep DEF q

-----------------------------------------------------------------------------
\* The thread t of p goes from one label to another.
LEMMA ThreadNumbers ==
  ASSUME TypeOK, NEW p \in Peer, p \in alive, alive' = alive, NEW t \in Thread,
         NEW label, pc' = [pc EXCEPT ![p][t] = label],
         pc[p][t] # "finish", label # "finish", next' = next,
         \A r \in Peer : sess'[r].status = sess[r].status
  PROVE  /\ InHand(p)' = (InHand(p) - Begun(pc[p][t])) + Begun(label)
         /\ Room(p)' = (Room(p) - Owed(pc[p][t])) + Owed(label)
         /\ InHand(Other(p))' = InHand(Other(p)) /\ Room(Other(p))' = Room(Other(p))
<1> DEFINE q == Other(p)
<1>1. q \in Peer /\ q # p
  BY OtherPeer
<1>2. pc \in [Peer -> [Thread -> Label]]
  BY DEF TypeOK
<1>3. /\ pc'[q] = pc[q] /\ pc'[p][t] = label
      /\ \A u \in Thread \ {t} : pc'[p][u] = pc[p][u]
  BY <1>1, <1>2
<1> HIDE DEF q
<1>4. InHand(q)' = InHand(q) /\ Room(q)' = Room(q)
  BY <1>1, <1>3, SameNumbers
<1>5. Settled(p)' = Settled(p)
  BY <1>3 DEF Settled, Thread
<1> DEFINE S == IF p \in alive THEN Kept(Settled(p)) ELSE 0
           R == Replied(Settled(p))
<1>6. S \in Nat /\ R \in Nat
  BY DEF Kept, Replied
<1>7. \A l \in {label, pc[p]["app"], pc[p]["sip"]} : Begun(l) \in Nat /\ Owed(l) \in Nat
  BY DEF Begun, Owed
<1>8. /\ InHand(p) = (Begun(pc[p]["app"]) + Begun(pc[p]["sip"])) + S
      /\ InHand(p)' = (Begun(pc'[p]["app"]) + Begun(pc'[p]["sip"])) + S
      /\ Room(p) = (Owed(pc[p]["app"]) + Owed(pc[p]["sip"])) + R
      /\ Room(p)' = (Owed(pc'[p]["app"]) + Owed(pc'[p]["sip"])) + R
  <2>1. Begun(pc[p]["app"])' = Begun(pc'[p]["app"]) /\ Begun(pc[p]["sip"])' = Begun(pc'[p]["sip"])
        /\ Owed(pc[p]["app"])' = Owed(pc'[p]["app"]) /\ Owed(pc[p]["sip"])' = Owed(pc'[p]["sip"])
    BY DEF Begun, Owed
  <2>2. S' = S /\ R' = R
    BY <1>5 DEF Kept, Replied
  <2>3. /\ InHand(p) = (Begun(pc[p]["app"]) + Begun(pc[p]["sip"])) + S
        /\ Room(p) = (Owed(pc[p]["app"]) + Owed(pc[p]["sip"])) + R
    BY <1>6, <1>7 DEF InHand, Room
  <2>4. /\ InHand(p)' = (Begun(pc'[p]["app"]) + Begun(pc'[p]["sip"])) + S
        /\ Room(p)' = (Owed(pc'[p]["app"]) + Owed(pc'[p]["sip"])) + R
    BY <2>1, <2>2, <1>6 DEF InHand, Room, Begun, Owed
  <2> QED
    BY <2>3, <2>4
<1> HIDE DEF S, R
<1>9. CASE t = "app"
  <2>1. pc'[p]["app"] = label /\ pc'[p]["sip"] = pc[p]["sip"]
    BY <1>3, <1>9 DEF Thread
  <2> QED
    BY <1>4, <1>6, <1>7, <1>8, <1>9, <2>1 DEF q
<1>10. CASE t = "sip"
  <2>1. pc'[p]["sip"] = label /\ pc'[p]["app"] = pc[p]["app"]
    BY <1>3, <1>10 DEF Thread
  <2> QED
    BY <1>4, <1>6, <1>7, <1>8, <1>10, <2>1 DEF q
<1> QED
  BY <1>9, <1>10 DEF Thread

\* The sums behind MoveKeepsBacklog.
LEMMA MoveSum ==
  ASSUME NEW i \in Int, NEW r \in Int, NEW s \in Int, NEW s2 \in Int, NEW k \in Int,
         NEW o \in Int, NEW x \in Int, NEW x2 \in Int, NEW y \in Int, NEW y2 \in Int,
         o + x2 + s <= x + s2, k + y + x2 + s <= o + y2 + x + s2
  PROVE  /\ o + ((i - x) + x2) + s <= 0 + i + s2
         /\ k + r + o + ((i - x) + x2) + s <= 2 * o + ((r - y) + y2) + s2 + 0 + i
OBVIOUS

\* A step of initSession that leaves the statuses alone keeps the invariant
\* when it pays for the record it sends.
LEMMA MoveKeepsBacklog ==
  ASSUME IInv, IInv', BacklogInv, NEW p \in Peer, NEW t \in Thread,
         CanRun(p, t), alive' = alive, NEW label, Goto(p, t, label),
         pc[p][t] # "finish", label # "finish", next' = next,
         \A r \in Peer : sess'[r].status = sess[r].status,
         NEW k, NEW o, net'[p] = net[p], Puts(p, k, o),
         o + Begun(label) + Spent <= Begun(pc[p][t]) + Spent',
         k + Owed(pc[p][t]) + Begun(label) + Spent
           <= o + Owed(label) + Begun(pc[p][t]) + Spent'
  PROVE  BacklogInv'
<1>1. TypeOK /\ TypeOK' /\ p \in alive
  BY DEF IInv, CanRun
<1>2. /\ InHand(p)' = (InHand(p) - Begun(pc[p][t])) + Begun(label)
      /\ Room(p)' = (Room(p) - Owed(pc[p][t])) + Owed(label)
      /\ InHand(Other(p))' = InHand(Other(p)) /\ Room(Other(p))' = Room(Other(p))
  BY <1>1, ThreadNumbers DEF Goto
<1>3. /\ InHand(p) \in Int /\ Room(p) \in Int /\ Spent \in Int /\ Spent' \in Int
      /\ k \in Int /\ o \in Int
      /\ Begun(label) \in Int /\ Begun(pc[p][t]) \in Int
      /\ Owed(label) \in Int /\ Owed(pc[p][t]) \in Int
  <2>1. InHand(p) \in Nat /\ Room(p) \in Nat /\ Spent \in Nat /\ Spent' \in Nat
    BY <1>1, NumbersOK, NumbersPrimed
  <2> QED
    BY <2>1 DEF Puts, One, Begun, Owed
<1>4. /\ o + InHand(p)' + Spent <= 0 + InHand(p) + Spent'
      /\ k + Room(p) + o + InHand(p)' + Spent
           <= 2 * o + Room(p)' + Spent' + 0 + InHand(p)
  BY <1>2, <1>3, MoveSum
<1>5. Takes(p, 0)
  BY DEF Takes
<1> QED
  BY <1>1, <1>2, <1>4, <1>5, PeerStep

\* A call of initSession pays for one nonce, and the key goes ahead of it.
LEMMA CallKeepsBacklog ==
  ASSUME IInv, IInv', BacklogInv, NEW p \in Peer, AppCallsInitSession(p)
  PROVE  BacklogInv'
<1>1. /\ CanRun(p, "app") /\ Goto(p, "app", "init") /\ pc[p]["app"] = "idle"
      /\ alive' = alive /\ next' = next /\ sess' = sess /\ net' = net
      /\ inits' = [inits EXCEPT ![p] = @ + 1] /\ dups' = dups /\ refusals' = refusals
  BY DEF AppCallsInitSession
<1>2. Spent' = Spent + 1 /\ Spent \in Nat
  <2>1. inits \in [Peer -> Nat] /\ dups \in Nat /\ refusals \in Nat
        /\ A \in Peer /\ B \in Peer
    BY DEF IInv, TypeOK, Peer
  <2> QED
    BY <1>1, <2>1, PeersDiffer DEF Spent, Peer
<1>3. Puts(p, 0, 0) /\ "app" \in Thread
  BY <1>1 DEF Puts, Thread
<1>4. /\ 0 + Begun("init") + Spent <= Begun(pc[p]["app"]) + Spent'
      /\ 0 + Owed(pc[p]["app"]) + Begun("init") + Spent
           <= 0 + Owed("init") + Begun(pc[p]["app"]) + Spent'
  BY <1>1, <1>2 DEF Begun, Owed
<1> QED
  BY <1>1, <1>3, <1>4, MoveKeepsBacklog

\* initSession itself.
LEMMA InitStepKeepsBacklog ==
  ASSUME IInv, IInv', BacklogInv, NEW p \in Peer, NEW t \in Thread, InitStep(p, t), ~Die(p)
  PROVE  BacklogInv'
<1>0. /\ Other(p) \in Peer /\ Other(p) # p /\ TypeOK /\ TypeOK'
      /\ pc \in [Peer -> [Thread -> Label]] /\ net \in [Peer -> Seq(Message)]
      /\ Spent \in Nat /\ sess \in [Peer -> Session]
  BY OtherPeer, NumbersOK DEF IInv, TypeOK
<1>1. CASE InitSuppressed(p, t)
  <2>1. /\ CanRun(p, t) /\ pc[p][t] = "init" /\ Goto(p, t, "idle")
        /\ sess' = [sess EXCEPT ![p].iAmSessionInitiator = TRUE]
        /\ alive' = alive /\ next' = next /\ net' = net /\ Spent' = Spent
    BY <1>1 DEF InitSuppressed, budgets, Spent
  <2>2. \A r \in Peer : sess'[r].status = sess[r].status
    BY <1>0, <2>1 DEF Session
  <2>3. Puts(p, 0, 0)
    BY <2>1 DEF Puts
  <2>4. /\ 0 + Begun("idle") + Spent <= Begun(pc[p][t]) + Spent'
        /\ 0 + Owed(pc[p][t]) + Begun("idle") + Spent
             <= 0 + Owed("idle") + Begun(pc[p][t]) + Spent'
    BY <1>0, <2>1 DEF Begun, Owed
  <2> QED
    BY <2>1, <2>2, <2>3, <2>4, MoveKeepsBacklog
<1>2. CASE InitBegin(p, t)
  <2>1. /\ CanRun(p, t) /\ pc[p][t] = "init" /\ Goto(p, t, "sendKey")
        /\ alive' = alive /\ next' = next /\ net' = net /\ Spent' = Spent
    BY <1>2 DEF InitBegin, budgets, Spent
  <2>2. \A r \in Peer : sess'[r].status = sess[r].status
    BY <1>0, <1>2 DEF InitBegin, Session
  <2>3. Puts(p, 0, 0)
    BY <2>1 DEF Puts
  <2>4. /\ 0 + Begun("sendKey") + Spent <= Begun(pc[p][t]) + Spent'
        /\ 0 + Owed(pc[p][t]) + Begun("sendKey") + Spent
             <= 0 + Owed("sendKey") + Begun(pc[p][t]) + Spent'
    BY <1>0, <2>1 DEF Begun, Owed
  <2> QED
    BY <2>1, <2>2, <2>3, <2>4, MoveKeepsBacklog
<1>3. CASE InitSendKey(p, t)
  <2>1. /\ CanRun(p, t) /\ pc[p][t] = "sendKey" /\ Goto(p, t, "sendNonce")
        /\ net' = [net EXCEPT ![Other(p)] = @ \o <<KeyRecord(p)>>]
        /\ alive' = alive /\ next' = next /\ sess' = sess /\ Spent' = Spent
    BY <1>3 DEF InitSendKey, Send, budgets, Spent
  <2>2. Puts(p, 1, 0) /\ net'[p] = net[p]
    <3>1. KeyRecord(p) \in Message
      BY SentRecords
    <3>2. One(KeyRecord(p), KeyType) = 1 /\ One(KeyRecord(p), OtherType) = 0
      BY DEF One, KeyRecord, KeyType, OtherType
    <3>3. net'[Other(p)] = Append(net[Other(p)], KeyRecord(p)) /\ net'[p] = net[p]
      BY <1>0, <2>1, <3>1, AppendIsConcat
    <3> QED
      BY <2>1, <3>1, <3>2, <3>3 DEF Puts, CanRun
  <2>4. /\ 0 + Begun("sendNonce") + Spent <= Begun(pc[p][t]) + Spent'
        /\ 1 + Owed(pc[p][t]) + Begun("sendNonce") + Spent
             <= 0 + Owed("sendNonce") + Begun(pc[p][t]) + Spent'
    BY <1>0, <2>1 DEF Begun, Owed
  <2> QED
    BY <2>1, <2>2, <2>4, MoveKeepsBacklog
<1>4. CASE InitSendNonce(p, t)
  <2>1. /\ CanRun(p, t) /\ pc[p][t] = "sendNonce" /\ Goto(p, t, "setStatus")
        /\ net' = [net EXCEPT ![Other(p)] = @ \o <<NonceRecord(p)>>]
        /\ alive' = alive /\ next' = next /\ sess' = sess /\ Spent' = Spent
    BY <1>4 DEF InitSendNonce, Send, budgets, Spent
  <2>2. Puts(p, 0, 1) /\ net'[p] = net[p]
    <3>1. NonceRecord(p) \in Message
      BY SentRecords
    <3>2. One(NonceRecord(p), KeyType) = 0 /\ One(NonceRecord(p), OtherType) = 1
      BY DEF One, NonceRecord, KeyType, OtherType
    <3>3. net'[Other(p)] = Append(net[Other(p)], NonceRecord(p)) /\ net'[p] = net[p]
      BY <1>0, <2>1, <3>1, AppendIsConcat
    <3> QED
      BY <2>1, <3>1, <3>2, <3>3 DEF Puts, CanRun
  <2>4. /\ 1 + Begun("setStatus") + Spent <= Begun(pc[p][t]) + Spent'
        /\ 0 + Owed(pc[p][t]) + Begun("setStatus") + Spent
             <= 1 + Owed("setStatus") + Begun(pc[p][t]) + Spent'
    BY <1>0, <2>1 DEF Begun, Owed
  <2> QED
    BY <2>1, <2>2, <2>4, MoveKeepsBacklog
<1>5. CASE InitSetStatus(p, t)
  <2> DEFINE q == Other(p)
             st == Settled(p)
             st2 == IF pc[p]["sip"] = "finish" THEN next[p] ELSE "waitKeyNonceHDest"
             x == Begun(pc[p]["app"]) + Begun(pc[p]["sip"])
             y == Owed(pc[p]["app"]) + Owed(pc[p]["sip"])
  <2>1. /\ CanRun(p, t) /\ pc[p][t] = "setStatus"
        /\ pc' = [pc EXCEPT ![p][t] = "idle"]
        /\ sess' = [sess EXCEPT ![p].status = "waitKeyNonceHDest"]
        /\ alive' = alive /\ next' = next /\ net' = net /\ Spent' = Spent
    BY <1>5 DEF InitSetStatus, Goto, budgets, Spent
  <2>2. /\ sess'[q] = sess[q] /\ pc'[q] = pc[q]
        /\ sess'[p].status = "waitKeyNonceHDest" /\ pc'[p][t] = "idle"
        /\ \A u \in Thread \ {t} : pc'[p][u] = pc[p][u]
    BY <1>0, <2>1 DEF Session
  <2>3. InHand(q)' = InHand(q) /\ Room(q)' = Room(q)
    BY <1>0, <2>1, <2>2, SameNumbers
  <2>4. p \in alive /\ p \in alive'
    BY <2>1 DEF CanRun
  <2>5. /\ pc'[p]["sip"] = "finish" <=> pc[p]["sip"] = "finish"
        /\ \A u \in Thread : Begun(pc'[p][u]) = Begun(pc[p][u]) /\ Owed(pc'[p][u]) = Owed(pc[p][u])
    BY <2>1, <2>2 DEF Begun, Owed, Thread
  <2>6. Settled(p)' = st2
    BY <2>1, <2>2, <2>5 DEF Settled
  <2>7. /\ InHand(p) = x + Kept(st) /\ InHand(p)' = x + Kept(st2)
        /\ Room(p) = y + Replied(st) /\ Room(p)' = y + Replied(st2)
    <3>1. InHand(p) = x + Kept(st) /\ Room(p) = y + Replied(st)
      BY <2>4 DEF InHand, Room
    <3>2. InHand(p)' = x + Kept(st2) /\ Room(p)' = y + Replied(st2)
      <4> HIDE DEF st2
      <4> QED
        BY <2>4, <2>5, <2>6 DEF InHand, Room, Thread, Begun, Owed, Kept, Replied
    <3> QED
      BY <3>1, <3>2
  <2>8. /\ Kept(st2) <= Kept(st)
        /\ Replied(st) + Kept(st2) <= Replied(st2) + Kept(st)
    BY DEF Kept, Replied, Settled
  <2>9. /\ x \in Nat /\ y \in Nat /\ Kept(st) \in Nat /\ Kept(st2) \in Nat
        /\ Replied(st) \in Nat /\ Replied(st2) \in Nat
    BY DEF Begun, Owed, Kept, Replied
  <2>10. Takes(p, 0) /\ Puts(p, 0, 0)
    BY <2>1 DEF Takes, Puts
  <2> HIDE DEF q, st, st2, x, y
  <2>11. /\ 0 + InHand(p)' + Spent <= 0 + InHand(p) + Spent'
         /\ 0 + Room(p) + 0 + InHand(p)' + Spent
              <= 2 * 0 + Room(p)' + Spent' + 0 + InHand(p)
    BY <1>0, <2>1, <2>7, <2>8, <2>9
  <2> QED
    BY <1>0, <2>1, <2>3, <2>10, <2>11, PeerStep DEF q
<1>6. CASE InitWithoutSession(p, t)
  BY <1>6 DEF InitWithoutSession
<1> QED
  BY <1>1, <1>2, <1>3, <1>4, <1>5, <1>6 DEF InitStep

-----------------------------------------------------------------------------
\* The status that was settled is assigned.
LEMMA FinishKeepsBacklog ==
  ASSUME IInv, IInv', BacklogInv, NEW p \in Peer, HandlerFinish(p)
  PROVE  BacklogInv'
<1> DEFINE q == Other(p)
<1>1. /\ q \in Peer /\ q # p /\ TypeOK /\ TypeOK'
      /\ pc \in [Peer -> [Thread -> Label]] /\ sess \in [Peer -> Session]
  BY OtherPeer DEF IInv, TypeOK
<1>2. /\ pc[p]["sip"] = "finish" /\ pc' = [pc EXCEPT ![p]["sip"] = "idle"]
      /\ sess' = [sess EXCEPT ![p].status = next[p]]
      /\ alive' = alive /\ next' = next /\ net' = net /\ Spent' = Spent
  BY DEF HandlerFinish, Goto, budgets, Spent
<1>3. /\ sess'[q] = sess[q] /\ pc'[q] = pc[q] /\ sess'[p].status = next[p]
      /\ pc'[p]["sip"] = "idle" /\ pc'[p]["app"] = pc[p]["app"]
  BY <1>1, <1>2 DEF Session, Thread
<1>4. InHand(q)' = InHand(q) /\ Room(q)' = Room(q)
  BY <1>1, <1>2, <1>3, SameNumbers
<1>5. Settled(p) = next[p] /\ Settled(p)' = next[p]
  BY <1>2, <1>3 DEF Settled
<1>6. InHand(p)' = InHand(p) /\ Room(p)' = Room(p)
  <2>1. /\ Begun(pc[p]["sip"]) = 0 /\ Begun(pc'[p]["sip"]) = 0
        /\ Owed(pc[p]["sip"]) = 0 /\ Owed(pc'[p]["sip"]) = 0
    BY <1>2, <1>3 DEF Begun, Owed
  <2> QED
    BY <1>2, <1>3, <1>5, <2>1 DEF InHand, Room, Begun, Owed, Kept, Replied
<1>7. Takes(p, 0) /\ Puts(p, 0, 0)
  BY <1>2 DEF Takes, Puts
<1>8. Spent \in Nat /\ InHand(p) \in Nat /\ Room(p) \in Nat
  BY <1>1, NumbersOK
<1> HIDE DEF q
<1>9. /\ 0 + InHand(p)' + Spent <= 0 + InHand(p) + Spent'
      /\ 0 + Room(p) + 0 + InHand(p)' + Spent
           <= 2 * 0 + Room(p)' + Spent' + 0 + InHand(p)
  BY <1>2, <1>6, <1>8
<1> QED
  BY <1>1, <1>2, <1>4, <1>7, <1>9, PeerStep DEF q

\* A record that is lost makes room.
LEMMA LoseKeepsBacklog ==
  ASSUME IInv, IInv', BacklogInv, NEW p \in Peer, Lose(p)
  PROVE  BacklogInv'
<1> DEFINE q == Other(p)
           h == One(Head(net[p]), OtherType)
<1>1. q \in Peer /\ q # p /\ TypeOK /\ TypeOK' /\ net \in [Peer -> Seq(Message)]
  BY OtherPeer DEF IInv, TypeOK
<1>2. /\ net[p] # <<>> /\ net' = [net EXCEPT ![p] = Tail(@)] /\ sess' = sess
      /\ pc' = pc /\ next' = next /\ alive' = alive /\ Spent' = Spent
  BY DEF Lose, Spent
<1>3. Takes(p, h) /\ Puts(p, 0, 0)
  BY <1>1, <1>2 DEF Takes, Puts
<1>4. /\ InHand(q)' = InHand(q) /\ Room(q)' = Room(q)
      /\ InHand(p)' = InHand(p) /\ Room(p)' = Room(p)
  BY <1>1, <1>2, SameNumbers
<1>5. Spent \in Nat /\ InHand(p) \in Nat /\ Room(p) \in Nat /\ h \in Nat
  BY <1>1, NumbersOK DEF One
<1> HIDE DEF h, q
<1>6. /\ 0 + InHand(p)' + Spent <= h + InHand(p) + Spent'
      /\ 0 + Room(p) + 0 + InHand(p)' + Spent
           <= 2 * 0 + Room(p)' + Spent' + h + InHand(p)
  BY <1>2, <1>4, <1>5
<1> QED
  BY <1>1, <1>2, <1>3, <1>4, <1>6, PeerStep DEF q

\* The sum behind DuplicateKeepsBacklog.
LEMMA RepeatSum ==
  ASSUME NEW k \in Nat, NEW o \in Nat, NEW m \in {0, 1}, NEW n \in {0, 1},
         NEW r \in Int, NEW l \in Int, NEW l2 \in Int,
         k <= 2 * o + r + l, m + n = 1, l2 = (l + 1) - n
  PROVE  k + m <= 2 * (o + n) + r + l2
OBVIOUS

\* A record that arrives twice is paid for.
LEMMA DuplicateKeepsBacklog ==
  ASSUME IInv, IInv', BacklogInv, NEW p \in Peer, Duplicate(p)
  PROVE  BacklogInv'
<1> DEFINE q == Other(p)
           m == Head(net[p])
           s == <<m>> \o net[p]
<1>1. /\ q \in Peer /\ q # p /\ Other(q) = p /\ TypeOK /\ TypeOK'
      /\ net \in [Peer -> Seq(Message)] /\ net[p] \in Seq(Message)
      /\ \A r \in Peer : r = p \/ r = q
  BY OtherPeer DEF IInv, TypeOK, Peer, Other
<1>2. /\ net[p] # <<>> /\ net' = [net EXCEPT ![p] = s] /\ sess' = sess /\ p \in alive
      /\ pc' = pc /\ next' = next /\ alive' = alive /\ inits' = inits /\ dups' = dups + 1
      /\ refusals' = refusals
  BY DEF Duplicate
<1>3. net'[p] = s /\ net'[q] = net[q]
  BY <1>1, <1>2
<1>4. m \in Message /\ s \in Seq(Message) /\ s # <<>> /\ Head(s) = m /\ Tail(s) = net[p]
      /\ Len(s) = Len(net[p]) + 1 /\ Len(net[p]) \in Nat
  <2>1. m \in Message
    BY <1>1, <1>2, HeadTailProperties
  <2>2. <<m>> \in Seq(Message)
    BY <2>1
  <2> HIDE DEF m
  <2> QED
    BY <1>1, <2>1, <2>2
<1> HIDE DEF m, s
<1>5. Spent' = Spent + 1
  <2>1. inits \in [Peer -> Nat] /\ dups \in Nat /\ refusals \in Nat
        /\ A \in Peer /\ B \in Peer
    BY <1>1 DEF TypeOK, Peer
  <2> QED
    BY <1>2, <2>1 DEF Spent
<1>6. \A r \in Peer : InHand(r)' = InHand(r) /\ Room(r)' = Room(r)
  BY <1>2, SameNumbers
<1>7. One(m, KeyType) \in {0, 1} /\ One(m, OtherType) \in {0, 1}
      /\ One(m, KeyType) + One(m, OtherType) = 1
  BY <1>4 DEF One, KeyType, OtherType, Message
<1>8. /\ Count(s, 1, OtherType) = Count(net[p], 1, OtherType) + One(m, OtherType)
      /\ Count(s, 1, KeyType) = Count(net[p], 1, KeyType) + One(m, KeyType)
  BY <1>4, CountHead
<1>9. /\ Slack \in Int /\ Slack' \in Int /\ Spent \in Nat
      /\ \A r \in Peer : /\ InHand(r) \in Nat /\ Room(r) \in Nat
                         /\ Count(net[r], 1, OtherType) \in Nat
  BY <1>1, NumbersOK, NumbersPrimed
<1>10. Slack' = (Slack + 1) - One(m, OtherType)
  <2>1. Slack = Spent - (Count(net[p], 1, OtherType) + InHand(p))
                      - (Count(net[q], 1, OtherType) + InHand(q))
    BY <1>1, NumbersOK DEF Due
  <2>2. Slack' = (Spent + 1) - ((Count(net[p], 1, OtherType) + One(m, OtherType)) + InHand(p))
                             - (Count(net[q], 1, OtherType) + InHand(q))
    <3>1. Slack' = Spent' - Due(p)' - Due(q)'
      BY <1>1, NumbersPrimed
    <3>2. Due(p)' = (Count(net[p], 1, OtherType) + One(m, OtherType)) + InHand(p)
      BY <1>3, <1>6, <1>8 DEF Due
    <3>3. Due(q)' = Count(net[q], 1, OtherType) + InHand(q)
      BY <1>1, <1>3, <1>6 DEF Due
    <3> QED
      BY <1>5, <3>1, <3>2, <3>3
  <2> DEFINE c == Count(net[p], 1, OtherType)
             d == Count(net[q], 1, OtherType)
             i == InHand(p)
             j == InHand(q)
             n == One(m, OtherType)
  <2>3. /\ Slack = Spent - (c + i) - (d + j)
        /\ Slack' = (Spent + 1) - ((c + n) + i) - (d + j)
    BY <2>1, <2>2
  <2>4. c \in Int /\ d \in Int /\ i \in Int /\ j \in Int /\ n \in Int /\ Spent \in Int
    BY <1>1, <1>7, <1>9
  <2> HIDE DEF c, d, i, j, n
  <2>5. Slack' = (Slack + 1) - n
    BY <2>3, <2>4
  <2> QED
    BY <2>5 DEF n
<1>11. Slack \in Nat /\ Slack' \in Nat /\ Slack <= Slack'
  BY <1>7, <1>9, <1>10 DEF BacklogInv
<1>12. Spaced(p, q)'
  <2>1. \A j \in 1 .. Len(net[p]) + 1 :
          /\ Count(net[p], j, KeyType) <= 2 * Count(net[p], j, OtherType) + Room(q) + Slack
          /\ Count(net[p], j, KeyType) \in Nat /\ Count(net[p], j, OtherType) \in Nat
    BY <1>1, <1>4, CountNat DEF Spaced, BacklogInv
  <2>2. Room(q) \in Int /\ Slack \in Int /\ Slack' \in Int
    BY <1>1, <1>9
  <2>3. ASSUME NEW j \in 1 .. Len(s) + 1
        PROVE  Count(s, j, KeyType) <= 2 * Count(s, j, OtherType) + Room(q) + Slack'
    <3>1. CASE j = 1
      <4>1. 1 \in 1 .. Len(net[p]) + 1
        BY <1>4
      <4> DEFINE K == Count(net[p], 1, KeyType)
                 O == Count(net[p], 1, OtherType)
      <4>2. K <= 2 * O + Room(q) + Slack /\ K \in Nat /\ O \in Nat
        BY <2>1, <4>1
      <4> HIDE DEF K, O
      <4>3. K + One(m, KeyType) <= 2 * (O + One(m, OtherType)) + Room(q) + Slack'
        BY <1>7, <1>10, <2>2, <4>2, RepeatSum
      <4> QED
        BY <1>8, <3>1, <4>3 DEF K, O
    <3>2. CASE j # 1
      <4> DEFINE i == j - 1
      <4>1. i \in 1 .. Len(net[p]) + 1 /\ i \in Nat \ {0} /\ i + 1 = j
        BY <1>4, <3>2
      <4> HIDE DEF i
      <4>2. /\ Count(s, j, KeyType) = Count(net[p], i, KeyType)
            /\ Count(s, j, OtherType) = Count(net[p], i, OtherType)
        BY <1>4, <4>1, CountTail
      <4> DEFINE K == Count(net[p], i, KeyType)
                 O == Count(net[p], i, OtherType)
      <4>3. K <= 2 * O + Room(q) + Slack /\ K \in Nat /\ O \in Nat
        BY <2>1, <4>1
      <4> HIDE DEF K, O
      <4>4. K <= 2 * O + Room(q) + Slack'
        BY <1>11, <2>2, <4>3
      <4> QED
        BY <4>2, <4>4 DEF K, O
    <3> QED
      BY <3>1, <3>2
  <2> QED
    BY <1>1, <1>3, <1>6, <2>3 DEF Spaced
<1>13. Spaced(q, p)'
  <2>1. ASSUME NEW j \in 1 .. Len(net[q]) + 1
        PROVE  Count(net[q], j, KeyType) <= 2 * Count(net[q], j, OtherType) + Room(p) + Slack'
    <3>1. Count(net[q], j, KeyType) <= 2 * Count(net[q], j, OtherType) + Room(p) + Slack
      BY <1>1, <2>1 DEF Spaced, BacklogInv
    <3>2. Count(net[q], j, KeyType) \in Nat /\ Count(net[q], j, OtherType) \in Nat
      BY <1>1, CountNat DEF TypeOK
    <3> DEFINE K == Count(net[q], j, KeyType)
               O == Count(net[q], j, OtherType)
    <3>3. K <= 2 * O + Room(p) + Slack /\ K \in Nat /\ O \in Nat
      BY <3>1, <3>2
    <3> HIDE DEF K, O
    <3>4. K <= 2 * O + Room(p) + Slack'
      BY <1>9, <1>11, <3>3
    <3> QED
      BY <3>4 DEF K, O
  <2> QED
    BY <1>3, <1>6, <2>1 DEF Spaced
<1>14. Silent'
  BY <1>1, <1>2, <1>3 DEF Silent, BacklogInv
<1> QED
  BY <1>1, <1>11, <1>12, <1>13, <1>14 DEF BacklogInv

\* A queue that is untouched stays spaced, and an empty one is.
LEMMA StillSpaced ==
  ASSUME TypeOK, TypeOK', NEW q \in Peer, NEW p \in Peer, Spaced(q, p), net'[q] = net[q],
         Room(p)' = Room(p), Slack <= Slack'
  PROVE  Spaced(q, p)'
<1>1. Slack \in Int /\ Slack' \in Int /\ Room(p) \in Int /\ net[q] \in Seq(Message)
  <2>1. Slack \in Int /\ Slack' \in Int /\ Room(p) \in Nat
    BY NumbersOK, NumbersPrimed
  <2> QED
    BY <2>1 DEF TypeOK
<1>2. ASSUME NEW j \in 1 .. Len(net[q]) + 1
      PROVE  Count(net[q], j, KeyType) <= 2 * Count(net[q], j, OtherType) + Room(p) + Slack'
  <2> DEFINE K == Count(net[q], j, KeyType)
             O == Count(net[q], j, OtherType)
  <2>1. K \in Nat /\ O \in Nat
    BY <1>1, CountNat
  <2>2. K <= 2 * O + Room(p) + Slack
    BY DEF Spaced
  <2> HIDE DEF K, O
  <2>3. K <= 2 * O + Room(p) + Slack'
    BY <1>1, <2>1, <2>2
  <2> QED
    BY <2>3 DEF K, O
<1> QED
  BY <1>2 DEF Spaced

LEMMA EmptySpaced ==
  ASSUME TypeOK', NEW q \in Peer, NEW p \in Peer, net'[q] = <<>>, 0 <= Slack'
  PROVE  Spaced(q, p)'
<1>1. Slack' \in Int /\ Room(p)' \in Nat
  BY NumbersPrimed
<1>2. <<>> \in Seq(Message) /\ Len(<<>>) = 0
  BY EmptySeq
<1>3. Count(<<>>, 1, KeyType) = 0 /\ Count(<<>>, 1, OtherType) = 0
  <2> DEFINE e == <<>>
  <2>1. e \in Seq(Message) /\ Len(e) + 1 = 1
    BY <1>2
  <2> HIDE DEF e
  <2>2. Count(e, 1, KeyType) = 0 /\ Count(e, 1, OtherType) = 0
    BY <2>1, CountEnd
  <2> QED
    BY <2>2 DEF e
<1>4. \A j \in 1 .. Len(net'[q]) + 1 : j = 1
  BY <1>2
<1>5. 0 <= 2 * 0 + Room(p)' + Slack'
  BY <1>1
<1> QED
  BY <1>3, <1>4, <1>5 DEF Spaced

\* A process that ends sends nothing more, and its queue is gone.
LEMMA DieKeepsBacklog ==
  ASSUME IInv, IInv', BacklogInv, NEW p \in Peer, Die(p)
  PROVE  BacklogInv'
<1> DEFINE q == Other(p)
<1>1. /\ q \in Peer /\ q # p /\ Other(q) = p /\ TypeOK /\ TypeOK'
      /\ \A r \in Peer : r = p \/ r = q
  BY OtherPeer DEF IInv, Peer, Other
<1>2. /\ alive' = alive \ {p} /\ pc' = [pc EXCEPT ![p] = IdleThreads]
      /\ net' = [net EXCEPT ![q] = <<>>] /\ sess' = sess /\ next' = next /\ Spent' = Spent
  BY DEF Die, budgets, Spent
<1>3. net'[p] = net[p] /\ net'[q] = <<>> /\ pc'[q] = pc[q] /\ pc'[p] = IdleThreads
  BY <1>1, <1>2 DEF TypeOK
<1> HIDE DEF q
<1>4. InHand(q)' = InHand(q) /\ Room(q)' = Room(q)
  <2>1. q \in alive' <=> q \in alive
    BY <1>1, <1>2
  <2> QED
    BY <1>2, <1>3, <2>1 DEF InHand, Room, Settled, Begun, Owed, Kept, Replied
<1>5. InHand(p)' = 0
  BY <1>2, <1>3 DEF InHand, Begun, IdleThreads, Thread
<1>6. Count(net'[q], 1, OtherType) = 0
  <2> DEFINE e == net'[q]
  <2>1. e \in Seq(Message) /\ Len(e) + 1 = 1
    BY <1>3, EmptySeq
  <2> HIDE DEF e
  <2>2. Count(e, 1, OtherType) = 0
    BY <2>1, CountEnd
  <2> QED
    BY <2>2 DEF e
<1>7. /\ Slack \in Nat /\ Slack' \in Int /\ Spent \in Nat
      /\ \A r \in Peer : InHand(r) \in Nat /\ Count(net[r], 1, OtherType) \in Nat
  BY <1>1, NumbersOK, NumbersPrimed DEF BacklogInv
<1>8. Slack <= Slack'
  <2>1. Slack = Spent - (Count(net[p], 1, OtherType) + InHand(p))
                      - (Count(net[q], 1, OtherType) + InHand(q))
    BY <1>1, NumbersOK DEF Due, q
  <2>2. Slack' = Spent - (Count(net[p], 1, OtherType) + 0) - (0 + InHand(q))
    <3>1. Slack' = Spent' - Due(p)' - Due(q)'
      BY <1>1, NumbersPrimed DEF q
    <3>2. Due(p)' = Count(net[p], 1, OtherType) + 0
      BY <1>3, <1>5 DEF Due
    <3>3. Due(q)' = 0 + InHand(q)
      BY <1>4, <1>6 DEF Due
    <3> QED
      BY <1>2, <3>1, <3>2, <3>3
  <2> QED
    BY <1>1, <1>7, <2>1, <2>2
<1>9. 0 <= Slack'
  BY <1>7, <1>8
<1>10. Spaced(p, q)'
  <2>1. Spaced(p, q)
    BY <1>1 DEF BacklogInv
  <2> QED
    BY <1>1, <1>3, <1>4, <1>8, <2>1, StillSpaced
<1>11. Spaced(q, p)'
  BY <1>1, <1>3, <1>9, EmptySpaced
<1>12. Silent'
  <2>1. \A r \in Peer : r \notin alive' => net'[Other(r)] = <<>>
    BY <1>1, <1>2, <1>3 DEF Silent, BacklogInv, q
  <2> QED
    BY <2>1 DEF Silent
<1> QED
  BY <1>1, <1>9, <1>10, <1>11, <1>12 DEF BacklogInv, q

\* A new process has sent nothing, and the old one has nothing on its way.
LEMMA RestartKeepsBacklog ==
  ASSUME IInv, IInv', BacklogInv, NEW p \in Peer, Restart(p)
  PROVE  BacklogInv'
<1> DEFINE q == Other(p)
<1>1. /\ q \in Peer /\ q # p /\ Other(q) = p /\ TypeOK /\ TypeOK'
      /\ \A r \in Peer : r = p \/ r = q
  BY OtherPeer DEF IInv, Peer, Other
<1>2. /\ p \notin alive /\ alive' = alive \cup {p} /\ pc' = pc /\ net' = net
      /\ next' = next /\ Spent' = Spent
      /\ \E i \in NonceId : sess' = [sess EXCEPT ![p] = NewSession(p, i)]
  BY DEF Restart, Spent
<1>3. sess'[q] = sess[q] /\ sess'[p].status = "notConnected" /\ pc[p] = IdleThreads
  BY <1>1, <1>2 DEF TypeOK, NewSession
<1>4. net[q] = <<>>
  BY <1>2 DEF Silent, BacklogInv
<1> HIDE DEF q
<1>5. InHand(q)' = InHand(q) /\ Room(q)' = Room(q)
  <2>1. q \in alive' <=> q \in alive
    BY <1>1, <1>2
  <2> QED
    BY <1>2, <1>3, <2>1 DEF InHand, Room, Settled, Begun, Owed, Kept, Replied
<1>6. InHand(p) = 0 /\ InHand(p)' = 0
  <2>1. pc[p]["app"] = "idle" /\ pc[p]["sip"] = "idle"
    BY <1>3 DEF IdleThreads, Thread
  <2>2. Settled(p)' = "notConnected"
    BY <1>2, <1>3, <2>1 DEF Settled
  <2> QED
    BY <1>2, <2>1, <2>2 DEF InHand, Begun, Kept
<1>7. Slack' = Slack
  BY <1>1, <1>2, <1>5, <1>6, NumbersOK, NumbersPrimed DEF Due, q
<1>8. Slack \in Int /\ 0 <= Slack
  BY <1>1, NumbersOK DEF BacklogInv
<1>9. Spaced(p, q)'
  <2>1. Spaced(p, q)
    BY <1>1 DEF BacklogInv
  <2> QED
    BY <1>1, <1>2, <1>5, <1>7, <1>8, <2>1, StillSpaced
<1>10. Spaced(q, p)'
  BY <1>1, <1>2, <1>4, <1>7, <1>8, EmptySpaced
<1>11. Silent'
  BY <1>2 DEF Silent, BacklogInv
<1> QED
  BY <1>1, <1>7, <1>8, <1>9, <1>10, <1>11 DEF BacklogInv, q

\* Nothing is on its way at first.
LEMMA InitBacklogInv == Init => BacklogInv
<1> SUFFICES ASSUME Init PROVE BacklogInv
  OBVIOUS
<1> DEFINE e == <<>>
<1>1. e \in Seq(Message) /\ Len(e) = 0
  BY EmptySeq
<1>2. A \in Peer /\ B \in Peer /\ alive = Peer /\ \A p \in Peer : net[p] = e
  BY DEF Init, Peer
<1>3. ASSUME NEW p \in Peer PROVE InHand(p) = 0 /\ Room(p) = 0
  BY DEF Init, InHand, Room, Settled, Begun, Owed, Kept, Replied, IdleThreads, Thread, NewSession
<1> HIDE DEF e
<1>4. Count(e, 1, KeyType) = 0 /\ Count(e, 1, OtherType) = 0
  <2>1. Len(e) + 1 = 1
    BY <1>1
  <2> QED
    BY <1>1, <2>1, CountEnd
<1>5. Spent = 0
  BY <1>2 DEF Init, Spent
<1>6. Slack = 0
  BY <1>2, <1>3, <1>4, <1>5 DEF Slack, Due
<1>7. ASSUME NEW p \in Peer PROVE Spaced(Other(p), p)
  <2>1. Other(p) \in Peer
    BY OtherPeer
  <2>2. \A j \in 1 .. Len(e) + 1 : j = 1
    BY <1>1
  <2> QED
    BY <1>2, <1>3, <1>4, <1>6, <2>1, <2>2 DEF Spaced
<1> QED
  BY <1>2, <1>6, <1>7 DEF BacklogInv, Silent

\* Every step keeps the invariant.
LEMMA NextBacklogInv == IInv /\ BacklogInv /\ [Next]_vars => BacklogInv'
<1> SUFFICES ASSUME IInv, BacklogInv, [Next]_vars PROVE BacklogInv'
  OBVIOUS
<1>0. IInv'
  BY NextIInv
<1>1. CASE UNCHANGED vars
  <2>1. /\ sess' = sess /\ pc' = pc /\ next' = next /\ net' = net /\ alive' = alive
        /\ inits' = inits /\ dups' = dups /\ refusals' = refusals
    BY <1>1 DEF vars, budgets
  <2>2. Slack' = Slack /\ \A p \in Peer : Room(p)' = Room(p)
    BY <2>1 DEF Slack, Spent, Due, InHand, Room, Settled, Begun, Owed, Kept, Replied
  <2> QED
    BY <2>1, <2>2 DEF BacklogInv, Spaced, Silent
<1>2. ASSUME NEW p \in Peer, AppCallsInitSession(p) PROVE BacklogInv'
  BY <1>0, <1>2, CallKeepsBacklog
<1>3. ASSUME NEW p \in Peer, NEW t \in Thread, InitStep(p, t) PROVE BacklogInv'
  BY <1>0, <1>3, InitStepKeepsBacklog, DieKeepsBacklog
<1>4. ASSUME NEW p \in Peer, Handle(p) PROVE BacklogInv'
  BY <1>0, <1>4, HandleKeyKeepsBacklog, HandleNonceKeepsBacklog, HandleNonceHKeepsBacklog,
     AlertKeepsBacklog, FinishKeepsBacklog, DieKeepsBacklog DEF Handle
<1>5. ASSUME NEW p \in Peer, Environment(p) PROVE BacklogInv'
  BY <1>0, <1>5, LoseKeepsBacklog, DuplicateKeepsBacklog, DieKeepsBacklog,
     RestartKeepsBacklog DEF Environment, Crash
<1> QED
  BY <1>1, <1>2, <1>3, <1>4, <1>5 DEF Next

\* However often initiators restart each other, and whatever is lost, repeated
\* or restarted, what is on its way is bounded by the calls of initSession, the
\* repetitions and the refusals: no alert and no answer to a key multiplies records.
THEOREM SpecBacklogBounded == Spec => []BacklogBounded
<1>1. IInv => TypeOK
  BY DEF IInv
<1> QED
  BY <1>1, InitBacklogInv, NextBacklogInv, SpecIInv, BacklogInvBounds, PTL DEF Spec
=============================================================================
