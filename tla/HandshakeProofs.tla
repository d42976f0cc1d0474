--------------------------- MODULE HandshakeProofs ---------------------------
(***************************************************************************)
(* Proofs that no peer is connected to one without a session key, and that *)
(* two that end up connected have each other's nonces, for every number of *)
(* calls of initSession and of records delivered twice, as long as no      *)
(* record is lost and no process restarted.                                *)
(*                                                                         *)
(* A peer q without a session key has received nothing: whatever its buddy *)
(* p does first sends a key record, and every handler that finds one in a  *)
(* status of such a peer derives a session key from it.  So q can only     *)
(* have called initSession, p finds keys and then nonces in its queue, and *)
(* with these it does not reach "connected": the one way without a hash is *)
(* to receive a nonce before the last key.                                 *)
(***************************************************************************)
EXTENDS SmkexProofs

\* Nothing is lost on the way to a process that runs, and no process is stopped
\* from outside: those that die do it at initSession or a copy out of bounds.
NothingLost == MaxLoss = 0 /\ MaxRestart = 0

-----------------------------------------------------------------------------
(***************************************************************************)
(* Queues of keys and nonces.                                              *)
(***************************************************************************)
KeysOnly(s) == \A i \in 1 .. Len(s) : s[i].type = "handshakeKey"
NoKey(s) == \A i \in 1 .. Len(s) : s[i].type # "handshakeKey"

\* Keys, then nonces.
Early(s) ==
  /\ \A i \in 1 .. Len(s) : s[i].type \in {"handshakeKey", "handshakeNonce"}
  /\ \A i, j \in 1 .. Len(s) :
       i < j /\ s[j].type = "handshakeKey" => s[i].type = "handshakeKey"

\* A queue without records is of every kind.
LEMMA EmptyQueue == KeysOnly(<<>>) /\ NoKey(<<>>) /\ Early(<<>>)
BY DEF KeysOnly, NoKey, Early

\* Taking a record away; behind a nonce there are no keys.
LEMMA TailOf ==
  ASSUME NEW s \in Seq(Message), s # <<>>
  PROVE  /\ Early(s) => Early(Tail(s)) /\ Head(s).type \in {"handshakeKey", "handshakeNonce"}
         /\ KeysOnly(s) => KeysOnly(Tail(s)) /\ Head(s).type = "handshakeKey"
         /\ NoKey(s) => NoKey(Tail(s)) /\ Head(s).type # "handshakeKey"
         /\ Early(s) /\ Head(s).type = "handshakeNonce" => NoKey(Tail(s))
<1> DEFINE t == Tail(s)
<1>1. /\ t \in Seq(Message) /\ Len(t) = Len(s) - 1 /\ Len(s) \in Nat /\ Len(s) > 0
      /\ Head(s) = s[1] /\ \A i \in 1 .. Len(t) : t[i] = s[i + 1]
  <2>1. Len(s) \in Nat /\ Len(s) # 0
    BY EmptySeq, LenProperties
  <2>2. t \in Seq(Message) /\ Len(t) = Len(s) - 1 /\ Head(s) = s[1]
        /\ \A i \in 1 .. Len(t) : t[i] = s[i + 1]
    BY HeadTailProperties
  <2> QED
    BY <2>1, <2>2
<1> HIDE DEF t
<1>2. \A i \in 1 .. Len(t) : i + 1 \in 1 .. Len(s) /\ 1 < i + 1
  BY <1>1
<1>3. 1 \in 1 .. Len(s)
  BY <1>1
<1>4. Early(s) => Early(t) /\ s[1].type \in {"handshakeKey", "handshakeNonce"}
  <2> SUFFICES ASSUME Early(s) PROVE Early(t) /\ s[1].type \in {"handshakeKey", "handshakeNonce"}
    OBVIOUS
  <2>1. \A i \in 1 .. Len(t) : t[i].type \in {"handshakeKey", "handshakeNonce"}
    BY <1>1, <1>2 DEF Early
  <2>2. ASSUME NEW i \in 1 .. Len(t), NEW j \in 1 .. Len(t), i < j, t[j].type = "handshakeKey"
        PROVE  t[i].type = "handshakeKey"
    <3>1. i + 1 < j + 1 /\ s[j + 1].type = "handshakeKey"
      BY <1>1, <2>2
    <3> QED
      BY <1>1, <1>2, <3>1 DEF Early
  <2> QED
    BY <1>3, <2>1, <2>2 DEF Early
<1>5. KeysOnly(s) => KeysOnly(t) /\ s[1].type = "handshakeKey"
  BY <1>1, <1>2, <1>3 DEF KeysOnly
<1>6. NoKey(s) => NoKey(t) /\ s[1].type # "handshakeKey"
  BY <1>1, <1>2, <1>3 DEF NoKey
<1>7. Early(s) /\ s[1].type = "handshakeNonce" => NoKey(t)
  <2> SUFFICES ASSUME Early(s), s[1].type = "handshakeNonce", NEW i \in 1 .. Len(t)
               PROVE  t[i].type # "handshakeKey"
    BY DEF NoKey
  <2>1. s[i + 1].type = "handshakeKey" => s[1].type = "handshakeKey"
    BY <1>2, <1>3 DEF Early
  <2> QED
    BY <1>1, <2>1
<1> QED
  BY <1>1, <1>4, <1>5, <1>6, <1>7 DEF t

\* Records put behind others.
LEMMA ConcatOf ==
  ASSUME NEW s \in Seq(Message), NEW out \in Seq(Message)
  PROVE  /\ s \o out \in Seq(Message)
         /\ s # <<>> => s \o out # <<>> /\ Head(s \o out) = Head(s)
         /\ s = <<>> => s \o out = out
<1> DEFINE c == s \o out
<1>1. Len(s) \in Nat /\ Len(out) \in Nat
  BY LenProperties
<1>2. /\ c \in Seq(Message) /\ Len(c) = Len(s) + Len(out)
      /\ \A i \in 1 .. Len(s) + Len(out) : c[i] = IF i <= Len(s) THEN s[i] ELSE out[i - Len(s)]
  BY ConcatProperties
<1> HIDE DEF c
<1>3. s # <<>> => c # <<>> /\ Head(c) = Head(s)
  <2> SUFFICES ASSUME s # <<>> PROVE c # <<>> /\ Head(c) = Head(s)
    OBVIOUS
  <2>1. Len(s) # 0
    BY EmptySeq, LenProperties
  <2>2. Len(c) # 0 /\ c[1] = s[1]
    BY <1>1, <1>2, <2>1
  <2>3. c # <<>>
    BY <2>2
  <2>4. Head(c) = c[1] /\ Head(s) = s[1]
    BY <1>2, <2>3, HeadTailProperties
  <2> QED
    BY <2>2, <2>3, <2>4
<1>4. s = <<>> => s \o out = out
  BY ConcatEmptySeq
<1> QED
  BY <1>2, <1>3, <1>4 DEF c

\* The key goes first, the nonce behind.
LEMMA SentOne ==
  ASSUME NEW s \in Seq(Message), NEW m \in Message
  PROVE  /\ KeysOnly(s) /\ m.type = "handshakeKey" => KeysOnly(s \o <<m>>) /\ Early(s \o <<m>>)
         /\ Early(s) /\ m.type = "handshakeNonce" => Early(s \o <<m>>)
<1> DEFINE o == <<m>>
           c == s \o o
<1>1. o \in Seq(Message) /\ Len(o) = 1 /\ o[1] = m /\ Len(s) \in Nat
  BY LenProperties
<1> HIDE DEF o
<1>2. /\ Len(c) = Len(s) + 1 /\ c[Len(s) + 1] = m
      /\ \A i \in 1 .. Len(s) : c[i] = s[i]
  <2>1. /\ Len(c) = Len(s) + Len(o)
        /\ \A i \in 1 .. Len(s) + Len(o) : c[i] = IF i <= Len(s) THEN s[i] ELSE o[i - Len(s)]
    BY <1>1, ConcatProperties
  <2> HIDE DEF c
  <2> QED
    BY <1>1, <2>1
<1> HIDE DEF c
<1>3. \A i \in 1 .. Len(c) : i \in 1 .. Len(s) \/ i = Len(s) + 1
  BY <1>1, <1>2
<1>4. KeysOnly(s) /\ m.type = "handshakeKey" => KeysOnly(c)
  BY <1>2, <1>3 DEF KeysOnly
<1>5. KeysOnly(c) => Early(c)
  BY DEF KeysOnly, Early
<1>6. Early(s) /\ m.type = "handshakeNonce" => Early(c)
  <2> SUFFICES ASSUME Early(s), m.type = "handshakeNonce" PROVE Early(c)
    OBVIOUS
  <2>1. \A i \in 1 .. Len(c) : c[i].type \in {"handshakeKey", "handshakeNonce"}
    BY <1>2, <1>3 DEF Early
  <2>2. ASSUME NEW i \in 1 .. Len(c), NEW j \in 1 .. Len(c), i < j, c[j].type = "handshakeKey"
        PROVE  c[i].type = "handshakeKey"
    <3>1. j \in 1 .. Len(s)
      BY <1>2, <1>3, <2>2
    <3>2. i \in 1 .. Len(s)
      BY <1>1, <2>2, <3>1
    <3> QED
      BY <1>2, <2>2, <3>1, <3>2 DEF Early
  <2> QED
    BY <2>1, <2>2 DEF Early
<1> QED
  BY <1>4, <1>5, <1>6 DEF c, o

\* A record delivered twice.
LEMMA TwiceOf ==
  ASSUME NEW s \in Seq(Message), s # <<>>
  PROVE  /\ <<Head(s)>> \o s # <<>> /\ Head(<<Head(s)>> \o s) = Head(s)
         /\ Early(s) => Early(<<Head(s)>> \o s)
         /\ KeysOnly(s) => KeysOnly(<<Head(s)>> \o s)
         /\ NoKey(s) => NoKey(<<Head(s)>> \o s)
<1> DEFINE o == <<Head(s)>>
           c == o \o s
<1>1. Len(s) \in Nat /\ Len(s) > 0 /\ Head(s) = s[1] /\ Head(s) \in Message
  <2>1. Len(s) \in Nat /\ Len(s) # 0
    BY EmptySeq, LenProperties
  <2>2. Head(s) = s[1] /\ Head(s) \in Message
    BY HeadTailProperties
  <2> QED
    BY <2>1, <2>2
<1>2. o \in Seq(Message) /\ Len(o) = 1 /\ o[1] = s[1]
  BY <1>1
<1> HIDE DEF o
<1>3. /\ c \in Seq(Message) /\ Len(c) = 1 + Len(s)
      /\ \A i \in 1 .. 1 + Len(s) : c[i] = IF i <= 1 THEN s[1] ELSE s[i - 1]
  <2>1. /\ c \in Seq(Message) /\ Len(c) = Len(o) + Len(s)
        /\ \A i \in 1 .. Len(o) + Len(s) : c[i] = IF i <= Len(o) THEN o[i] ELSE s[i - Len(o)]
    BY <1>2, ConcatProperties
  <2> HIDE DEF c
  <2> QED
    BY <1>1, <1>2, <2>1
<1> HIDE DEF c
<1>4. c # <<>> /\ c[1] = s[1]
  BY <1>1, <1>3
<1>5. Head(c) = Head(s)
  BY <1>1, <1>3, <1>4, HeadTailProperties
<1> DEFINE from(i) == IF i <= 1 THEN 1 ELSE i - 1
<1>6. \A i \in 1 .. Len(c) : from(i) \in 1 .. Len(s) /\ c[i] = s[from(i)]
  BY <1>1, <1>3
<1>7. \A i, j \in 1 .. Len(c) : i < j => from(i) < from(j) \/ from(i) = from(j)
  BY <1>1, <1>3
<1> HIDE DEF from
<1>8. KeysOnly(s) => KeysOnly(c)
  BY <1>6 DEF KeysOnly
<1>9. NoKey(s) => NoKey(c)
  BY <1>6 DEF NoKey
<1>10. Early(s) => Early(c)
  BY <1>6, <1>7 DEF Early
<1> QED
  BY <1>4, <1>5, <1>8, <1>9, <1>10 DEF c, o

-----------------------------------------------------------------------------
(***************************************************************************)
(* The invariant.                                                          *)
(***************************************************************************)
\* No key record has reached q.
Keyless(q) == sess[q].sessionKey = {}

\* q has sent its first nonce, behind its key, or will not send it any more.
NonceSent(q) ==
  q \notin alive \/ pc[q]["app"] = "setStatus" \/ sess[q].status = "waitKeyNonceHDest"

\* q did nothing but to call initSession, which stops once it awaits a reply.
OnlyInits(q) ==
  /\ pc[q]["sip"] = "idle"
  /\ sess[q].status \in {"notConnected", "waitKeyNonceHDest"}
  /\ sess[q].status = "waitKeyNonceHDest" => pc[q]["app"] \in {"idle", "init"}

\* What its buddy p finds of it.
FoundOf(q, p) ==
  /\ Early(net[p])
  /\ ~NonceSent(q) => KeysOnly(net[p])
  /\ ~NonceSent(q) /\ pc[q]["app"] # "sendNonce" => net[p] = <<>>

\* p has status st, or its handler is about to assign it.
Is(p, st) == sess[p].status = st \/ (pc[p]["sip"] = "finish" /\ next[p] = st)

\* p is not connected, and when it awaits a key none is to come.
HeldOff(q, p) ==
  /\ ~Is(p, "connected")
  /\ Is(p, "waitKeyDest") => NonceSent(q) /\ NoKey(net[p])

\* The first record for q is a key, on its way or not sent yet.
KeyFirst(q, p) ==
  q \in alive =>
    /\ net[q] # <<>> => Head(net[q]).type = "handshakeKey"
    /\ p \in alive /\ net[q] = <<>> =>
         /\ Keyless(p) /\ sess[p].status = "notConnected"
         /\ pc[p]["app"] \in {"idle", "init", "sendKey"}

Untouched(q, p) == OnlyInits(q) /\ FoundOf(q, p) /\ HeldOff(q, p) /\ KeyFirst(q, p)

KeylessInv == \A q \in Peer : Keyless(q) => Untouched(q, Other(q))

-----------------------------------------------------------------------------
(***************************************************************************)
(* Steps of q.                                                             *)
(***************************************************************************)
\* What q may receive: a key, for which it has a handler that derives.
LEMMA Derives ==
  ASSUME IInv, KeylessInv, NEW q \in Peer, Keyless(q), Handle(q)
  PROVE  ~Keyless(q)'
<1>1. /\ OnlyInits(q) /\ KeyFirst(q, Other(q))
      /\ sess[q] \in Session /\ inc[q] \in Nat
  BY DEF KeylessInv, Untouched, IInv, TypeOK
<1>2. ~HandlerFinish(q)
  BY <1>1 DEF HandlerFinish, OnlyInits
<1>3. ASSUME NEW type, NEW st, Receives(q, type, st)
      PROVE  type = "handshakeKey" /\ sess[q].status \in st
  BY <1>1, <1>3 DEF Receives, CanRun, KeyFirst
<1>4. HandleKey(q)
  <2>1. ~HandleNonce(q)
    BY <1>3 DEF HandleNonce, NonceWaitNonceInit, NonceWaitKeyNonceHDest, NonceConnected,
                NonceRefused
  <2>2. ~HandleNonceH(q)
    BY <1>3 DEF HandleNonceH, NonceHWaitKeyNonceHDest, NonceHWaitNonceHDest,
                NonceHWaitNonce2HInit, NonceHIgnored
  <2>3. ~AlertReceived(q)
    BY <1>3 DEF AlertReceived
  <2> QED
    BY <1>2, <2>1, <2>2, <2>3 DEF Handle
<1>5. KeyNotConnected(q) \/ KeyWaitKeyNonceHDest(q)
  BY <1>1, <1>3, <1>4 DEF HandleKey, KeyWaitKeyDest, KeyConnected, KeyIgnored, OnlyInits
<1> DEFINE s == WithSessionKey(q, [sess[q] EXCEPT !.remoteKey = Head(net[q]).key])
<1>6. s.sessionKey # {}
  BY <1>1 DEF WithSessionKey, Session
<1>7. sess' = [sess EXCEPT ![q] = s]
  BY <1>5 DEF KeyNotConnected, KeyWaitKeyNonceHDest, StoreThen, StoreAndGoOn, Store
<1> HIDE DEF s
<1>8. sess'[q] = s
  BY <1>7 DEF IInv, TypeOK
<1> QED
  BY <1>6, <1>8 DEF Keyless

\* The application's thread of q goes to label, and the session of q becomes s.
AppMoves(q, label, s) ==
  /\ pc' = [pc EXCEPT ![q]["app"] = label] /\ sess' = [sess EXCEPT ![q] = s]
  /\ alive' = alive /\ next' = next

SameHold(p) == \A st \in {"connected", "waitKeyDest"} : Is(p, st)' <=> Is(p, st)

\* What that leaves alone.
LEMMA OwnStep ==
  ASSUME IInv, NEW q \in Peer, NEW p, p = Other(q), Untouched(q, p),
         NEW label \in Label, NEW s, AppMoves(q, label, s)
  PROVE  /\ p \in Peer /\ p # q /\ q = Other(p)
         /\ pc'[q]["app"] = label /\ pc'[q]["sip"] = "idle" /\ sess'[q] = s
         /\ pc'[p] = pc[p] /\ sess'[p] = sess[p]
         /\ SameHold(p)
         /\ net'[q] = net[q] => KeyFirst(q, p)'
<1>1. p \in Peer /\ p # q /\ q = Other(p)
  BY OtherPeer
<1>2. /\ pc'[q]["app"] = label /\ pc'[q]["sip"] = "idle" /\ sess'[q] = s
      /\ pc'[p] = pc[p] /\ sess'[p] = sess[p]
  BY <1>1 DEF AppMoves, IInv, TypeOK, Thread, Untouched, OnlyInits
<1>3. SameHold(p)
  BY <1>2 DEF SameHold, Is, AppMoves
<1>4. net'[q] = net[q] => KeyFirst(q, p)'
  BY <1>2 DEF AppMoves, Untouched, KeyFirst, Keyless
<1> QED
  BY <1>1, <1>2, <1>3, <1>4

\* The application calls initSession.
LEMMA CallUntouched ==
  ASSUME IInv, NEW q \in Peer, NEW p, p = Other(q), Untouched(q, p), AppCallsInitSession(q)
  PROVE  Untouched(q, p)'
<1>1. /\ pc[q]["app"] = "idle" /\ net' = net /\ alive' = alive
      /\ AppMoves(q, "init", sess[q])
  BY DEF AppMoves, AppCallsInitSession, Goto, IInv, TypeOK
<1>2. /\ pc'[q]["app"] = "init" /\ pc'[q]["sip"] = "idle" /\ sess'[q] = sess[q]
      /\ SameHold(p)
      /\ KeyFirst(q, p)'
  BY <1>1, OwnStep DEF Label
<1>3. NonceSent(q)' <=> NonceSent(q)
  BY <1>1, <1>2 DEF NonceSent
<1>4. OnlyInits(q)'
  BY <1>2 DEF Untouched, OnlyInits
<1>5. FoundOf(q, p)'
  BY <1>1, <1>2, <1>3 DEF Untouched, FoundOf
<1>6. HeldOff(q, p)'
  BY <1>1, <1>2, <1>3 DEF Untouched, HeldOff, SameHold
<1> QED
  BY <1>2, <1>4, <1>5, <1>6 DEF Untouched

\* A peer that dies sends nothing more, and what it sent is gone.
LEMMA DieUntouched ==
  ASSUME IInv, NEW q \in Peer, NEW p, p = Other(q), Untouched(q, p), Die(q)
  PROVE  Untouched(q, p)'
<1>1. p \in Peer /\ p # q
  BY OtherPeer
<1>2. /\ q \notin alive' /\ net'[p] = <<>> /\ sess' = sess /\ next' = next
      /\ pc'[q] = IdleThreads /\ pc'[p] = pc[p]
  BY <1>1 DEF Die, IInv, TypeOK
<1>3. OnlyInits(q)'
  BY <1>2 DEF Untouched, OnlyInits, IdleThreads, Thread
<1>4. NonceSent(q)' /\ KeyFirst(q, p)'
  BY <1>2 DEF NonceSent, KeyFirst
<1>5. FoundOf(q, p)' /\ HeldOff(q, p)'
  BY <1>2, <1>4, EmptyQueue DEF Untouched, FoundOf, HeldOff, Is
<1> QED
  BY <1>3, <1>4, <1>5 DEF Untouched

\* initSession: the key is sent before the nonce, and once.
LEMMA InitUntouched ==
  ASSUME IInv, NEW q \in Peer, NEW p, p = Other(q), Untouched(q, p),
         NEW t \in Thread, InitStep(q, t)
  PROVE  Untouched(q, p)'
<1>1. t = "app"
  BY DEF InitStep, InitWithoutSession, InitSuppressed, InitBegin, InitSendKey, InitSendNonce,
         InitSetStatus, Untouched, OnlyInits, Thread
<1>2. p \in Peer /\ p # q /\ q = Other(p) /\ net[p] \in Seq(Message)
  BY OtherPeer DEF IInv, TypeOK
<1>3. CASE InitWithoutSession(q, t)
  BY <1>3, DieUntouched DEF InitWithoutSession
<1>4. CASE InitSuppressed(q, t)
  <2> DEFINE s == [sess[q] EXCEPT !.iAmSessionInitiator = TRUE]
  <2>1. /\ AppMoves(q, "idle", s)
        /\ net' = net /\ alive' = alive
        /\ s.status = "waitKeyNonceHDest" /\ sess[q].status = "waitKeyNonceHDest"
    BY <1>1, <1>4 DEF AppMoves, InitSuppressed, Goto, IInv, TypeOK, Session
  <2> HIDE DEF s
  <2>2. /\ pc'[q]["app"] = "idle" /\ pc'[q]["sip"] = "idle" /\ sess'[q] = s
        /\ SameHold(p)
        /\ KeyFirst(q, p)'
    BY <2>1, OwnStep DEF Label
  <2>3. OnlyInits(q)' /\ NonceSent(q)'
    BY <2>1, <2>2 DEF OnlyInits, NonceSent
  <2>4. FoundOf(q, p)' /\ HeldOff(q, p)'
    BY <2>1, <2>2, <2>3 DEF Untouched, FoundOf, HeldOff, SameHold
  <2> QED
    BY <2>2, <2>3, <2>4 DEF Untouched
<1>5. CASE InitBegin(q, t)
  <2>1. PICK i \in NonceId : sess' = [sess EXCEPT ![q].iAmSessionInitiator = TRUE,
                                                  ![q].localNonce = <<q, "nonce", i>>]
    BY <1>5 DEF InitBegin
  <2> DEFINE s == [sess[q] EXCEPT !.iAmSessionInitiator = TRUE,
                                  !.localNonce = <<q, "nonce", i>>]
  <2>2. /\ AppMoves(q, "sendKey", s)
        /\ net' = net /\ alive' = alive /\ q \in alive
        /\ s.status = "notConnected" /\ sess[q].status = "notConnected"
        /\ pc[q]["app"] = "init"
    <3>1. /\ pc' = [pc EXCEPT ![q]["app"] = "sendKey"] /\ net' = net /\ alive' = alive
          /\ next' = next /\ q \in alive /\ sess[q].status # "waitKeyNonceHDest"
          /\ pc[q]["app"] = "init"
      BY <1>1, <1>5 DEF InitBegin, CanRun, Goto
    <3>2. sess[q] \in Session /\ sess \in [Peer -> Session]
      BY DEF IInv, TypeOK
    <3>3. sess[q].status = "notConnected"
      BY <3>1 DEF Untouched, OnlyInits
    <3>4. s.status = sess[q].status
      BY <3>2 DEF Session
    <3>5. sess' = [sess EXCEPT ![q] = s]
      BY <2>1, <3>2
    <3> QED
      BY <3>1, <3>3, <3>4, <3>5 DEF AppMoves
  <2> HIDE DEF s
  <2>3. /\ pc'[q]["app"] = "sendKey" /\ pc'[q]["sip"] = "idle" /\ sess'[q] = s
        /\ SameHold(p)
        /\ KeyFirst(q, p)'
    BY <2>2, OwnStep DEF Label
  <2>4. OnlyInits(q)' /\ ~NonceSent(q) /\ ~NonceSent(q)'
    BY <2>2, <2>3 DEF OnlyInits, NonceSent
  <2>5. FoundOf(q, p)' /\ HeldOff(q, p)'
    BY <2>2, <2>3, <2>4 DEF Untouched, FoundOf, HeldOff, SameHold
  <2> QED
    BY <2>3, <2>4, <2>5 DEF Untouched
<1>6. CASE InitSendKey(q, t)
  <2>1. /\ AppMoves(q, "sendNonce", sess[q])
        /\ net' = [net EXCEPT ![p] = @ \o <<KeyRecord(q)>>]
        /\ alive' = alive /\ q \in alive /\ pc[q]["app"] = "sendKey"
    BY <1>1, <1>6 DEF AppMoves, InitSendKey, CanRun, Goto, Send, IInv, TypeOK
  <2>2. net'[q] = net[q] /\ net'[p] = net[p] \o <<KeyRecord(q)>>
    BY <1>2, <2>1 DEF IInv, TypeOK
  <2>3. /\ pc'[q]["app"] = "sendNonce" /\ pc'[q]["sip"] = "idle" /\ sess'[q] = sess[q]
        /\ SameHold(p)
        /\ KeyFirst(q, p)'
    BY <2>1, <2>2, OwnStep DEF Label
  <2>4. OnlyInits(q)' /\ ~NonceSent(q) /\ ~NonceSent(q)'
    BY <2>1, <2>3 DEF Untouched, OnlyInits, NonceSent
  <2>5. KeyRecord(q) \in Message /\ KeyRecord(q).type = "handshakeKey"
    BY <1>2, GoodRecords DEF GoodMessage, KeyRecord
  <2>6. KeysOnly(net'[p]) /\ Early(net'[p])
    BY <1>2, <2>2, <2>4, <2>5, SentOne DEF Untouched, FoundOf
  <2>7. FoundOf(q, p)' /\ HeldOff(q, p)'
    BY <2>3, <2>4, <2>6 DEF Untouched, FoundOf, HeldOff, SameHold
  <2> QED
    BY <2>3, <2>4, <2>7 DEF Untouched
<1>7. CASE InitSendNonce(q, t)
  <2>1. /\ AppMoves(q, "setStatus", sess[q])
        /\ net' = [net EXCEPT ![p] = @ \o <<NonceRecord(q)>>]
        /\ alive' = alive /\ q \in alive /\ pc[q]["app"] = "sendNonce"
    BY <1>1, <1>7 DEF AppMoves, InitSendNonce, CanRun, Goto, Send, IInv, TypeOK
  <2>2. net'[q] = net[q] /\ net'[p] = net[p] \o <<NonceRecord(q)>>
    BY <1>2, <2>1 DEF IInv, TypeOK
  <2>3. /\ pc'[q]["app"] = "setStatus" /\ pc'[q]["sip"] = "idle" /\ sess'[q] = sess[q]
        /\ SameHold(p)
        /\ KeyFirst(q, p)'
    BY <2>1, <2>2, OwnStep DEF Label
  <2>4. OnlyInits(q)' /\ ~NonceSent(q) /\ NonceSent(q)'
    BY <2>1, <2>3 DEF Untouched, OnlyInits, NonceSent
  <2>5. NonceRecord(q) \in Message /\ NonceRecord(q).type = "handshakeNonce"
    BY <1>2, GoodRecords DEF GoodMessage, NonceRecord
  <2>6. Early(net'[p])
    BY <1>2, <2>2, <2>5, SentOne DEF Untouched, FoundOf
  <2>7. FoundOf(q, p)' /\ HeldOff(q, p)'
    BY <2>3, <2>4, <2>6 DEF Untouched, FoundOf, HeldOff, SameHold
  <2> QED
    BY <2>3, <2>4, <2>7 DEF Untouched
<1>8. CASE InitSetStatus(q, t)
  <2> DEFINE s == [sess[q] EXCEPT !.status = "waitKeyNonceHDest"]
  <2>1. /\ AppMoves(q, "idle", s)
        /\ net' = net /\ alive' = alive
        /\ s.status = "waitKeyNonceHDest" /\ pc[q]["app"] = "setStatus"
    BY <1>1, <1>8 DEF AppMoves, InitSetStatus, Goto, IInv, TypeOK, Session
  <2> HIDE DEF s
  <2>2. /\ pc'[q]["app"] = "idle" /\ pc'[q]["sip"] = "idle" /\ sess'[q] = s
        /\ SameHold(p)
        /\ KeyFirst(q, p)'
    BY <2>1, OwnStep DEF Label
  <2>3. OnlyInits(q)' /\ NonceSent(q)'
    BY <2>1, <2>2 DEF OnlyInits, NonceSent
  <2>4. FoundOf(q, p)' /\ HeldOff(q, p)'
    BY <2>1, <2>2, <2>3 DEF Untouched, FoundOf, HeldOff, SameHold
  <2> QED
    BY <2>2, <2>3, <2>4 DEF Untouched
<1> QED
  BY <1>3, <1>4, <1>5, <1>6, <1>7, <1>8 DEF InitStep

-----------------------------------------------------------------------------
(***************************************************************************)
(* Steps of its buddy p.                                                   *)
(***************************************************************************)
\* The next record for p is a key or a nonce, and a nonce is the last but nonces.
LEMMA Arrives ==
  ASSUME IInv, NEW q \in Peer, NEW p, p = Other(q), Untouched(q, p),
         NEW type, NEW st, Receives(p, type, st)
  PROVE  /\ p \in alive /\ pc[p]["sip"] = "idle" /\ net[p] # <<>>
         /\ net[p] \in Seq(Message) /\ Head(net[p]).type = type
         /\ sess[p].status \in st /\ sess[p].status # "connected"
         /\ type \in {"handshakeKey", "handshakeNonce"}
         /\ type = "handshakeKey" => sess[p].status # "waitKeyDest"
         /\ type = "handshakeNonce" => NonceSent(q) /\ NoKey(Tail(net[p]))
         /\ Early(Tail(net[p]))
<1>1. p \in Peer /\ net[p] \in Seq(Message)
  BY OtherPeer DEF IInv, TypeOK
<1>2. /\ p \in alive /\ pc[p]["sip"] = "idle" /\ net[p] # <<>> /\ Head(net[p]).type = type
      /\ sess[p].status \in st
  BY DEF Receives, CanRun
<1>3. /\ Early(net[p]) /\ sess[p].status # "connected"
      /\ sess[p].status = "waitKeyDest" => NoKey(net[p])
      /\ ~NonceSent(q) => KeysOnly(net[p])
  BY DEF Untouched, FoundOf, HeldOff, Is
<1> QED
  BY <1>1, <1>2, <1>3, TailOf

\* The handlers of p: those that would get it further than to expect its buddy's
\* key need what q does not send, and the first it sends to q is a key.
LEMMA StoreUntouched ==
  ASSUME IInv, NEW q \in Peer, NEW p, p = Other(q), Untouched(q, p),
         NEW type, NEW st, Receives(p, type, st),
         NEW s, NEW out \in Seq(Message), Store(p, s, out), s.status = sess[p].status,
         \A u \in Thread \ {"sip"} : pc'[p][u] = pc[p][u], pc'[q] = pc[q],
         pc'[p]["sip"] = "finish" => next'[p] # "connected",
         pc'[p]["sip"] = "finish" /\ next'[p] = "waitKeyDest" => type = "handshakeNonce",
         q \in alive /\ net[q] = <<>> => out # <<>> /\ Head(out).type = "handshakeKey"
  PROVE  Untouched(q, p)'
<1>1. p \in Peer /\ p # q /\ q = Other(p)
  BY OtherPeer
<1>2. /\ sess'[p] = s /\ sess'[q] = sess[q] /\ alive' = alive
      /\ net'[p] = Tail(net[p]) /\ net'[q] = net[q] \o out
      /\ net[q] \in Seq(Message)
  BY <1>1 DEF Store, IInv, TypeOK
<1>3. OnlyInits(q)' /\ (NonceSent(q)' <=> NonceSent(q))
  BY <1>2 DEF Untouched, OnlyInits, NonceSent
<1>4. FoundOf(q, p)'
  <2>1. Early(Tail(net[p])) /\ (KeysOnly(net[p]) => KeysOnly(Tail(net[p])))
    BY Arrives, TailOf
  <2>2. ~NonceSent(q) => pc[q]["app"] = "sendNonce"
    BY Arrives DEF Untouched, FoundOf
  <2> QED
    BY <1>2, <1>3, <2>1, <2>2 DEF Untouched, FoundOf
<1>5. HeldOff(q, p)'
  <2>1. ~Is(p, "connected")'
    BY <1>2 DEF Untouched, HeldOff, Is
  <2>2. sess[p].status = "waitKeyDest" => NonceSent(q) /\ NoKey(Tail(net[p]))
    BY Arrives, TailOf DEF Untouched, HeldOff, Is
  <2>3. type = "handshakeNonce" => NonceSent(q) /\ NoKey(Tail(net[p]))
    BY Arrives
  <2>4. Is(p, "waitKeyDest")' => sess[p].status = "waitKeyDest" \/ type = "handshakeNonce"
    BY <1>2 DEF Is
  <2> QED
    BY <1>2, <1>3, <2>1, <2>2, <2>3, <2>4 DEF HeldOff
<1>6. KeyFirst(q, p)'
  <2>1. /\ net[q] # <<>> => net'[q] # <<>> /\ Head(net'[q]) = Head(net[q])
        /\ net[q] = <<>> => net'[q] = out
    BY <1>2, ConcatOf
  <2> QED
    BY <1>2, <2>1 DEF Untouched, KeyFirst
<1> QED
  BY <1>3, <1>4, <1>5, <1>6 DEF Untouched

\* Before p sent q anything, it can only receive its first key.
LEMMA FirstAnswer ==
  ASSUME IInv, KeylessInv, NEW q \in Peer, NEW p, p = Other(q), Untouched(q, p),
         NEW type, NEW st, Receives(p, type, st), q \in alive, net[q] = <<>>
  PROVE  type = "handshakeKey" /\ sess[p].status = "notConnected"
<1>1. p \in Peer /\ q = Other(p)
  BY OtherPeer
<1>2. p \in alive /\ net[p] # <<>> /\ Head(net[p]).type = type
  BY Arrives
<1>3. Keyless(p) /\ sess[p].status = "notConnected"
  BY <1>2 DEF Untouched, KeyFirst
<1>4. Head(net[p]).type = "handshakeKey"
  BY <1>1, <1>2, <1>3 DEF KeylessInv, Untouched, KeyFirst
<1> QED
  BY <1>2, <1>3, <1>4

\* The records of p are records.
LEMMA Records ==
  ASSUME IInv, NEW p \in Peer
  PROVE  /\ KeyRecord(p) \in Message /\ Alert \in Message
         /\ <<KeyRecord(p)>> # <<>> /\ Head(<<KeyRecord(p)>>).type = "handshakeKey"
         /\ \A s \in Session : s.localNonce \in DrawnNonce => NonceHRecord(s) \in Message
<1>1. \A m \in GoodMessage[Other(p)] : m \in Message
  BY OtherPeer DEF GoodMessage
<1> QED
  BY <1>1, GoodRecords DEF KeyRecord

\* A handler that goes on to assign a status,
LEMMA StoreThenUntouched ==
  ASSUME IInv, KeylessInv, NEW q \in Peer, NEW p, p = Other(q), Untouched(q, p),
         NEW type, NEW st, Receives(p, type, st),
         NEW s, NEW out \in Seq(Message), NEW to, StoreThen(p, s, out, to),
         s.status = sess[p].status, to # "connected",
         to = "waitKeyDest" => type = "handshakeNonce",
         type = "handshakeKey" /\ sess[p].status = "notConnected" =>
           out # <<>> /\ Head(out).type = "handshakeKey"
  PROVE  Untouched(q, p)'
<1>1. p \in Peer /\ p # q
  BY OtherPeer
<1>2. /\ Store(p, s, out) /\ pc'[p]["sip"] = "finish" /\ next'[p] = to
      /\ \A u \in Thread \ {"sip"} : pc'[p][u] = pc[p][u] /\ pc'[q] = pc[q]
  BY <1>1 DEF StoreThen, StoreAndGoOn, Goto, IInv, TypeOK, Thread
<1>3. pc'[q] = pc[q]
  BY <1>1 DEF StoreThen, StoreAndGoOn, Goto, IInv, TypeOK
<1>4. q \in alive /\ net[q] = <<>> => out # <<>> /\ Head(out).type = "handshakeKey"
  BY FirstAnswer
<1> QED
  BY <1>2, <1>3, <1>4, StoreUntouched

\* and one that does not.
LEMMA StoreOnlyUntouched ==
  ASSUME IInv, KeylessInv, NEW q \in Peer, NEW p, p = Other(q), Untouched(q, p),
         NEW type, NEW st, Receives(p, type, st), sess[p].status # "notConnected",
         StoreOnly(p, sess[p], <<>>)
  PROVE  Untouched(q, p)'
<1> DEFINE s == sess[p]
<1>1. s.status = sess[p].status /\ Store(p, s, <<>>) /\ pc' = pc /\ <<>> \in Seq(Message)
  BY EmptySeq DEF StoreOnly
<1>2. pc[p]["sip"] = "idle"
  BY Arrives
<1>3. ~(q \in alive /\ net[q] = <<>>)
  BY FirstAnswer
<1> HIDE DEF s
<1> QED
  BY <1>1, <1>2, <1>3, StoreUntouched

\* A buddy that dies keeps what it was, and sends nothing more.
LEMMA BuddyDies ==
  ASSUME IInv, NEW q \in Peer, NEW p, p = Other(q), Untouched(q, p), Die(p)
  PROVE  Untouched(q, p)'
<1>1. p \in Peer /\ p # q /\ q = Other(p)
  BY OtherPeer
<1>2. /\ p \notin alive' /\ (q \in alive' <=> q \in alive) /\ sess' = sess /\ next' = next
      /\ net'[q] = <<>> /\ net'[p] = net[p] /\ pc'[q] = pc[q] /\ pc'[p] = IdleThreads
  BY <1>1 DEF Die, IInv, TypeOK
<1>3. OnlyInits(q)' /\ (NonceSent(q)' <=> NonceSent(q))
  BY <1>2 DEF Untouched, OnlyInits, NonceSent
<1>4. \A to : Is(p, to)' => Is(p, to)
  BY <1>2 DEF Is, IdleThreads, Thread
<1>5. FoundOf(q, p)'
  BY <1>2, <1>3 DEF Untouched, FoundOf
<1>6. HeldOff(q, p)'
  BY <1>2, <1>3, <1>4 DEF Untouched, HeldOff
<1>7. KeyFirst(q, p)'
  BY <1>2 DEF KeyFirst
<1> QED
  BY <1>3, <1>5, <1>6, <1>7 DEF Untouched

\* The keys that come before q's nonce, and the nonces.
LEMMA BuddyHandles ==
  ASSUME IInv, KeylessInv, NEW q \in Peer, NEW p, p = Other(q), Untouched(q, p), Handle(p)
  PROVE  Untouched(q, p)'
<1>1. p \in Peer /\ p # q /\ sess[p] \in Session /\ sess[p].localNonce \in DrawnNonce
  BY OtherPeer DEF IInv, TypeOK, GoodSession
<1>2. <<>> \in Seq(Message) /\ <<Alert>> \in Seq(Message) /\ <<KeyRecord(p)>> \in Seq(Message)
      /\ <<KeyRecord(p)>> # <<>> /\ Head(<<KeyRecord(p)>>).type = "handshakeKey"
  BY <1>1, Records, EmptySeq
<1>3. ASSUME NEW type, NEW st, Receives(p, type, st)
      PROVE  /\ type \in {"handshakeKey", "handshakeNonce"}
             /\ sess[p].status \in st /\ sess[p].status # "connected"
             /\ type = "handshakeKey" => sess[p].status # "waitKeyDest"
  BY <1>3, Arrives
<1>4. ASSUME NEW key PROVE /\ [sess[p] EXCEPT !.remoteKey = key].status = sess[p].status
                           /\ WithSessionKey(p, [sess[p] EXCEPT !.remoteKey = key]).status
                                = sess[p].status
  BY <1>1 DEF WithSessionKey, Session
<1>5. CASE KeyNotConnected(p)
  <2> DEFINE s == WithSessionKey(p, [sess[p] EXCEPT !.remoteKey = Head(net[p]).key])
  <2>1. /\ Receives(p, "handshakeKey", {"notConnected"}) /\ s.status = sess[p].status
        /\ StoreThen(p, s, <<KeyRecord(p)>>, "waitNonceInit")
    BY <1>4, <1>5 DEF KeyNotConnected
  <2> HIDE DEF s
  <2> QED
    BY <1>2, <2>1, StoreThenUntouched
<1>6. CASE KeyWaitKeyNonceHDest(p)
  <2> DEFINE s == WithSessionKey(p, [sess[p] EXCEPT !.remoteKey = Head(net[p]).key])
             out == <<>>
  <2>1. /\ Receives(p, "handshakeKey", {"waitKeyNonceHDest"}) /\ s.status = sess[p].status
        /\ StoreThen(p, s, out, "waitNonceHDest")
    BY <1>4, <1>6 DEF KeyWaitKeyNonceHDest
  <2>2. sess[p].status # "notConnected"
    BY <1>3, <2>1
  <2>3. out \in Seq(Message)
    BY <1>2
  <2> HIDE DEF s, out
  <2> QED
    BY <2>1, <2>2, <2>3, StoreThenUntouched
<1>7. ~KeyWaitKeyDest(p) /\ ~KeyConnected(p) /\ ~NonceConnected(p)
  BY <1>3 DEF KeyWaitKeyDest, KeyConnected, NonceConnected
<1>8. CASE KeyIgnored(p)
  <2> DEFINE st == {"waitNonceHDest", "waitNonceInit", "waitKeyInit", "waitNonce2HInit"}
  <2>1. Receives(p, "handshakeKey", st) /\ StoreOnly(p, sess[p], <<>>)
    BY <1>8 DEF KeyIgnored
  <2>2. sess[p].status # "notConnected"
    BY <1>3, <2>1
  <2> HIDE DEF st
  <2> QED
    BY <2>1, <2>2, StoreOnlyUntouched
<1>9. CASE NonceWaitNonceInit(p)
  <2> DEFINE s == [sess[p] EXCEPT !.remoteNonce = Head(net[p]).nonce]
             out == <<NonceHRecord(s)>>
  <2>1. /\ Receives(p, "handshakeNonce", {"waitNonceInit"})
        /\ StoreThen(p, s, out, "waitNonce2HInit")
    BY <1>9 DEF NonceWaitNonceInit
  <2>2. s \in Session /\ s.localNonce = sess[p].localNonce /\ s.status = sess[p].status
    BY <1>1, <2>1, NonceStored DEF Session
  <2> HIDE DEF s
  <2>3. out \in Seq(Message)
    BY <1>1, <2>2, Records
  <2> HIDE DEF out
  <2> QED
    BY <2>1, <2>2, <2>3, StoreThenUntouched
<1>10. CASE NonceWaitKeyNonceHDest(p)
  <2> DEFINE s == [sess[p] EXCEPT !.remoteNonce = Head(net[p]).nonce]
  <2>1. CASE StoreThen(p, s, <<>>, "waitKeyDest")
    <3>1. Receives(p, "handshakeNonce", {"waitKeyNonceHDest"}) /\ s.status = sess[p].status
      BY <1>1, <1>10 DEF NonceWaitKeyNonceHDest, Session
    <3> HIDE DEF s
    <3> QED
      BY <1>2, <2>1, <3>1, StoreThenUntouched
  <2>2. CASE Die(p)
    BY <2>2, BuddyDies
  <2> QED
    BY <1>10, <2>1, <2>2 DEF NonceWaitKeyNonceHDest
<1>11. CASE NonceRefused(p)
  <2> DEFINE st == {"notConnected", "waitNonceHDest", "waitKeyDest", "waitKeyInit",
                    "waitNonce2HInit"}
             s == sess[p]
  <2>1. /\ Receives(p, "handshakeNonce", st) /\ s.status = sess[p].status
        /\ StoreThen(p, s, <<Alert>>, "notConnected")
    BY <1>11 DEF NonceRefused
  <2> HIDE DEF st, s
  <2> QED
    BY <1>2, <2>1, StoreThenUntouched
<1>12. ~HandleNonceH(p) /\ ~AlertReceived(p)
  BY <1>3 DEF HandleNonceH, NonceHWaitKeyNonceHDest, NonceHWaitNonceHDest,
              NonceHWaitNonce2HInit, NonceHIgnored, AlertReceived
<1>13. CASE HandlerFinish(p)
  <2>1. /\ pc[p]["sip"] = "finish" /\ alive' = alive /\ next' = next /\ net' = net
        /\ pc'[p]["sip"] = "idle" /\ sess'[p].status = next[p]
        /\ pc'[q] = pc[q] /\ sess'[q] = sess[q] /\ p \in alive
    BY <1>1, <1>13 DEF HandlerFinish, CanRun, Goto, IInv, TypeOK, Thread, Session
  <2>2. OnlyInits(q)' /\ (NonceSent(q)' <=> NonceSent(q))
    BY <2>1 DEF Untouched, OnlyInits, NonceSent
  <2>3. \A to : Is(p, to)' => Is(p, to)
    BY <2>1 DEF Is
  <2>4. FoundOf(q, p)'
    BY <2>1, <2>2 DEF Untouched, FoundOf
  <2>5. HeldOff(q, p)'
    BY <2>1, <2>2, <2>3 DEF Untouched, HeldOff
  <2>6. q \in alive => net[q] # <<>>
    <3> SUFFICES ASSUME q \in alive, net[q] = <<>> PROVE FALSE
      OBVIOUS
    <3>1. Keyless(p)
      BY <2>1 DEF Untouched, KeyFirst
    <3>2. pc[p]["sip"] = "idle"
      BY <1>1, <3>1 DEF KeylessInv, Untouched, OnlyInits
    <3> QED
      BY <2>1, <3>2
  <2>7. KeyFirst(q, p)'
    BY <2>1, <2>6 DEF Untouched, KeyFirst
  <2> QED
    BY <2>2, <2>4, <2>5, <2>7 DEF Untouched
<1> QED
  BY <1>5, <1>6, <1>7, <1>8, <1>9, <1>10, <1>11, <1>12, <1>13
     DEF Handle, HandleKey, HandleNonce

\* As long as p has sent q nothing, it is not past the key of initSession.
LEMMA NothingSent ==
  ASSUME IInv, KeylessInv, NEW q \in Peer, NEW p, p = Other(q), Untouched(q, p),
         NEW t \in Thread, p \in alive, q \in alive, net[q] = <<>>
  PROVE  sess[p].status = "notConnected" /\ pc[p][t] \in {"idle", "init", "sendKey"}
<1>1. p \in Peer
  BY OtherPeer
<1>2. /\ Keyless(p) /\ sess[p].status = "notConnected"
      /\ pc[p]["app"] \in {"idle", "init", "sendKey"}
  BY DEF Untouched, KeyFirst
<1>3. pc[p]["sip"] = "idle"
  BY <1>1, <1>2 DEF KeylessInv, Untouched, OnlyInits
<1> QED
  BY <1>2, <1>3 DEF Thread

\* Thread t of p goes to label, the session of p becomes s and out is sent.
BuddyMoves(p, t, label, s, out) ==
  /\ pc' = [pc EXCEPT ![p][t] = label] /\ sess' = [sess EXCEPT ![p] = s]
  /\ net' = [net EXCEPT ![Other(p)] = @ \o out]
  /\ alive' = alive /\ next' = next

\* A step of initSession in which the first that p sends is a key.
LEMMA BuddyStep ==
  ASSUME IInv, KeylessInv, NEW q \in Peer, NEW p, p = Other(q), Untouched(q, p),
         p \in alive, NEW t \in Thread, NEW label \in Label \ {"finish"},
         NEW s, NEW out \in Seq(Message), BuddyMoves(p, t, label, s, out),
         s.sessionKey = sess[p].sessionKey,
         s.status \in {sess[p].status, "waitKeyNonceHDest"},
         q \in alive /\ net[q] = <<>> =>
           \/ out # <<>> /\ Head(out).type = "handshakeKey"
           \/ out = <<>> /\ s.status = "notConnected" /\ label \in {"idle", "init", "sendKey"}
  PROVE  Untouched(q, p)'
<1>1. p \in Peer /\ p # q /\ q = Other(p)
  BY OtherPeer
<1>2. /\ sess'[p] = s /\ sess'[q] = sess[q] /\ alive' = alive /\ next' = next
      /\ net'[p] = net[p] /\ net'[q] = net[q] \o out /\ net[q] \in Seq(Message)
      /\ pc'[q] = pc[q]
  BY <1>1 DEF BuddyMoves, IInv, TypeOK
<1>3. pc'[p]["sip"] = "finish" => pc[p]["sip"] = "finish"
  BY <1>1 DEF BuddyMoves, IInv, TypeOK, Thread
<1>4. pc'[p]["app"] \in {pc[p]["app"], label}
  BY <1>1 DEF BuddyMoves, IInv, TypeOK, Thread
<1>5. OnlyInits(q)' /\ (NonceSent(q)' <=> NonceSent(q))
  BY <1>2 DEF Untouched, OnlyInits, NonceSent
<1>6. FoundOf(q, p)'
  BY <1>2, <1>5 DEF Untouched, FoundOf
<1>7. HeldOff(q, p)'
  <2>1. \A st \in {"connected", "waitKeyDest"} : Is(p, st)' => Is(p, st)
    BY <1>2, <1>3 DEF Is
  <2> QED
    BY <1>2, <1>5, <2>1 DEF Untouched, HeldOff
<1>8. KeyFirst(q, p)'
  <2>1. /\ net[q] # <<>> => net'[q] # <<>> /\ Head(net'[q]) = Head(net[q])
        /\ net[q] = <<>> => net'[q] = out
    BY <1>2, ConcatOf
  <2>2. CASE net[q] # <<>> \/ q \notin alive
    BY <1>2, <2>1, <2>2 DEF Untouched, KeyFirst
  <2>3. CASE net[q] = <<>> /\ q \in alive
    <3>1. Keyless(p) /\ pc[p]["app"] \in {"idle", "init", "sendKey"}
      BY <2>3 DEF Untouched, KeyFirst
    <3> QED
      BY <1>2, <1>4, <2>1, <2>3, <3>1 DEF KeyFirst, Keyless
  <2> QED
    BY <2>2, <2>3
<1> QED
  BY <1>5, <1>6, <1>7, <1>8 DEF Untouched

\* The steps of initSession at p.
LEMMA BuddyInits ==
  ASSUME IInv, KeylessInv, NEW q \in Peer, NEW p, p = Other(q), Untouched(q, p),
         NEW t \in Thread, InitStep(p, t)
  PROVE  Untouched(q, p)'
<1>1. /\ p \in Peer /\ p # q /\ q = Other(p)
      /\ sess[p] \in Session /\ sess \in [Peer -> Session] /\ net \in [Peer -> Seq(Message)]
  BY OtherPeer DEF IInv, TypeOK
<1>2. p \in alive
  BY DEF InitStep, InitWithoutSession, InitSuppressed, InitBegin, InitSendKey, InitSendNonce,
         InitSetStatus, CanRun
<1>3. CASE InitWithoutSession(p, t)
  BY <1>3, BuddyDies DEF InitWithoutSession
<1>4. CASE InitSuppressed(p, t)
  <2> DEFINE s == [sess[p] EXCEPT !.iAmSessionInitiator = TRUE]
             out == <<>>
  <2>1. BuddyMoves(p, t, "idle", s, out) /\ out \in Seq(Message)
    <3>1. \A x \in Seq(Message) : x \o <<>> = x
      BY ConcatEmptySeq
    <3> QED
      BY <1>1, <1>4, <3>1, EmptySeq DEF BuddyMoves, InitSuppressed, Goto
  <2>2. s.status = sess[p].status /\ s.sessionKey = sess[p].sessionKey
        /\ sess[p].status = "waitKeyNonceHDest"
    BY <1>1, <1>4 DEF InitSuppressed, Session
  <2>3. ~(q \in alive /\ net[q] = <<>>)
    BY <1>2, <2>2, NothingSent
  <2> HIDE DEF s, out
  <2> QED
    BY <1>2, <2>1, <2>2, <2>3, BuddyStep DEF Label
<1>5. CASE InitBegin(p, t)
  <2>1. PICK i \in NonceId : sess' = [sess EXCEPT ![p].iAmSessionInitiator = TRUE,
                                                  ![p].localNonce = <<p, "nonce", i>>]
    BY <1>5 DEF InitBegin
  <2> DEFINE s == [sess[p] EXCEPT !.iAmSessionInitiator = TRUE,
                                  !.localNonce = <<p, "nonce", i>>]
             out == <<>>
  <2>2. BuddyMoves(p, t, "sendKey", s, out) /\ out \in Seq(Message)
    <3>1. \A x \in Seq(Message) : x \o <<>> = x
      BY ConcatEmptySeq
    <3>2. sess' = [sess EXCEPT ![p] = s]
      BY <1>1, <2>1
    <3> HIDE DEF s
    <3>3. net' = [net EXCEPT ![q] = @ \o <<>>]
      BY <1>1, <1>5, <3>1 DEF InitBegin
    <3> QED
      BY <1>1, <1>5, <3>2, <3>3, EmptySeq DEF BuddyMoves, InitBegin, Goto
  <2>3. s.status = sess[p].status /\ s.sessionKey = sess[p].sessionKey
    BY <1>1 DEF Session
  <2>4. q \in alive /\ net[q] = <<>> => sess[p].status = "notConnected"
    BY <1>2, NothingSent
  <2>5. out = <<>>
    OBVIOUS
  <2> HIDE DEF s, out
  <2> QED
    BY <1>2, <2>2, <2>3, <2>4, <2>5, BuddyStep DEF Label
<1>6. CASE InitSendKey(p, t)
  <2> DEFINE s == sess[p]
             out == <<KeyRecord(p)>>
  <2>1. BuddyMoves(p, t, "sendNonce", s, out)
    BY <1>1, <1>6 DEF BuddyMoves, InitSendKey, Goto, Send
  <2>2. out \in Seq(Message) /\ out # <<>> /\ Head(out).type = "handshakeKey"
    BY <1>1, Records
  <2>3. s.status = sess[p].status /\ s.sessionKey = sess[p].sessionKey
    OBVIOUS
  <2> HIDE DEF s, out
  <2> QED
    BY <1>2, <2>1, <2>2, <2>3, BuddyStep DEF Label
<1>7. CASE InitSendNonce(p, t)
  <2> DEFINE s == sess[p]
             out == <<NonceRecord(p)>>
  <2>1. BuddyMoves(p, t, "setStatus", s, out) /\ pc[p][t] = "sendNonce"
    BY <1>1, <1>7 DEF BuddyMoves, InitSendNonce, Goto, Send
  <2>2. out \in Seq(Message)
    <3>1. NonceRecord(p) \in Message
      BY <1>1, GoodRecords, OtherPeer DEF GoodMessage
    <3> QED
      BY <3>1
  <2>3. s.status = sess[p].status /\ s.sessionKey = sess[p].sessionKey
    OBVIOUS
  <2>4. ~(q \in alive /\ net[q] = <<>>)
    BY <1>2, <2>1, NothingSent
  <2> HIDE DEF s, out
  <2> QED
    BY <1>2, <2>1, <2>2, <2>3, <2>4, BuddyStep DEF Label
<1>8. CASE InitSetStatus(p, t)
  <2> DEFINE s == [sess[p] EXCEPT !.status = "waitKeyNonceHDest"]
             out == <<>>
  <2>1. BuddyMoves(p, t, "idle", s, out) /\ out \in Seq(Message) /\ pc[p][t] = "setStatus"
    <3>1. \A x \in Seq(Message) : x \o <<>> = x
      BY ConcatEmptySeq
    <3> QED
      BY <1>1, <1>8, <3>1, EmptySeq DEF BuddyMoves, InitSetStatus, Goto
  <2>2. s.status = "waitKeyNonceHDest" /\ s.sessionKey = sess[p].sessionKey
    BY <1>1 DEF Session
  <2>3. ~(q \in alive /\ net[q] = <<>>)
    BY <1>2, <2>1, NothingSent
  <2> HIDE DEF s, out
  <2> QED
    BY <1>2, <2>1, <2>2, <2>3, BuddyStep DEF Label
<1> QED
  BY <1>3, <1>4, <1>5, <1>6, <1>7, <1>8 DEF InitStep

\* The application of p calls initSession.
LEMMA BuddyCalls ==
  ASSUME IInv, KeylessInv, NEW q \in Peer, NEW p, p = Other(q), Untouched(q, p),
         AppCallsInitSession(p)
  PROVE  Untouched(q, p)'
<1> DEFINE s == sess[p]
           out == <<>>
           t == "app"
<1>1. /\ p \in Peer /\ q = Other(p) /\ p \in alive
      /\ sess \in [Peer -> Session] /\ net \in [Peer -> Seq(Message)]
  BY OtherPeer DEF IInv, TypeOK, AppCallsInitSession, CanRun
<1>2. BuddyMoves(p, t, "init", s, out) /\ out \in Seq(Message)
  <2>1. \A x \in Seq(Message) : x \o <<>> = x
    BY ConcatEmptySeq
  <2> QED
    BY <1>1, <2>1, EmptySeq DEF BuddyMoves, AppCallsInitSession, Goto
<1>3. /\ s.status = sess[p].status /\ s.sessionKey = sess[p].sessionKey /\ out = <<>>
      /\ t \in Thread
  BY DEF Thread
<1>4. q \in alive /\ net[q] = <<>> => sess[p].status = "notConnected"
  BY DEF Untouched, KeyFirst, AppCallsInitSession, CanRun
<1> HIDE DEF s, out, t
<1> QED
  BY <1>1, <1>2, <1>3, <1>4, BuddyStep DEF Label

-----------------------------------------------------------------------------
(***************************************************************************)
(* The network, and the theorem.                                           *)
(***************************************************************************)
\* Nothing is lost on the way to a process that runs.
LEMMA EnvironmentUntouched ==
  ASSUME NothingLost, IInv, NEW q \in Peer, NEW p, p = Other(q), Untouched(q, p),
         NEW r \in Peer, Environment(r)
  PROVE  Untouched(q, p)'
<1>1. /\ p \in Peer /\ p # q /\ q = Other(p) /\ (r = p \/ r = q)
      /\ net \in [Peer -> Seq(Message)] /\ losses \in Nat /\ restarts \in Nat
  BY OtherPeer DEF IInv, TypeOK, Peer, Other
<1>2. ~Crash(r) /\ ~Restart(r)
  BY <1>1 DEF NothingLost, Crash, Restart
<1>3. /\ sess' = sess /\ alive' = alive /\ pc' = pc /\ next' = next
      /\ net[r] # <<>> /\ \A u \in Peer \ {r} : net'[u] = net[u]
      /\ \/ r \notin alive /\ net'[r] = Tail(net[r])
         \/ r \in alive /\ net'[r] = <<Head(net[r])>> \o net[r]
  <2>1. CASE Lose(r)
    <3>1. r \notin alive
      BY <1>1, <2>1 DEF NothingLost, Lose
    <3> QED
      BY <1>1, <2>1, <3>1 DEF Lose
  <2>2. CASE Duplicate(r)
    BY <1>1, <2>2 DEF Duplicate
  <2> QED
    BY <1>2, <2>1, <2>2 DEF Environment
<1>4. OnlyInits(q)' /\ (NonceSent(q)' <=> NonceSent(q))
  BY <1>3 DEF Untouched, OnlyInits, NonceSent
<1>5. \A st : Is(p, st)' <=> Is(p, st)
  BY <1>3 DEF Is
<1>6. /\ Early(net[p]) => Early(net'[p])
      /\ KeysOnly(net[p]) => KeysOnly(net'[p])
      /\ NoKey(net[p]) => NoKey(net'[p])
      /\ net[p] = <<>> => net'[p] = <<>>
  <2>1. CASE r = q
    BY <1>1, <1>3, <2>1
  <2>2. CASE r = p /\ net'[p] = Tail(net[p])
    <3>1. net[p] \in Seq(Message) /\ net[p] # <<>>
      BY <1>1, <1>3, <2>2
    <3> QED
      BY <2>2, <3>1, TailOf
  <2>3. CASE r = p /\ net'[p] = <<Head(net[p])>> \o net[p]
    BY <1>1, <1>3, <2>3, TwiceOf
  <2>4. r = q \/ (r = p /\ net'[p] = Tail(net[p]))
              \/ (r = p /\ net'[p] = <<Head(net[p])>> \o net[p])
    BY <1>1, <1>3
  <2> QED
    BY <2>1, <2>2, <2>3, <2>4
<1>7. q \in alive => (net[q] = <<>> <=> net'[q] = <<>>)
                     /\ (net[q] # <<>> => Head(net'[q]) = Head(net[q]))
  <2>1. CASE r = p
    BY <1>1, <1>3, <2>1
  <2>2. CASE r = q /\ q \in alive
    BY <1>1, <1>3, <2>2, TwiceOf
  <2> QED
    BY <1>1, <2>1, <2>2
<1>8. FoundOf(q, p)'
  BY <1>3, <1>4, <1>6 DEF Untouched, FoundOf
<1>9. HeldOff(q, p)'
  BY <1>4, <1>5, <1>6 DEF Untouched, HeldOff
<1>10. KeyFirst(q, p)'
  BY <1>3, <1>7 DEF Untouched, KeyFirst, Keyless
<1> QED
  BY <1>4, <1>8, <1>9, <1>10 DEF Untouched

\* Who has a session key goes on to have one.
KeepsKeys == \A u \in Peer : Keyless(u)' => Keyless(u)

\* Only a new process starts without the session key of the old one.
LEMMA HandleKeepsKeys ==
  ASSUME IInv, NEW r \in Peer, Handle(r)
  PROVE  KeepsKeys
<1>1. sess \in [Peer -> Session]
  BY DEF IInv, TypeOK
<1>2. Die(r) => KeepsKeys
  BY DEF Die, KeepsKeys, Keyless
<1> DEFINE Stores(s) == sess' = [sess EXCEPT ![r] = s]
<1>3. \A s, out : Verdict(r, s, out) => Stores(s)
  BY DEF Verdict, Refuse, StoreThen, StoreAndGoOn, Store
<1>4. CASE HandleKey(r)
  <2>1. CASE KeyNotConnected(r)
    BY <1>1, <2>1
       DEF KeyNotConnected, WithSessionKey, StoreThen, StoreAndGoOn, Store, Session, KeepsKeys, Keyless
  <2>2. CASE KeyWaitKeyNonceHDest(r)
    BY <1>1, <2>2
       DEF KeyWaitKeyNonceHDest, WithSessionKey, StoreThen, StoreAndGoOn, Store, Session, KeepsKeys, Keyless
  <2>3. CASE KeyWaitKeyDest(r)
    <3> DEFINE s == WithSessionKey(r, [sess[r] EXCEPT !.remoteKey = Head(net[r]).key])
    <3>1. Keyless(r) \/ s.sessionKey # {}
      BY <1>1 DEF WithSessionKey, Session, Keyless
    <3>2. Stores(s)
      BY <1>3, <2>3 DEF KeyWaitKeyDest
    <3> HIDE DEF s
    <3> QED
      BY <1>1, <3>1, <3>2 DEF KeepsKeys, Keyless
  <2>4. CASE KeyConnected(r)
    BY <1>1, <1>2, <2>4
       DEF KeyConnected, WithSessionKey, StoreThen, StoreAndGoOn, Store, Session, KeepsKeys, Keyless
  <2>5. CASE KeyIgnored(r)
    BY <1>1, <2>5
       DEF KeyIgnored, StoreOnly, Store, Session, KeepsKeys, Keyless
  <2> QED
    BY <1>4, <2>1, <2>2, <2>3, <2>4, <2>5 DEF HandleKey
<1>5. CASE HandleNonce(r)
  <2>1. CASE NonceWaitNonceInit(r)
    BY <1>1, <2>1 DEF NonceWaitNonceInit, StoreThen, StoreAndGoOn, Store, Session, KeepsKeys, Keyless
  <2>2. CASE NonceWaitKeyNonceHDest(r)
    BY <1>1, <1>2, <2>2
       DEF NonceWaitKeyNonceHDest, StoreThen, StoreAndGoOn, Store, Session, KeepsKeys, Keyless
  <2>3. CASE NonceConnected(r)
    BY <1>1, <2>3 DEF NonceConnected, StoreThen, StoreAndGoOn, Store, Session, KeepsKeys, Keyless
  <2>4. CASE NonceRefused(r)
    BY <1>1, <2>4 DEF NonceRefused, StoreThen, StoreAndGoOn, Store, Session, KeepsKeys, Keyless
  <2> QED
    BY <1>5, <2>1, <2>2, <2>3, <2>4 DEF HandleNonce
<1>6. CASE HandleNonceH(r)
  <2>1. CASE NonceHWaitKeyNonceHDest(r)
    BY <1>1, <2>1
       DEF NonceHWaitKeyNonceHDest, WithNonceH, StoreOnly, Store, Session, KeepsKeys, Keyless
  <2>2. CASE NonceHWaitNonceHDest(r)
    <3> DEFINE s == [WithNonceH(r) EXCEPT !.remoteNonce = Head(net[r]).nonce]
    <3>1. Keyless(r) \/ s.sessionKey # {}
      BY <1>1 DEF WithNonceH, Session, Keyless
    <3>2. Stores(s)
      BY <1>3, <2>2 DEF NonceHWaitNonceHDest
    <3> HIDE DEF s
    <3> QED
      BY <1>1, <3>1, <3>2 DEF KeepsKeys, Keyless
  <2>3. CASE NonceHWaitNonce2HInit(r)
    <3> DEFINE s == [WithNonceH(r) EXCEPT !.remoteNonce = Head(net[r]).nonce]
    <3>1. Keyless(r) \/ s.sessionKey # {}
      BY <1>1 DEF WithNonceH, Session, Keyless
    <3>2. Stores(s)
      BY <1>3, <2>3 DEF NonceHWaitNonce2HInit
    <3> HIDE DEF s
    <3> QED
      BY <1>1, <3>1, <3>2 DEF KeepsKeys, Keyless
  <2>4. CASE NonceHIgnored(r)
    BY <1>1, <2>4
       DEF NonceHIgnored, WithNonceH, StoreOnly, Store, Session, KeepsKeys, Keyless
  <2> QED
    BY <1>6, <2>1, <2>2, <2>3, <2>4 DEF HandleNonceH
<1>7. CASE AlertReceived(r)
  BY <1>1, <1>7 DEF AlertReceived, Store, Session, KeepsKeys, Keyless
<1>8. CASE HandlerFinish(r)
  BY <1>1, <1>8 DEF HandlerFinish, Session, KeepsKeys, Keyless
<1> QED
  BY <1>4, <1>5, <1>6, <1>7, <1>8 DEF Handle

\* The same for every step.
LEMMA KeysStay ==
  ASSUME NothingLost, IInv, [Next]_vars, NEW q \in Peer, Keyless(q)'
  PROVE  Keyless(q)
<1>1. sess \in [Peer -> Session] /\ restarts \in Nat
  BY DEF IInv, TypeOK
<1>2. KeepsKeys => Keyless(q)
  BY DEF KeepsKeys
<1>3. CASE UNCHANGED vars
  BY <1>3 DEF vars, Keyless
<1>4. ASSUME NEW r \in Peer, Handle(r) PROVE Keyless(q)
  BY <1>2, <1>4, HandleKeepsKeys
<1>5. ASSUME NEW r \in Peer, AppCallsInitSession(r) PROVE Keyless(q)
  BY <1>5 DEF AppCallsInitSession, Keyless
<1>6. ASSUME NEW r \in Peer, Environment(r) PROVE Keyless(q)
  BY <1>1, <1>6 DEF NothingLost, Environment, Lose, Duplicate, Crash, Restart, Keyless
<1>7. ASSUME NEW r \in Peer, NEW t \in Thread, InitStep(r, t) PROVE Keyless(q)
  <2>1. CASE InitWithoutSession(r, t) \/ InitSendKey(r, t) \/ InitSendNonce(r, t)
    BY <2>1 DEF InitWithoutSession, InitSendKey, InitSendNonce, Die, Keyless
  <2>2. CASE InitSuppressed(r, t)
    BY <1>1, <2>2 DEF InitSuppressed, Keyless, Session
  <2>3. CASE InitBegin(r, t)
    <3>1. PICK i \in NonceId : sess' = [sess EXCEPT ![r].iAmSessionInitiator = TRUE,
                                                    ![r].localNonce = <<r, "nonce", i>>]
      BY <2>3 DEF InitBegin
    <3> QED
      BY <1>1, <3>1 DEF Keyless, Session
  <2>4. CASE InitSetStatus(r, t)
    BY <1>1, <2>4 DEF InitSetStatus, Keyless, Session
  <2> QED
    BY <1>7, <2>1, <2>2, <2>3, <2>4 DEF InitStep
<1> QED
  BY <1>3, <1>4, <1>5, <1>6, <1>7 DEF Next

\* At first no one has sent or received anything.
LEMMA InitKeyless == Init => KeylessInv
<1> SUFFICES ASSUME Init, NEW q \in Peer PROVE Untouched(q, Other(q))
  BY DEF KeylessInv
<1>1. Other(q) \in Peer
  BY OtherPeer
<1>2. \A r \in Peer : /\ sess[r].status = "notConnected" /\ sess[r].sessionKey = {}
                      /\ pc[r] = IdleThreads /\ net[r] = <<>>
  BY DEF Init, NewSession
<1>3. pc[q]["app"] = "idle" /\ pc[q]["sip"] = "idle"
      /\ pc[Other(q)]["app"] = "idle" /\ pc[Other(q)]["sip"] = "idle"
  BY <1>1, <1>2 DEF IdleThreads, Thread
<1>4. OnlyInits(q) /\ HeldOff(q, Other(q))
  BY <1>1, <1>2, <1>3 DEF OnlyInits, HeldOff, Is
<1>5. FoundOf(q, Other(q))
  BY <1>1, <1>2, EmptyQueue DEF FoundOf
<1>6. KeyFirst(q, Other(q))
  BY <1>1, <1>2, <1>3 DEF KeyFirst, Keyless
<1> QED
  BY <1>4, <1>5, <1>6 DEF Untouched

\* Every step keeps the invariant.
LEMMA NextKeyless ==
  ASSUME NothingLost, IInv, KeylessInv, [Next]_vars
  PROVE  KeylessInv'
<1> SUFFICES ASSUME NEW q \in Peer, NEW p \in Peer, p = Other(q), Keyless(q)'
             PROVE  Untouched(q, p)'
  BY OtherPeer DEF KeylessInv
<1>1. Keyless(q) /\ \A r \in Peer : r = q \/ r = p
  BY KeysStay DEF Peer, Other
<1>2. Untouched(q, p)
  BY <1>1 DEF KeylessInv
<1>3. CASE UNCHANGED vars
  BY <1>2, <1>3 DEF vars, Untouched, OnlyInits, FoundOf, HeldOff, KeyFirst, Is, NonceSent,
                    Keyless
<1>4. ASSUME NEW r \in Peer, AppCallsInitSession(r) PROVE Untouched(q, p)'
  BY <1>1, <1>2, <1>4, CallUntouched, BuddyCalls
<1>5. ASSUME NEW r \in Peer, NEW t \in Thread, InitStep(r, t) PROVE Untouched(q, p)'
  BY <1>1, <1>2, <1>5, InitUntouched, BuddyInits
<1>6. ASSUME NEW r \in Peer, Handle(r) PROVE Untouched(q, p)'
  <2>1. r = p
    BY <1>1, <1>6, Derives
  <2> QED
    BY <1>2, <1>6, <2>1, BuddyHandles
<1>7. ASSUME NEW r \in Peer, Environment(r) PROVE Untouched(q, p)'
  BY <1>2, <1>7, EnvironmentUntouched
<1>8. CASE Next
  <2>1. PICK r \in Peer :
          \/ AppCallsInitSession(r)
          \/ \E t \in Thread : InitStep(r, t)
          \/ Handle(r)
          \/ Environment(r)
    BY <1>8 DEF Next
  <2>2. CASE \E t \in Thread : InitStep(r, t)
    BY <1>5, <2>2
  <2> QED
    BY <1>4, <1>6, <1>7, <2>1, <2>2
<1> QED
  BY <1>2, <1>3, <1>8

\* As long as nothing is lost and no process is stopped from outside, no peer is
\* connected to one that holds no session key, however the threads interleave and
\* however often initSession is called and a record delivered twice.
THEOREM SpecPeerHasKey ==
  ASSUME NothingLost
  PROVE  Spec => []PeerHasKey
<1>1. IInv /\ KeylessInv => PeerHasKey
  <2> SUFFICES ASSUME KeylessInv, NEW p \in Peer, Connected(p), Keyless(Other(p))
               PROVE  FALSE
    BY DEF PeerHasKey, Keyless
  <2>1. Other(p) \in Peer /\ Other(Other(p)) = p
    BY OtherPeer
  <2>2. HeldOff(Other(p), p)
    BY <2>1 DEF KeylessInv, Untouched
  <2> QED
    BY <2>2 DEF HeldOff, Is, Connected
<1>2. IInv /\ KeylessInv /\ [Next]_vars => KeylessInv'
  BY NextKeyless
<1> QED
  BY <1>1, <1>2, InitKeyless, SpecIInv, PTL DEF Spec

-----------------------------------------------------------------------------
(***************************************************************************)
(* Nonces.  Queues keep their order, so behind a record with the nonce     *)
(* that q has now there are no older ones.  When q draws a nonce it will   *)
(* announce it to p, and p stores what is announced or ends its session    *)
(* and goes through a handshake again, which stores the nonce it ends with.*)
(***************************************************************************)
\* Records that bring a nonce.
Carrier(m) == m.type \in {"handshakeNonce", "handshakeNonceH"}

AllBring(s, n) == \A i \in 1 .. Len(s) : Carrier(s[i]) => s[i].nonce = n

\* Behind a record with n there is no other nonce.
Ordered(s, n) ==
  \A i, j \in 1 .. Len(s) :
    i < j /\ Carrier(s[i]) /\ Carrier(s[j]) /\ s[i].nonce = n => s[j].nonce = n

Announced(s, n) == \E i \in 1 .. Len(s) : s[i].type = "handshakeNonce" /\ s[i].nonce = n

\* p is connected, or the next key connects it; while its handler runs, once that
\* ends.
LateStatus == {"connected", "waitKeyDest"}
Late(p) == (IF pc[p]["sip"] = "finish" THEN next[p] ELSE sess[p].status) \in LateStatus

\* q is in initSession and sends its nonce before it leaves.
Announcing(q) == \E t \in Thread : pc[q][t] \in {"sendKey", "sendNonce"}

\* p knows q's nonce n or will learn it before it is connected and quiet.
Learns(q, p, n) ==
  /\ Ordered(net[p], n)
  /\ sess[p].remoteNonce = n => AllBring(net[p], n)
  /\ \/ sess[p].remoteNonce = n
     \/ Announcing(q)
     \/ Announced(net[p], n)
     \/ AllBring(net[p], n) /\ ~Late(p)

\* Each peer learns the nonce its buddy has.
EachLearns == \A q \in Peer : Learns(q, Other(q), sess[q].localNonce)

\* The invariant: a process that dies takes its records with it.
NonceInv == alive = Peer => EachLearns

\* A queue without its head.
LEMMA TailBrings ==
  ASSUME NEW s \in Seq(Message), s # <<>>, NEW n
  PROVE  /\ Ordered(s, n) => Ordered(Tail(s), n)
         /\ AllBring(s, n) =>
              AllBring(Tail(s), n) /\ (Carrier(Head(s)) => Head(s).nonce = n)
         /\ Ordered(s, n) /\ Carrier(Head(s)) /\ Head(s).nonce = n => AllBring(Tail(s), n)
         /\ Announced(s, n) =>
              \/ Announced(Tail(s), n)
              \/ Head(s).type = "handshakeNonce" /\ Head(s).nonce = n
<1> DEFINE t == Tail(s)
<1>1. /\ t \in Seq(Message) /\ Len(t) = Len(s) - 1 /\ Len(s) \in Nat /\ Len(s) > 0
      /\ Head(s) = s[1] /\ \A i \in 1 .. Len(t) : t[i] = s[i + 1]
  <2>1. Len(s) \in Nat /\ Len(s) # 0
    BY EmptySeq, LenProperties
  <2>2. t \in Seq(Message) /\ Len(t) = Len(s) - 1 /\ Head(s) = s[1]
        /\ \A i \in 1 .. Len(t) : t[i] = s[i + 1]
    BY HeadTailProperties
  <2> QED
    BY <2>1, <2>2
<1> HIDE DEF t
<1>2. /\ \A i \in 1 .. Len(t) : i + 1 \in 1 .. Len(s) /\ 1 < i + 1
      /\ 1 \in 1 .. Len(s)
      /\ \A i, j \in 1 .. Len(t) : i < j => i + 1 < j + 1
      /\ \A i \in 1 .. Len(s) : i = 1 \/ (i - 1 \in 1 .. Len(t) /\ (i - 1) + 1 = i)
  BY <1>1
<1>3. Ordered(s, n) => Ordered(t, n)
  <2> SUFFICES ASSUME Ordered(s, n), NEW i \in 1 .. Len(t), NEW j \in 1 .. Len(t), i < j,
                      Carrier(t[i]), Carrier(t[j]), t[i].nonce = n
               PROVE  t[j].nonce = n
    BY DEF Ordered
  <2>1. t[i] = s[i + 1] /\ t[j] = s[j + 1] /\ i + 1 < j + 1
        /\ i + 1 \in 1 .. Len(s) /\ j + 1 \in 1 .. Len(s)
    BY <1>1, <1>2
  <2> HIDE DEF t
  <2> QED
    BY <2>1 DEF Ordered
<1>4. AllBring(s, n) => AllBring(t, n) /\ (Carrier(s[1]) => s[1].nonce = n)
  BY <1>1, <1>2 DEF AllBring
<1>5. Ordered(s, n) /\ Carrier(s[1]) /\ s[1].nonce = n => AllBring(t, n)
  BY <1>1, <1>2 DEF AllBring, Ordered
<1>6. Announced(s, n) => Announced(t, n) \/ (s[1].type = "handshakeNonce" /\ s[1].nonce = n)
  <2> SUFFICES ASSUME NEW i \in 1 .. Len(s), s[i].type = "handshakeNonce", s[i].nonce = n,
                      i # 1
               PROVE  Announced(t, n)
    BY DEF Announced
  <2>1. i - 1 \in 1 .. Len(t) /\ t[i - 1] = s[i]
    BY <1>1, <1>2
  <2> QED
    BY <2>1 DEF Announced
<1> QED
  BY <1>1, <1>3, <1>4, <1>5, <1>6 DEF t

\* A queue with more records behind it, whose nonces are all n.
LEMMA ConcatBrings ==
  ASSUME NEW s \in Seq(Message), NEW out \in Seq(Message), NEW n, AllBring(out, n)
  PROVE  /\ Ordered(s, n) => Ordered(s \o out, n)
         /\ AllBring(s, n) => AllBring(s \o out, n)
         /\ Announced(s, n) \/ Announced(out, n) => Announced(s \o out, n)
<1> DEFINE t == s \o out
<1>1. /\ Len(s) \in Nat /\ Len(out) \in Nat /\ Len(t) = Len(s) + Len(out)
      /\ \A i \in 1 .. Len(t) : t[i] = IF i <= Len(s) THEN s[i] ELSE out[i - Len(s)]
  BY ConcatProperties, LenProperties
<1> HIDE DEF t
<1>2. \A i \in 1 .. Len(t) :
        \/ i \in 1 .. Len(s) /\ t[i] = s[i]
        \/ i > Len(s) /\ i - Len(s) \in 1 .. Len(out) /\ t[i] = out[i - Len(s)]
  BY <1>1
<1>3. \A i \in 1 .. Len(t) : i \notin 1 .. Len(s) /\ Carrier(t[i]) => t[i].nonce = n
  BY <1>2 DEF AllBring
<1>4. Ordered(s, n) => Ordered(t, n)
  <2> SUFFICES ASSUME Ordered(s, n), NEW i \in 1 .. Len(t), NEW j \in 1 .. Len(t), i < j,
                      Carrier(t[i]), Carrier(t[j]), t[i].nonce = n
               PROVE  t[j].nonce = n
    BY DEF Ordered
  <2>1. CASE j \in 1 .. Len(s)
    <3>1. i \in 1 .. Len(s) /\ t[i] = s[i] /\ t[j] = s[j]
      BY <1>1, <1>2, <2>1
    <3> QED
      BY <2>1, <3>1 DEF Ordered
  <2> QED
    BY <1>3, <2>1
<1>5. AllBring(s, n) => AllBring(t, n)
  BY <1>2, <1>3 DEF AllBring
<1>6. Announced(s, n) => Announced(t, n)
  <2>1. \A i \in 1 .. Len(s) : i \in 1 .. Len(t) /\ t[i] = s[i]
    BY <1>1
  <2> QED
    BY <2>1 DEF Announced
<1>7. Announced(out, n) => Announced(t, n)
  <2> SUFFICES ASSUME NEW i \in 1 .. Len(out), out[i].type = "handshakeNonce",
                      out[i].nonce = n
               PROVE  Announced(t, n)
    BY DEF Announced
  <2>1. i + Len(s) \in 1 .. Len(t) /\ t[i + Len(s)] = out[i]
    BY <1>1
  <2> QED
    BY <2>1 DEF Announced
<1> QED
  BY <1>4, <1>5, <1>6, <1>7 DEF t

\* A queue whose first record is there twice.
LEMMA TwiceBrings ==
  ASSUME NEW s \in Seq(Message), s # <<>>, NEW n
  PROVE  LET t == <<Head(s)>> \o s
         IN  /\ Ordered(s, n) => Ordered(t, n)
             /\ AllBring(s, n) => AllBring(t, n)
             /\ Announced(s, n) => Announced(t, n)
<1> DEFINE t == <<Head(s)>> \o s
<1>1. /\ Len(s) \in Nat /\ Len(s) > 0 /\ Len(t) = Len(s) + 1 /\ t[1] = s[1]
      /\ \A i \in 1 .. Len(s) : t[i + 1] = s[i]
  <2>1. Len(s) \in Nat /\ Len(s) # 0
    BY EmptySeq, LenProperties
  <2>2. Head(s) = s[1] /\ <<Head(s)>> \in Seq(Message) /\ Len(<<Head(s)>>) = 1
    BY HeadTailProperties
  <2>3. /\ Len(t) = 1 + Len(s)
        /\ \A i \in 1 .. Len(t) : t[i] = IF i <= 1 THEN <<Head(s)>>[i] ELSE s[i - 1]
    BY <2>2, ConcatProperties
  <2> QED
    BY <2>1, <2>2, <2>3
<1> HIDE DEF t
<1>2. /\ 1 \in 1 .. Len(s)
      /\ \A i \in 1 .. Len(t) : i = 1 \/ (i - 1 \in 1 .. Len(s) /\ t[i] = s[i - 1])
  <2> SUFFICES ASSUME NEW i \in 1 .. Len(t), i # 1
               PROVE  i - 1 \in 1 .. Len(s) /\ t[i] = s[i - 1]
    BY <1>1
  <2>1. i - 1 \in 1 .. Len(s) /\ (i - 1) + 1 = i
    BY <1>1
  <2> QED
    BY <1>1, <2>1
<1>3. AllBring(s, n) => AllBring(t, n)
  BY <1>1, <1>2 DEF AllBring
<1>4. Announced(s, n) => Announced(t, n)
  <2>1. \A i \in 1 .. Len(s) : i + 1 \in 1 .. Len(t) /\ t[i + 1] = s[i]
    BY <1>1
  <2> QED
    BY <2>1 DEF Announced
<1>5. Ordered(s, n) => Ordered(t, n)
  <2> SUFFICES ASSUME Ordered(s, n), NEW i \in 1 .. Len(t), NEW j \in 1 .. Len(t), i < j,
                      Carrier(t[i]), Carrier(t[j]), t[i].nonce = n
               PROVE  t[j].nonce = n
    BY DEF Ordered
  <2>1. j - 1 \in 1 .. Len(s) /\ t[j] = s[j - 1]
    BY <1>2
  <2>2. CASE i = 1
    <3>1. j - 1 = 1 \/ 1 < j - 1
      BY <2>1, <2>2
    <3> QED
      BY <1>1, <1>2, <2>1, <2>2, <3>1 DEF Ordered
  <2>3. CASE i # 1
    <3>1. i - 1 \in 1 .. Len(s) /\ t[i] = s[i - 1] /\ i - 1 < j - 1
      BY <1>2, <2>3
    <3> QED
      BY <2>1, <3>1 DEF Ordered
  <2> QED
    BY <2>2, <2>3
<1> QED
  BY <1>3, <1>4, <1>5 DEF t

-----------------------------------------------------------------------------
(***************************************************************************)
(* Steps of the sender.                                                    *)
(***************************************************************************)
\* Whatever is sent brings the nonce q has, and who leaves initSession has
\* announced it.
LEMMA SenderLearns ==
  ASSUME TypeOK, NEW q \in Peer, NEW p \in Peer, NEW n, Learns(q, p, n),
         NEW out \in Seq(Message), AllBring(out, n), net'[p] = net[p] \o out,
         sess'[p].remoteNonce = sess[p].remoteNonce, Late(p)' => Late(p),
         Announcing(q) => Announcing(q)' \/ Announced(out, n)
  PROVE  Learns(q, p, n)'
<1>1. net[p] \in Seq(Message)
  BY DEF TypeOK
<1>2. /\ Ordered(net'[p], n)
      /\ AllBring(net[p], n) => AllBring(net'[p], n)
      /\ Announced(net[p], n) \/ Announced(out, n) => Announced(net'[p], n)
  BY <1>1, ConcatBrings DEF Learns
<1> QED
  BY <1>2 DEF Learns

\* Nothing is sent, received or drawn.
LEMMA QuietLearns ==
  ASSUME EachLearns, net' = net,
         \A u \in Peer : /\ sess'[u].localNonce = sess[u].localNonce
                         /\ sess'[u].remoteNonce = sess[u].remoteNonce
                         /\ Late(u)' => Late(u)
                         /\ Announcing(u) => Announcing(u)'
  PROVE  EachLearns'
<1> SUFFICES ASSUME NEW q \in Peer PROVE Learns(q, Other(q), sess[q].localNonce)'
  BY DEF EachLearns
<1>1. Other(q) \in Peer /\ Learns(q, Other(q), sess[q].localNonce)
  BY OtherPeer DEF EachLearns
<1> QED
  BY <1>1 DEF Learns

\* A nonce just drawn is not on its way nor known, and will be announced.
LEMMA FreshLearns ==
  ASSUME NEW q \in Peer, NEW p \in Peer, p = Other(q), NEW i, FreshId(q, i),
         net'[p] = net[p], sess'[p].remoteNonce = sess[p].remoteNonce, Announcing(q)'
  PROVE  Learns(q, p, <<q, "nonce", i>>)'
<1> DEFINE n == <<q, "nonce", i>>
<1>1. /\ sess[p].remoteNonce # n
      /\ \A k \in DOMAIN net[p] : Carrier(net[p][k]) => net[p][k].nonce # n
  BY DEF FreshId, NonceInUse, Carrier
<1> QED
  BY <1>1 DEF Learns, Ordered

-----------------------------------------------------------------------------
(***************************************************************************)
(* Steps of the receiver.                                                  *)
(***************************************************************************)
\* p takes a record: it stores the nonce it brings, or keeps the one it has and
\* gets no nearer to being connected; and a nonce announced is stored or refused.
LEMMA ReceiverLearns ==
  ASSUME TypeOK, NEW q \in Peer, NEW p \in Peer, NEW n, Learns(q, p, n),
         net[p] # <<>>, net'[p] = Tail(net[p]),
         \/ Carrier(Head(net[p])) /\ sess'[p].remoteNonce = Head(net[p]).nonce
         \/ /\ sess'[p].remoteNonce = sess[p].remoteNonce
            /\ ~Late(p)' \/ (Late(p) /\ Head(net[p]).type # "handshakeNonce"),
         Announcing(q) => Announcing(q)'
  PROVE  Learns(q, p, n)'
<1>1. net[p] \in Seq(Message)
  BY DEF TypeOK
<1>2. /\ Ordered(net'[p], n)
      /\ AllBring(net[p], n) =>
           AllBring(net'[p], n) /\ (Carrier(Head(net[p])) => Head(net[p]).nonce = n)
      /\ Carrier(Head(net[p])) /\ Head(net[p]).nonce = n => AllBring(net'[p], n)
      /\ Announced(net[p], n) =>
           \/ Announced(net'[p], n)
           \/ Head(net[p]).type = "handshakeNonce" /\ Head(net[p]).nonce = n
  BY <1>1, TailBrings DEF Learns
<1>3. sess'[p].remoteNonce = n => AllBring(net'[p], n)
  BY <1>2 DEF Learns
<1>4. CASE Carrier(Head(net[p])) /\ sess'[p].remoteNonce = Head(net[p]).nonce
  BY <1>2, <1>3, <1>4 DEF Learns, Carrier
<1>5. CASE /\ sess'[p].remoteNonce = sess[p].remoteNonce
           /\ ~Late(p)' \/ (Late(p) /\ Head(net[p]).type # "handshakeNonce")
  BY <1>2, <1>3, <1>5 DEF Learns, Carrier
<1> QED
  BY <1>4, <1>5

\* A handler that stores session s and answers with out.
LEMMA StoreLearns ==
  ASSUME IInv, EachLearns, NEW p \in Peer, NEW type, NEW st, Receives(p, type, st),
         NEW s \in Session, NEW out \in Seq(Message), Store(p, s, out),
         s.localNonce = sess[p].localNonce, AllBring(out, s.localNonce),
         pc'[p]["app"] = pc[p]["app"], pc'[Other(p)] = pc[Other(p)],
         next'[Other(p)] = next[Other(p)],
         \/ Carrier(Head(net[p])) /\ s.remoteNonce = Head(net[p]).nonce
         \/ /\ s.remoteNonce = sess[p].remoteNonce
            /\ ~Late(p)' \/ (sess[p].status \in LateStatus /\ type # "handshakeNonce")
  PROVE  EachLearns'
<1> DEFINE q == Other(p)
<1>1. q \in Peer /\ p # q /\ Other(q) = p /\ \A u \in Peer : u = p \/ u = q
  BY OtherPeer DEF Peer
<1>2. /\ sess'[p] = s /\ sess'[q] = sess[q]
      /\ net'[p] = Tail(net[p]) /\ net'[q] = net[q] \o out
  BY <1>1 DEF Store, IInv, TypeOK
<1>3. net[p] # <<>> /\ Head(net[p]).type = type /\ pc[p]["sip"] = "idle"
  BY DEF Receives
<1> HIDE DEF q
<1>4. (Late(q)' <=> Late(q)) /\ (Announcing(q)' <=> Announcing(q))
  BY <1>1, <1>2 DEF Late, Announcing, q
<1>5. Announcing(p) => Announcing(p)'
  BY <1>3 DEF Announcing, Thread
<1>6. sess[p].status \in LateStatus => Late(p)
  BY <1>3 DEF Late
<1>7. ASSUME NEW n, n = sess[p].localNonce PROVE Learns(p, q, n)'
  <2>1. Learns(p, q, n)
    BY <1>7 DEF EachLearns, q
  <2>2. sess'[q].remoteNonce = sess[q].remoteNonce /\ AllBring(out, n)
    BY <1>2, <1>7
  <2> QED
    BY <1>1, <1>2, <1>4, <1>5, <2>1, <2>2, SenderLearns DEF IInv
<1>8. ASSUME NEW n, n = sess[q].localNonce PROVE Learns(q, p, n)'
  <2>1. Learns(q, p, n)
    BY <1>1, <1>8 DEF EachLearns
  <2>2. \/ Carrier(Head(net[p])) /\ sess'[p].remoteNonce = Head(net[p]).nonce
        \/ /\ sess'[p].remoteNonce = sess[p].remoteNonce
           /\ ~Late(p)' \/ (Late(p) /\ Head(net[p]).type # "handshakeNonce")
    BY <1>2, <1>3, <1>6
  <2> QED
    BY <1>1, <1>2, <1>3, <1>4, <2>1, <2>2, ReceiverLearns DEF IInv
<1>9. Learns(p, Other(p), sess[p].localNonce)'
  BY <1>2, <1>7 DEF Learns, q
<1>10. Learns(q, Other(q), sess[q].localNonce)'
  BY <1>1, <1>2, <1>8 DEF Learns
<1> QED
  BY <1>1, <1>9, <1>10 DEF EachLearns

\* A handler that goes on to assign status to.
LEMMA GoOnLearns ==
  ASSUME IInv, EachLearns, NEW p \in Peer, NEW type, NEW st, Receives(p, type, st),
         NEW s \in Session, NEW out \in Seq(Message), NEW to, StoreAndGoOn(p, s, out, to),
         s.localNonce = sess[p].localNonce, AllBring(out, s.localNonce),
         \/ Carrier(Head(net[p])) /\ s.remoteNonce = Head(net[p]).nonce
         \/ /\ s.remoteNonce = sess[p].remoteNonce
            /\ to \notin LateStatus \/ (sess[p].status \in LateStatus /\ type # "handshakeNonce")
  PROVE  EachLearns'
<1>1. Other(p) \in Peer /\ Other(p) # p
  BY OtherPeer
<1>2. /\ Store(p, s, out) /\ pc'[p]["app"] = pc[p]["app"] /\ pc'[p]["sip"] = "finish"
      /\ pc'[Other(p)] = pc[Other(p)] /\ next'[Other(p)] = next[Other(p)] /\ next'[p] = to
  BY <1>1 DEF StoreAndGoOn, Goto, IInv, TypeOK, Thread
<1>3. Late(p)' => to \in LateStatus
  BY <1>2 DEF Late, LateStatus
<1> QED
  BY <1>2, <1>3, StoreLearns

LEMMA StoreThenLearns ==
  ASSUME IInv, EachLearns, NEW p \in Peer, NEW type, NEW st, Receives(p, type, st),
         NEW s \in Session, NEW out \in Seq(Message), NEW to, StoreThen(p, s, out, to),
         s.localNonce = sess[p].localNonce, AllBring(out, s.localNonce),
         \/ Carrier(Head(net[p])) /\ s.remoteNonce = Head(net[p]).nonce
         \/ /\ s.remoteNonce = sess[p].remoteNonce
            /\ to \notin LateStatus \/ (sess[p].status \in LateStatus /\ type # "handshakeNonce")
  PROVE  EachLearns'
BY GoOnLearns DEF StoreThen

\* A handler that leaves the status as it is.
LEMMA StoreOnlyLearns ==
  ASSUME IInv, EachLearns, NEW p \in Peer, NEW type, NEW st, Receives(p, type, st),
         NEW s \in Session, StoreOnly(p, s, <<>>),
         s.localNonce = sess[p].localNonce, s.status = sess[p].status,
         \/ Carrier(Head(net[p])) /\ s.remoteNonce = Head(net[p]).nonce
         \/ s.remoteNonce = sess[p].remoteNonce /\ type # "handshakeNonce"
  PROVE  EachLearns'
<1>1. Store(p, s, <<>>) /\ pc' = pc /\ next' = next /\ sess'[p] = s
  BY DEF StoreOnly, Store, IInv, TypeOK
<1>2. pc[p]["sip"] = "idle"
  BY DEF Receives
<1>3. Late(p)' <=> sess[p].status \in LateStatus
  BY <1>1, <1>2 DEF Late, LateStatus
<1>4. <<>> \in Seq(Message) /\ AllBring(<<>>, s.localNonce)
  BY DEF AllBring
<1> QED
  BY <1>1, <1>3, <1>4, StoreLearns

\* A verdict connects, if it does, with the nonce that came or the one stored
\* when only the key was missing.
LEMMA VerdictLearns ==
  ASSUME IInv, EachLearns, NEW p \in Peer, NEW type, NEW st, Receives(p, type, st),
         NEW s \in Session, NEW out \in Seq(Message), Verdict(p, s, out),
         s.localNonce = sess[p].localNonce, AllBring(out, s.localNonce),
         \/ Carrier(Head(net[p])) /\ s.remoteNonce = Head(net[p]).nonce
         \/ /\ s.remoteNonce = sess[p].remoteNonce
            /\ sess[p].status \in LateStatus /\ type # "handshakeNonce"
  PROVE  EachLearns'
<1>1. CASE StoreThen(p, s, out, "connected")
  BY <1>1, StoreThenLearns
<1>2. CASE Refuse(p, s, out)
  <2> DEFINE end == Append(out, Alert)
  <2>1. StoreAndGoOn(p, s, end, "notConnected")
    BY <1>2 DEF Refuse
  <2>2. Alert \in Message /\ ~Carrier(Alert)
    BY DEF Alert, Message, Carrier
  <2>3. /\ end \in Seq(Message) /\ Len(end) = Len(out) + 1 /\ Len(out) \in Nat
        /\ \A i \in 1 .. Len(end) : end[i] = IF i <= Len(out) THEN out[i] ELSE Alert
    BY <2>2, AppendProperties, LenProperties
  <2>4. AllBring(end, s.localNonce)
    <3> HIDE DEF end
    <3> QED
      BY <2>2, <2>3 DEF AllBring
  <2>5. "notConnected" \notin LateStatus
    BY DEF LateStatus
  <2> HIDE DEF end
  <2> QED
    BY <2>1, <2>3, <2>4, <2>5, GoOnLearns
<1> QED
  BY <1>1, <1>2 DEF Verdict

\* What p sends brings the nonce it has, if any.
LEMMA OutBrings ==
  ASSUME IInv, NEW p \in Peer
  PROVE  /\ <<>> \in Seq(Message) /\ \A n : AllBring(<<>>, n)
         /\ <<KeyRecord(p)>> \in Seq(Message) /\ \A n : AllBring(<<KeyRecord(p)>>, n)
         /\ <<Alert>> \in Seq(Message) /\ \A n : AllBring(<<Alert>>, n)
         /\ <<NonceRecord(p)>> \in Seq(Message)
         /\ AllBring(<<NonceRecord(p)>>, sess[p].localNonce)
         /\ Announced(<<NonceRecord(p)>>, sess[p].localNonce)
         /\ \A s \in Session : s.localNonce \in DrawnNonce =>
              /\ <<NonceHRecord(s)>> \in Seq(Message)
              /\ AllBring(<<NonceHRecord(s)>>, s.localNonce)
<1>1. GoodMessage[Other(p)] \subseteq Message
  BY OtherPeer DEF GoodMessage
<1>2. /\ KeyRecord(p) \in Message /\ Alert \in Message /\ NonceRecord(p) \in Message
      /\ \A s \in Session : s.localNonce \in DrawnNonce => NonceHRecord(s) \in Message
  BY <1>1, GoodRecords
<1>3. \A m \in Message : <<m>> \in Seq(Message) /\ Len(<<m>>) = 1 /\ <<m>>[1] = m
  OBVIOUS
<1>4. ASSUME NEW m \in Message, NEW n, Carrier(m) => m.nonce = n
      PROVE  AllBring(<<m>>, n)
  BY <1>3, <1>4 DEF AllBring
<1>5. \A n : AllBring(<<KeyRecord(p)>>, n) /\ AllBring(<<Alert>>, n)
  BY <1>2, <1>4 DEF KeyRecord, Alert, Carrier
<1>6. AllBring(<<NonceRecord(p)>>, sess[p].localNonce)
  BY <1>2, <1>4 DEF NonceRecord
<1>7. Announced(<<NonceRecord(p)>>, sess[p].localNonce)
  BY <1>2, <1>3 DEF NonceRecord, Announced
<1>8. ASSUME NEW s \in Session, s.localNonce \in DrawnNonce
      PROVE  AllBring(<<NonceHRecord(s)>>, s.localNonce)
  BY <1>2, <1>4, <1>8 DEF NonceHRecord
<1>9. <<>> \in Seq(Message) /\ \A n : AllBring(<<>>, n)
  BY DEF AllBring
<1> QED
  BY <1>2, <1>3, <1>5, <1>6, <1>7, <1>8, <1>9

\* Keys connect only a session that has its nonce.
LEMMA KeyLearns ==
  ASSUME IInv, EachLearns, NEW p \in Peer, HandleKey(p), alive' = Peer
  PROVE  EachLearns'
<1> DEFINE s == [sess[p] EXCEPT !.remoteKey = Head(net[p]).key]
           t == WithSessionKey(p, s)
<1>1. ASSUME NEW st, Receives(p, "handshakeKey", st)
      PROVE  /\ s \in Session /\ GoodSession(p, s) /\ t \in Session /\ GoodSession(p, t)
             /\ s.localNonce = sess[p].localNonce /\ s.remoteNonce = sess[p].remoteNonce
             /\ t.localNonce = sess[p].localNonce /\ t.remoteNonce = sess[p].remoteNonce
             /\ t.localNonce \in DrawnNonce
  <2>1. /\ s \in Session /\ GoodSession(p, s) /\ t \in Session /\ GoodSession(p, t)
        /\ sess[p] \in Session
    BY <1>1, KeyStored, HandlerFacts
  <2> QED
    BY <2>1 DEF Session, WithSessionKey, GoodSession
<1>2. CASE KeyNotConnected(p)
  <2>1. Receives(p, "handshakeKey", {"notConnected"})
        /\ StoreThen(p, t, <<KeyRecord(p)>>, "waitNonceInit")
    BY <1>2 DEF KeyNotConnected
  <2>2. "waitNonceInit" \notin LateStatus
    BY DEF LateStatus
  <2> HIDE DEF t, s
  <2> QED
    BY <1>1, <2>1, <2>2, OutBrings, StoreThenLearns
<1>3. CASE KeyWaitKeyNonceHDest(p)
  <2>1. Receives(p, "handshakeKey", {"waitKeyNonceHDest"})
        /\ StoreThen(p, t, <<>>, "waitNonceHDest")
    BY <1>3 DEF KeyWaitKeyNonceHDest
  <2>2. "waitNonceHDest" \notin LateStatus
    BY DEF LateStatus
  <2> HIDE DEF t, s
  <2> QED
    BY <1>1, <2>1, <2>2, OutBrings, StoreThenLearns
<1>4. CASE KeyWaitKeyDest(p)
  <2>1. Receives(p, "handshakeKey", {"waitKeyDest"})
        /\ Verdict(p, t, <<NonceHRecord(t)>>)
    BY <1>4 DEF KeyWaitKeyDest
  <2>2. sess[p].status \in LateStatus
    BY <2>1 DEF Receives, LateStatus
  <2>3. /\ t \in Session /\ GoodSession(p, t) /\ t.localNonce = sess[p].localNonce
        /\ t.remoteNonce = sess[p].remoteNonce /\ t.localNonce \in DrawnNonce
    BY <1>1, <2>1
  <2> DEFINE out == <<NonceHRecord(t)>>
  <2> HIDE DEF t, s
  <2>4. out \in Seq(Message) /\ AllBring(out, t.localNonce)
    BY <2>3, OutBrings
  <2>5. Verdict(p, t, out)
    BY <2>1
  <2> HIDE DEF out
  <2>6. /\ t.remoteNonce = sess[p].remoteNonce
        /\ sess[p].status \in LateStatus /\ "handshakeKey" # "handshakeNonce"
    BY <2>2, <2>3
  <2> QED
    BY <2>1, <2>3, <2>4, <2>5, <2>6, VerdictLearns
<1>5. CASE KeyConnected(p)
  <2>1. Receives(p, "handshakeKey", {"connected"})
    BY <1>5 DEF KeyConnected
  <2>2. StoreThen(p, s, <<>>, "waitNonceInit")
    BY <1>5, <2>1 DEF KeyConnected, Die
  <2>3. "waitNonceInit" \notin LateStatus
    BY DEF LateStatus
  <2> HIDE DEF t, s
  <2> QED
    BY <1>1, <2>1, <2>2, <2>3, OutBrings, StoreThenLearns
<1>6. CASE KeyIgnored(p)
  <2>1. Receives(p, "handshakeKey",
                 {"waitNonceHDest", "waitNonceInit", "waitKeyInit", "waitNonce2HInit"})
        /\ StoreOnly(p, sess[p], <<>>)
    BY <1>6 DEF KeyIgnored
  <2> QED
    BY <2>1, HandlerFacts, StoreOnlyLearns
<1> QED
  BY <1>2, <1>3, <1>4, <1>5, <1>6 DEF HandleKey

\* A nonce is stored, or refused and the session ended.
LEMMA NonceLearns ==
  ASSUME IInv, EachLearns, NEW p \in Peer, HandleNonce(p), alive' = Peer
  PROVE  EachLearns'
<1> DEFINE s == [sess[p] EXCEPT !.remoteNonce = Head(net[p]).nonce]
<1>1. ASSUME NEW st, Receives(p, "handshakeNonce", st)
      PROVE  /\ s \in Session /\ s.localNonce = sess[p].localNonce
             /\ s.localNonce \in DrawnNonce
             /\ Carrier(Head(net[p])) /\ s.remoteNonce = Head(net[p]).nonce
  <2>1. s \in Session /\ GoodSession(p, s) /\ sess[p] \in Session
    BY <1>1, NonceStored, HandlerFacts
  <2> QED
    BY <1>1, <2>1 DEF Session, GoodSession, Receives, Carrier
<1>2. CASE NonceWaitNonceInit(p)
  <2>1. Receives(p, "handshakeNonce", {"waitNonceInit"})
        /\ StoreThen(p, s, <<NonceHRecord(s)>>, "waitNonce2HInit")
    BY <1>2 DEF NonceWaitNonceInit
  <2> HIDE DEF s
  <2> QED
    BY <1>1, <2>1, OutBrings, StoreThenLearns
<1>3. CASE NonceWaitKeyNonceHDest(p)
  <2>1. Receives(p, "handshakeNonce", {"waitKeyNonceHDest"})
    BY <1>3 DEF NonceWaitKeyNonceHDest
  <2>2. StoreThen(p, s, <<>>, "waitKeyDest")
    BY <1>3, <2>1 DEF NonceWaitKeyNonceHDest, Die
  <2> HIDE DEF s
  <2> QED
    BY <1>1, <2>1, <2>2, OutBrings, StoreThenLearns
<1>4. CASE NonceConnected(p)
  <2>1. Receives(p, "handshakeNonce", {"connected"})
        /\ StoreThen(p, s, <<>>, "waitKeyInit")
    BY <1>4 DEF NonceConnected
  <2> HIDE DEF s
  <2> QED
    BY <1>1, <2>1, OutBrings, StoreThenLearns
<1>5. CASE NonceRefused(p)
  <2>1. Receives(p, "handshakeNonce",
                 {"notConnected", "waitNonceHDest", "waitKeyDest", "waitKeyInit",
                  "waitNonce2HInit"})
        /\ StoreThen(p, sess[p], <<Alert>>, "notConnected")
    BY <1>5 DEF NonceRefused
  <2>2. "notConnected" \notin LateStatus
    BY DEF LateStatus
  <2> QED
    BY <2>1, <2>2, HandlerFacts, OutBrings, StoreThenLearns
<1> QED
  BY <1>2, <1>3, <1>4, <1>5 DEF HandleNonce

\* A nonce that comes with a hash is stored where it decides, and read over
\* elsewhere.
LEMMA NonceHLearns ==
  ASSUME IInv, EachLearns, NEW p \in Peer, HandleNonceH(p)
  PROVE  EachLearns'
<1> DEFINE s == [WithNonceH(p) EXCEPT !.remoteNonce = Head(net[p]).nonce]
<1>1. ASSUME NEW st, Receives(p, "handshakeNonceH", st)
      PROVE  /\ s \in Session /\ GoodSession(p, s) /\ s.localNonce = sess[p].localNonce
             /\ s.status = sess[p].status
             /\ Carrier(Head(net[p])) /\ s.remoteNonce = Head(net[p]).nonce
             /\ sess[p] \in Session /\ sess[p].localNonce \in DrawnNonce
             /\ WithNonceH(p) \in Session /\ WithNonceH(p).localNonce = sess[p].localNonce
             /\ WithNonceH(p).remoteNonce = sess[p].remoteNonce
             /\ WithNonceH(p).status = sess[p].status
  <2>1. /\ s \in Session /\ GoodSession(p, s) /\ WithNonceH(p) \in Session
        /\ sess[p] \in Session /\ GoodSession(p, sess[p])
    BY <1>1, NonceHStored, HandlerFacts
  <2> QED
    BY <1>1, <2>1 DEF Session, GoodSession, Receives, Carrier, WithNonceH
<1>2. CASE NonceHWaitKeyNonceHDest(p)
  <2>1. Receives(p, "handshakeNonceH", {"waitKeyNonceHDest"}) /\ StoreOnly(p, s, <<>>)
    BY <1>2 DEF NonceHWaitKeyNonceHDest
  <2> HIDE DEF s
  <2> QED
    BY <1>1, <2>1, StoreOnlyLearns
<1>3. CASE NonceHWaitNonceHDest(p)
  <2>1. Receives(p, "handshakeNonceH", {"waitNonceHDest"})
        /\ Verdict(p, s, <<NonceHRecord(sess[p])>>)
    BY <1>3 DEF NonceHWaitNonceHDest
  <2> HIDE DEF s
  <2> QED
    BY <1>1, <2>1, OutBrings, VerdictLearns
<1>4. CASE NonceHWaitNonce2HInit(p)
  <2>1. Receives(p, "handshakeNonceH", {"waitNonce2HInit"}) /\ Verdict(p, s, <<>>)
    BY <1>4 DEF NonceHWaitNonce2HInit
  <2> HIDE DEF s
  <2> QED
    BY <1>1, <2>1, OutBrings, VerdictLearns
<1>5. CASE NonceHIgnored(p)
  <2>1. Receives(p, "handshakeNonceH",
                 {"notConnected", "waitKeyDest", "waitNonceInit", "waitKeyInit",
                  "connected"})
        /\ StoreOnly(p, WithNonceH(p), <<>>)
    BY <1>5 DEF NonceHIgnored
  <2> QED
    BY <1>1, <2>1, StoreOnlyLearns
<1> QED
  BY <1>2, <1>3, <1>4, <1>5 DEF HandleNonceH

\* An alert ends the session, and the last assignment of a handler is of the
\* status it decided on.
LEMMA HandleLearns ==
  ASSUME IInv, EachLearns, NEW p \in Peer, Handle(p), alive' = Peer
  PROVE  EachLearns'
<1>1. Other(p) \in Peer /\ Other(p) # p /\ \A u \in Peer : u = p \/ u = Other(p)
  BY OtherPeer DEF Peer
<1>2. CASE AlertReceived(p)
  <2> DEFINE s == [sess[p] EXCEPT !.status = "notConnected"]
  <2>1. /\ Receives(p, "alert", Status) /\ Store(p, s, <<>>) /\ next' = next
        /\ pc' = [pc EXCEPT ![p]["sip"] = "init"] \/ pc' = pc
    BY <1>2 DEF AlertReceived, Goto
  <2>2. pc[p]["sip"] = "idle" /\ sess[p] \in Session
    BY <2>1, HandlerFacts DEF Receives
  <2>3. /\ s \in Session /\ s.status = "notConnected" /\ s.localNonce = sess[p].localNonce
        /\ s.remoteNonce = sess[p].remoteNonce
    BY <2>2 DEF Session, Status
  <2>4. /\ pc'[p]["sip"] \in {"idle", "init"} /\ pc'[p]["app"] = pc[p]["app"]
        /\ pc'[Other(p)] = pc[Other(p)] /\ next'[Other(p)] = next[Other(p)]
    BY <1>1, <2>1, <2>2 DEF IInv, TypeOK, Thread
  <2>5. sess'[p] = s
    BY <2>1 DEF Store, IInv, TypeOK
  <2>6. ~Late(p)'
    BY <2>3, <2>4, <2>5 DEF Late, LateStatus
  <2> HIDE DEF s
  <2> QED
    BY <2>1, <2>3, <2>4, <2>6, OutBrings, StoreLearns
<1>3. CASE HandlerFinish(p)
  <2>1. /\ pc[p]["sip"] = "finish" /\ sess' = [sess EXCEPT ![p].status = next[p]]
        /\ pc' = [pc EXCEPT ![p]["sip"] = "idle"] /\ UNCHANGED <<next, net>>
    BY <1>3 DEF HandlerFinish, Goto
  <2>2. \A u \in Peer : /\ sess'[u].localNonce = sess[u].localNonce
                        /\ sess'[u].remoteNonce = sess[u].remoteNonce
    BY <2>1 DEF IInv, TypeOK, Session
  <2>3. /\ sess'[p].status = next[p] /\ pc'[p]["sip"] = "idle"
        /\ sess'[Other(p)] = sess[Other(p)] /\ pc'[Other(p)] = pc[Other(p)]
        /\ pc'[p]["app"] = pc[p]["app"]
    BY <1>1, <2>1 DEF IInv, TypeOK, Session, Thread
  <2>4. \A u \in Peer : (Late(u)' <=> Late(u)) /\ (Announcing(u) => Announcing(u)')
    BY <1>1, <2>1, <2>3 DEF Late, Announcing, Thread
  <2> QED
    BY <2>1, <2>2, <2>4, QuietLearns
<1> QED
  BY <1>2, <1>3, KeyLearns, NonceLearns, NonceHLearns DEF Handle

-----------------------------------------------------------------------------
(***************************************************************************)
(* initSession, the environment, and the theorem.                          *)
(***************************************************************************)
\* initSession announces what it drew, and connects nobody.
LEMMA InitStepLearns ==
  ASSUME IInv, EachLearns, NEW p \in Peer, NEW t \in Thread, InitStep(p, t), alive' = Peer
  PROVE  EachLearns'
<1> DEFINE q == Other(p)
<1>1. q \in Peer /\ p # q /\ Other(q) = p /\ \A u \in Peer : u = p \/ u = q
  BY OtherPeer DEF Peer
<1> HIDE DEF q
<1>2. pc \in [Peer -> [Thread -> Label]] /\ sess \in [Peer -> Session]
      /\ net \in [Peer -> Seq(Message)]
  BY DEF IInv, TypeOK
<1>3. ASSUME NEW label \in Label \ {"finish"}, Goto(p, t, label), pc[p][t] # "finish"
      PROVE  /\ pc'[q] = pc[q] /\ pc'[p][t] = label
             /\ \A x \in Thread \ {t} : pc'[p][x] = pc[p][x]
             /\ pc'[p]["sip"] = "finish" <=> pc[p]["sip"] = "finish"
  BY <1>1, <1>2, <1>3 DEF Goto, Thread
<1>4. CASE InitWithoutSession(p, t)
  BY <1>4 DEF InitWithoutSession, Die
<1>5. CASE InitSuppressed(p, t)
  <2>1. /\ pc[p][t] = "init" /\ Goto(p, t, "idle") /\ UNCHANGED <<next, net>>
        /\ sess' = [sess EXCEPT ![p].iAmSessionInitiator = TRUE]
    BY <1>5 DEF InitSuppressed
  <2>2. \A u \in Peer : /\ sess'[u].localNonce = sess[u].localNonce
                        /\ sess'[u].remoteNonce = sess[u].remoteNonce
                        /\ sess'[u].status = sess[u].status
    BY <1>2, <2>1 DEF Session
  <2>3. \A u \in Peer : (Late(u)' <=> Late(u)) /\ (Announcing(u) => Announcing(u)')
    BY <1>1, <1>3, <2>1, <2>2 DEF Late, Announcing, Label
  <2> QED
    BY <2>1, <2>2, <2>3, QuietLearns
<1>6. CASE InitBegin(p, t)
  <2>1. PICK i \in NonceId :
          /\ FreshId(p, i)
          /\ sess' = [sess EXCEPT ![p].iAmSessionInitiator = TRUE,
                                  ![p].localNonce = <<p, "nonce", i>>]
    BY <1>6 DEF InitBegin
  <2>2. pc[p][t] = "init" /\ Goto(p, t, "sendKey") /\ UNCHANGED <<next, net>>
    BY <1>6 DEF InitBegin
  <2>3. /\ sess'[p].localNonce = <<p, "nonce", i>> /\ sess'[q] = sess[q]
        /\ sess'[p].remoteNonce = sess[p].remoteNonce /\ sess'[p].status = sess[p].status
    BY <1>1, <1>2, <2>1 DEF Session
  <2>4. /\ pc'[q] = pc[q] /\ Announcing(p)' /\ (Late(p)' <=> Late(p)) /\ (Late(q)' <=> Late(q))
        /\ Announcing(q) => Announcing(q)'
    BY <1>1, <1>3, <2>2, <2>3 DEF Late, Announcing, Label
  <2>5. Learns(p, q, <<p, "nonce", i>>)'
    BY <1>1, <2>1, <2>2, <2>3, <2>4, FreshLearns DEF q
  <2>6. Learns(q, p, sess[q].localNonce)'
    BY <1>1, <2>2, <2>3, <2>4 DEF EachLearns, Learns
  <2> QED
    BY <1>1, <2>3, <2>5, <2>6 DEF EachLearns, Learns, q
<1>7. CASE InitSendKey(p, t) \/ InitSendNonce(p, t)
  <2> DEFINE n == sess[p].localNonce
  <2>1. PICK out \in {<<KeyRecord(p)>>, <<NonceRecord(p)>>} :
          /\ net' = [net EXCEPT ![q] = @ \o out] /\ UNCHANGED <<sess, next>>
          /\ \/ Goto(p, t, "sendNonce") /\ pc[p][t] = "sendKey"
             \/ /\ Goto(p, t, "setStatus") /\ pc[p][t] = "sendNonce"
                /\ out = <<NonceRecord(p)>>
    BY <1>7 DEF InitSendKey, InitSendNonce, Send, q
  <2>2. out \in Seq(Message) /\ AllBring(out, n)
    BY OutBrings
  <2>3. /\ net'[q] = net[q] \o out /\ net'[p] = net[p] /\ pc'[q] = pc[q]
        /\ pc'[p]["sip"] = "finish" <=> pc[p]["sip"] = "finish"
        /\ \/ pc'[p][t] = "sendNonce"
           \/ out = <<NonceRecord(p)>>
    BY <1>1, <1>2, <1>3, <2>1 DEF Label
  <2>4. (Late(p)' <=> Late(p)) /\ (Late(q)' <=> Late(q)) /\ (Announcing(q)' <=> Announcing(q))
    BY <1>1, <2>1, <2>3 DEF Late, Announcing
  <2>5. Announcing(p)' \/ Announced(out, n)
    BY <2>3, OutBrings DEF Announcing
  <2>6. Learns(p, q, n)'
    <3> SUFFICES ASSUME NEW m, m = n PROVE Learns(p, q, m)'
      BY <2>1 DEF Learns
    <3>1. Learns(p, q, m)
      BY DEF EachLearns, q
    <3>2. TypeOK /\ sess' = sess
      BY <2>1 DEF IInv
    <3> HIDE DEF n
    <3> QED
      BY <1>1, <2>2, <2>3, <2>4, <2>5, <3>1, <3>2, SenderLearns
  <2>7. Learns(q, p, sess[q].localNonce)'
    BY <1>1, <2>1, <2>3, <2>4 DEF EachLearns, Learns
  <2> QED
    BY <1>1, <2>6, <2>7 DEF EachLearns, q
<1>8. CASE InitSetStatus(p, t)
  <2>1. /\ pc[p][t] = "setStatus" /\ Goto(p, t, "idle") /\ UNCHANGED <<next, net>>
        /\ sess' = [sess EXCEPT ![p].status = "waitKeyNonceHDest"]
    BY <1>8 DEF InitSetStatus
  <2>2. /\ \A u \in Peer : /\ sess'[u].localNonce = sess[u].localNonce
                           /\ sess'[u].remoteNonce = sess[u].remoteNonce
        /\ sess'[q] = sess[q] /\ sess'[p].status = "waitKeyNonceHDest"
    BY <1>1, <1>2, <2>1 DEF Session
  <2>3. \A u \in Peer : (Late(u)' => Late(u)) /\ (Announcing(u) => Announcing(u)')
    BY <1>1, <1>3, <2>1, <2>2 DEF Late, LateStatus, Announcing, Label
  <2> QED
    BY <2>1, <2>2, <2>3, QuietLearns
<1> QED
  BY <1>4, <1>5, <1>6, <1>7, <1>8 DEF InitStep

\* Only a record is repeated, as long as nothing is lost.
LEMMA EnvironmentLearns ==
  ASSUME NothingLost, IInv, EachLearns, alive = Peer, NEW p \in Peer, Environment(p),
         alive' = Peer
  PROVE  EachLearns'
<1>1. Duplicate(p)
  <2>1. losses \in Nat /\ restarts \in Nat /\ p \in alive
    BY DEF IInv, TypeOK
  <2> QED
    BY <2>1 DEF NothingLost, Environment, Lose, Crash, Restart
<1>2. /\ net[p] # <<>> /\ net' = [net EXCEPT ![p] = <<Head(@)>> \o @]
      /\ UNCHANGED <<sess, pc, next>>
  BY <1>1 DEF Duplicate
<1>3. \A u \in Peer : (Late(u)' <=> Late(u)) /\ (Announcing(u)' <=> Announcing(u))
  BY <1>2 DEF Late, Announcing
<1>4. ASSUME NEW u \in Peer, NEW n
      PROVE  /\ Ordered(net[u], n) => Ordered(net'[u], n)
             /\ AllBring(net[u], n) => AllBring(net'[u], n)
             /\ Announced(net[u], n) => Announced(net'[u], n)
  <2>1. net'[u] = net[u] \/ (u = p /\ net'[u] = <<Head(net[u])>> \o net[u])
    BY <1>2 DEF IInv, TypeOK
  <2>2. net[u] \in Seq(Message)
    BY DEF IInv, TypeOK
  <2> QED
    BY <1>2, <2>1, <2>2, TwiceBrings
<1> QED
  <2> SUFFICES ASSUME NEW q \in Peer PROVE Learns(q, Other(q), sess[q].localNonce)'
    BY DEF EachLearns
  <2>1. Other(q) \in Peer /\ Learns(q, Other(q), sess[q].localNonce)
    BY OtherPeer DEF EachLearns
  <2> QED
    BY <1>2, <1>3, <1>4, <2>1 DEF Learns

\* At first there is nothing to learn but the nonce of the first process.
LEMMA InitNonces == Init => NonceInv
<1> SUFFICES ASSUME Init, NEW q \in Peer PROVE Learns(q, Other(q), sess[q].localNonce)
  BY DEF NonceInv, EachLearns
<1> DEFINE p == Other(q)
<1>1. p \in Peer
  BY OtherPeer
<1>2. /\ sess[p].status = "notConnected" /\ sess[p].remoteNonce = Garbage(p)
      /\ pc[p]["sip"] = "idle" /\ net[p] = <<>>
  BY <1>1 DEF Init, NewSession, IdleThreads, Thread
<1> HIDE DEF p
<1>3. ~Late(p) /\ \A n : AllBring(net[p], n) /\ Ordered(net[p], n)
  BY <1>2 DEF Late, LateStatus, AllBring, Ordered
<1> QED
  BY <1>3 DEF Learns, p

\* Every step keeps the invariant.
LEMMA NextNonces ==
  ASSUME NothingLost, IInv, NonceInv, [Next]_vars
  PROVE  NonceInv'
<1> SUFFICES ASSUME alive' = Peer PROVE EachLearns'
  BY DEF NonceInv
<1>1. alive = Peer
  <2>1. alive \subseteq Peer /\ restarts \in Nat
    BY DEF IInv, TypeOK
  <2>2. ASSUME NEW p \in Peer, Handle(p) PROVE alive' \subseteq alive
    BY <2>2 DEF Handle, HandleKey, HandleNonce, HandleNonceH, KeyNotConnected,
         KeyWaitKeyNonceHDest, KeyWaitKeyDest, KeyConnected, KeyIgnored,
         NonceWaitNonceInit, NonceWaitKeyNonceHDest, NonceConnected, NonceRefused,
         NonceHWaitKeyNonceHDest, NonceHWaitNonceHDest, NonceHWaitNonce2HInit,
         NonceHIgnored, AlertReceived, HandlerFinish, Verdict, Refuse, StoreThen,
         StoreAndGoOn, StoreOnly, Store, Die
  <2>3. ASSUME NEW p \in Peer, NEW t \in Thread, InitStep(p, t) PROVE alive' \subseteq alive
    BY <2>3 DEF InitStep, InitWithoutSession, InitSuppressed, InitBegin, InitSendKey,
         InitSendNonce, InitSetStatus, Die
  <2>4. ASSUME NEW p \in Peer, Environment(p) PROVE alive' \subseteq alive
    BY <2>1, <2>4 DEF NothingLost, Environment, Lose, Duplicate, Crash, Restart, Die
  <2>5. ASSUME NEW p \in Peer, AppCallsInitSession(p) PROVE alive' \subseteq alive
    BY <2>5 DEF AppCallsInitSession
  <2> QED
    BY <2>1, <2>2, <2>3, <2>4, <2>5 DEF Next, vars
<1>2. EachLearns
  BY <1>1 DEF NonceInv
<1>3. CASE UNCHANGED vars
  BY <1>2, <1>3 DEF vars, EachLearns, Learns, Late, Announcing
<1>4. ASSUME NEW p \in Peer, AppCallsInitSession(p) PROVE EachLearns'
  <2>1. pc[p]["app"] = "idle" /\ pc' = [pc EXCEPT ![p]["app"] = "init"]
        /\ UNCHANGED <<sess, next, net>>
    BY <1>4 DEF AppCallsInitSession, Goto
  <2>2. \A u \in Peer : (Late(u)' <=> Late(u)) /\ (Announcing(u) => Announcing(u)')
    BY <2>1 DEF IInv, TypeOK, Late, Announcing, Thread
  <2> QED
    BY <1>2, <2>1, <2>2, QuietLearns
<1> QED
  BY <1>1, <1>2, <1>3, <1>4, HandleLearns, InitStepLearns, EnvironmentLearns DEF Next

\* As long as nothing is lost and no process is stopped from outside, two peers
\* that end up connected each hold the other's nonce, although sendNonceH runs with
\* a stale remote_nonce, the threads interleave and records come twice.
THEOREM SpecNoncesAgree ==
  ASSUME NothingLost
  PROVE  Spec => []NoncesAgree
<1>1. NonceInv => NoncesAgree
  <2> SUFFICES ASSUME NonceInv, Quiescent, BothConnected, NEW p \in Peer
               PROVE  sess[p].remoteNonce = sess[Other(p)].localNonce
    BY DEF NoncesAgree
  <2> DEFINE q == Other(p)
  <2>1. q \in Peer /\ Other(q) = p
    BY OtherPeer
  <2>2. /\ alive = Peer /\ net[p] = <<>> /\ pc[p]["sip"] = "idle"
        /\ \A t \in Thread : pc[q][t] = "idle"
    BY <2>1 DEF Quiescent, IdleThreads, Thread
  <2>3. Learns(q, p, sess[q].localNonce)
    BY <2>1, <2>2 DEF NonceInv, EachLearns
  <2>4. Late(p) /\ ~Announcing(q) /\ \A n : ~Announced(net[p], n)
    BY <2>2 DEF Late, LateStatus, Announcing, Announced, BothConnected, Connected
  <2> QED
    BY <2>3, <2>4 DEF Learns
<1>2. IInv /\ NonceInv /\ [Next]_vars => NonceInv'
  BY NextNonces
<1> QED
  BY <1>1, <1>2, InitNonces, SpecIInv, PTL DEF Spec
=============================================================================
