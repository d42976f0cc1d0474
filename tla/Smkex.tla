-------------------------------- MODULE Smkex --------------------------------
(***************************************************************************)
(* The SMKEX handshake of two buddies, as src/smkex/src/Smkex.cpp runs it. *)
(*                                                                         *)
(* Each peer holds one SmkexSessionInfo about the other.  Two of its       *)
(* threads touch it without a lock: the application's thread, which calls  *)
(* initSession, and the pjsip worker thread, which runs                    *)
(* processSmkexMessageSip for each record received (and, on an alert,      *)
(* initSession again).  A handler is one step up to its last assignment to *)
(* "status", which is a step of its own; initSession is one step per send. *)
(*                                                                         *)
(* Keys and nonces are terms: only their equality matters.  What a hash of *)
(* them says is left open (see Verdict).                                   *)
(***************************************************************************)
EXTENDS Integers, Sequences

CONSTANTS
  A, B,         \* the two buddies
  Registered,   \* peers whose application adds the session before any call
  Initiators,   \* peers whose application calls initSession
  NonceId,      \* names for the nonces a peer draws
  Preempt,      \* TRUE: the two threads of a peer may interleave
  MaxInit,      \* bound: calls of initSession by each application
  MaxLoss,      \* bound: records lost on the way
  MaxDup,       \* bound: records delivered twice
  MaxRefusal,   \* bound: times verifyH is false
  MaxRestart    \* bound: restarts of a dead process

Peer == {A, B}

ASSUME PeersDiffer == A # B
ASSUME ConstantsOK ==
  /\ Registered \subseteq Peer
  /\ Initiators \subseteq Peer
  /\ 0 \in NonceId /\ NonceId \subseteq Nat
  /\ Preempt \in BOOLEAN
  /\ {MaxInit, MaxLoss, MaxDup, MaxRefusal, MaxRestart} \subseteq Nat

Other(p) == IF p = A THEN B ELSE A
Thread == {"app", "sip"}
Label == {"idle", "init", "sendKey", "sendNonce", "setStatus", "finish"}

Status == {"notConnected", "waitKeyNonceHDest", "waitNonceHDest", "waitKeyDest",
           "waitNonceInit", "waitKeyInit", "waitNonce2HInit", "connected"}

\* Key <<p, i>> is the public key of p's i-th process; <<p, 0>> is whatever
\* the malloc'ed remote_pub_key holds before a key is stored in it.
Key == Peer \X Nat
Nonce == Peer \X {"nonce", "garbage"} \X Nat
Garbage(p) == <<p, "garbage", 0>>

\* The hash behind the nonce of a handshakeNonceH is left out.
Message == [type : {"handshakeKey"}, key : Key]
           \cup [type : {"handshakeNonce"}, nonce : Nonce]
           \cup [type : {"handshakeNonceH"}, nonce : Nonce]
           \cup [type : {"alert"}]

Session == [status : Status, iAmSessionInitiator : BOOLEAN,
            localNonce : Nonce, remoteNonce : Nonce, remoteKey : Key,
            sessionKey : SUBSET Key,
            receivedPtr : BOOLEAN]      \* receivedNonceHValue was assigned

VARIABLES
  sess,      \* peer -> its SmkexSessionInfo about the other peer
  known,     \* peers whose smkexKeychain has the session
  alive,     \* peers whose process runs
  inc,       \* peer -> number of its current process (names its key pair)
  pc,        \* peer -> thread -> where the thread is
  next,      \* peer -> the status its running handler is about to assign
  net,       \* peer -> records on their way to it, in the order sent
  inits, losses, dups, refusals, restarts   \* how much of each bound is used

budgets == <<inits, losses, dups, refusals, restarts>>
vars == <<sess, known, alive, inc, pc, next, net, budgets>>

LocalKey(p) == <<p, inc[p]>>

(***************************************************************************)
(* The constructor of SmkexSessionInfo.                                    *)
(***************************************************************************)
NewSession(p, i) ==
  [status |-> "notConnected", iAmSessionInitiator |-> FALSE,
   localNonce |-> <<p, "nonce", i>>, remoteNonce |-> Garbage(p),
   remoteKey |-> <<Other(p), 0>>, sessionKey |-> {},
   receivedPtr |-> FALSE]

IdleThreads == [t \in Thread |-> "idle"]

Init ==
  /\ sess = [p \in Peer |-> NewSession(p, 0)]
  /\ known = Registered
  /\ alive = Peer
  /\ inc = [p \in Peer |-> 1]
  /\ pc = [p \in Peer |-> IdleThreads]
  /\ next = [p \in Peer |-> "notConnected"]
  /\ net = [p \in Peer |-> <<>>]
  /\ inits = [p \in Peer |-> 0]
  /\ losses = 0 /\ dups = 0 /\ refusals = 0 /\ restarts = 0

-----------------------------------------------------------------------------
\* Thread t of p may take a step.
CanRun(p, t) ==
  /\ p \in alive
  /\ Preempt \/ \A u \in Thread \ {t} : pc[p][u] = "idle"

Goto(p, t, label) == pc' = [pc EXCEPT ![p][t] = label]

\* p hands the records of out to its outgoing queue.
Send(p, out) == net' = [net EXCEPT ![Other(p)] = @ \o out]

\* exit(1) or a crash: the process is gone, and so is all it had queued.
Die(p) ==
  /\ alive' = alive \ {p}
  /\ pc' = [pc EXCEPT ![p] = IdleThreads]
  /\ net' = [net EXCEPT ![Other(p)] = <<>>]
  /\ UNCHANGED <<sess, known, inc, next, budgets>>

KeyRecord(p) == [type |-> "handshakeKey", key |-> LocalKey(p)]
NonceRecord(p) == [type |-> "handshakeNonce", nonce |-> sess[p].localNonce]
Alert == [type |-> "alert"]

\* sendNonceH: local_nonce and a hash.
NonceHRecord(s) == [type |-> "handshakeNonceH", nonce |-> s.localNonce]

\* computeAndStoreSessionKey: ECDH of the own private and the remote public key.
WithSessionKey(p, s) == [s EXCEPT !.sessionKey = {LocalKey(p), s.remoteKey}]

-----------------------------------------------------------------------------
(***************************************************************************)
(* initSession, run by the application or, after an alert, by the handler. *)
(***************************************************************************)
\* Nonces of p that something still refers to.
NonceInUse(p, n) ==
  \/ sess[p].localNonce = n \/ sess[Other(p)].remoteNonce = n
  \/ \E i \in DOMAIN net[Other(p)] :
       LET m == net[Other(p)][i]
       IN  m.type \in {"handshakeNonce", "handshakeNonceH"} /\ m.nonce = n

\* RAND_bytes draws a nonce nobody holds; the first free name stands for it.
FreshId(p, i) ==
  /\ ~NonceInUse(p, <<p, "nonce", i>>)
  /\ \A j \in NonceId : j < i => NonceInUse(p, <<p, "nonce", j>>)

AppCallsInitSession(p) ==
  /\ p \in Initiators /\ inits[p] < MaxInit
  /\ CanRun(p, "app") /\ pc[p]["app"] = "idle"
  /\ inits' = [inits EXCEPT ![p] = @ + 1]
  /\ Goto(p, "app", "init")
  /\ UNCHANGED <<sess, known, alive, inc, next, net, losses, dups, refusals, restarts>>

\* Without a session the record is of type "handshake": printRecord exits.
InitWithoutSession(p, t) ==
  /\ CanRun(p, t) /\ pc[p][t] = "init"
  /\ p \notin known
  /\ Die(p)

InitSuppressed(p, t) ==
  /\ CanRun(p, t) /\ pc[p][t] = "init"
  /\ p \in known /\ sess[p].status = "waitKeyNonceHDest"
  /\ sess' = [sess EXCEPT ![p].iAmSessionInitiator = TRUE]
  /\ Goto(p, t, "idle")
  /\ UNCHANGED <<known, alive, inc, next, net, budgets>>

InitBegin(p, t) ==
  /\ CanRun(p, t) /\ pc[p][t] = "init"
  /\ p \in known /\ sess[p].status # "waitKeyNonceHDest"
  /\ \E i \in NonceId :
       /\ FreshId(p, i)
       /\ sess' = [sess EXCEPT ![p].iAmSessionInitiator = TRUE,
                               ![p].localNonce = <<p, "nonce", i>>]
  /\ Goto(p, t, "sendKey")
  /\ UNCHANGED <<known, alive, inc, next, net, budgets>>

InitSendKey(p, t) ==
  /\ CanRun(p, t) /\ pc[p][t] = "sendKey"
  /\ Send(p, <<KeyRecord(p)>>)
  /\ Goto(p, t, "sendNonce")
  /\ UNCHANGED <<sess, known, alive, inc, next, budgets>>

InitSendNonce(p, t) ==
  /\ CanRun(p, t) /\ pc[p][t] = "sendNonce"
  /\ Send(p, <<NonceRecord(p)>>)
  /\ Goto(p, t, "setStatus")
  /\ UNCHANGED <<sess, known, alive, inc, next, budgets>>

\* Only now, after both sends, does the status say that a reply is awaited.
InitSetStatus(p, t) ==
  /\ CanRun(p, t) /\ pc[p][t] = "setStatus"
  /\ sess' = [sess EXCEPT ![p].status = "waitKeyNonceHDest"]
  /\ Goto(p, t, "idle")
  /\ UNCHANGED <<known, alive, inc, next, net, budgets>>

-----------------------------------------------------------------------------
(***************************************************************************)
(* processSmkexMessageSip.                                                 *)
(***************************************************************************)
\* The next record for p has the given type and finds p in a status of st.
Receives(p, type, st) ==
  /\ CanRun(p, "sip") /\ pc[p]["sip"] = "idle"
  /\ net[p] # <<>> /\ Head(net[p]).type = type
  /\ sess[p].status \in st

\* The session becomes s, out is sent, and the status stays as it is.
Store(p, s, out) ==
  /\ sess' = [sess EXCEPT ![p] = s]
  /\ known' = known \cup {p}
  /\ net' = [net EXCEPT ![p] = Tail(@), ![Other(p)] = @ \o out]
  /\ UNCHANGED <<alive, inc, inits, losses, dups, restarts>>

\* The same, and the handler goes on to assign status st.
StoreAndGoOn(p, s, out, st) ==
  /\ Store(p, s, out)
  /\ next' = [next EXCEPT ![p] = st]
  /\ Goto(p, "sip", "finish")

StoreThen(p, s, out, st) == StoreAndGoOn(p, s, out, st) /\ UNCHANGED refusals

StoreOnly(p, s, out) == Store(p, s, out) /\ UNCHANGED <<pc, next, refusals>>

HandlerFinish(p) ==
  /\ CanRun(p, "sip") /\ pc[p]["sip"] = "finish"
  /\ sess' = [sess EXCEPT ![p].status = next[p]]
  /\ Goto(p, "sip", "idle")
  /\ UNCHANGED <<known, alive, inc, next, net, budgets>>

\* Mutant of Refuse: the buddy is not told.
RefuseSilently(p, s, out) ==
  /\ refusals < MaxRefusal /\ refusals' = refusals + 1
  /\ StoreAndGoOn(p, s, out, "notConnected")

\* verifyH is false: an alert and back to notConnected.
Refuse(p, s, out) ==
  /\ refusals < MaxRefusal /\ refusals' = refusals + 1
  /\ StoreAndGoOn(p, s, Append(out, Alert), "notConnected")

\* verifyH returns what strncmp makes of two hashes, each of strlen() bytes of
\* binary keys and nonces, one of them with local_nonce2 in place of the nonce
\* that was sent.  A zero byte cuts a nonce short, the lack of one lets the hash
\* run on into whatever lies behind the buffer, and strncmp ends at a zero byte
\* of the hashes.  So the buddy may be accepted or refused each time, whatever
\* the two have stored.
Verdict(p, s, out) ==
  \/ StoreThen(p, s, out, "connected")
  \/ Refuse(p, s, out)

\* Mutant of KeyNotConnected: the responder derives no session key.
KeyNotConnectedUnderived(p) ==
  /\ Receives(p, "handshakeKey", {"notConnected"})
  /\ StoreThen(p, [sess[p] EXCEPT !.remoteKey = Head(net[p]).key],
               <<KeyRecord(p)>>, "waitNonceInit")

KeyNotConnected(p) ==
  /\ Receives(p, "handshakeKey", {"notConnected"})
  /\ LET s == WithSessionKey(p, [sess[p] EXCEPT !.remoteKey = Head(net[p]).key])
     IN  StoreThen(p, s, <<KeyRecord(p)>>, "waitNonceInit")

\* Mutant of KeyWaitKeyNonceHDest: the key is derived before it is stored.
KeyDerivedTooEarly(p) ==
  /\ Receives(p, "handshakeKey", {"waitKeyNonceHDest"})
  /\ LET s == [WithSessionKey(p, sess[p]) EXCEPT !.remoteKey = Head(net[p]).key]
     IN  StoreThen(p, s, <<>>, "waitNonceHDest")

KeyWaitKeyNonceHDest(p) ==
  /\ Receives(p, "handshakeKey", {"waitKeyNonceHDest"})
  /\ LET s == WithSessionKey(p, [sess[p] EXCEPT !.remoteKey = Head(net[p]).key])
     IN  StoreThen(p, s, <<>>, "waitNonceHDest")

\* Mutant of KeyWaitKeyDest: no session key is derived on this path.
KeyWaitKeyDestUnderived(p) ==
  /\ Receives(p, "handshakeKey", {"waitKeyDest"})
  /\ LET s == [sess[p] EXCEPT !.remoteKey = Head(net[p]).key]
     IN  Verdict(p, s, <<NonceHRecord(s)>>)

KeyWaitKeyDest(p) ==
  /\ Receives(p, "handshakeKey", {"waitKeyDest"})
  /\ LET s == WithSessionKey(p, [sess[p] EXCEPT !.remoteKey = Head(net[p]).key])
     IN  Verdict(p, s, <<NonceHRecord(s)>>)

\* Mutant of KeyConnected: the session key is exchanged at once.
KeyConnectedRekeys(p) ==
  /\ Receives(p, "handshakeKey", {"connected"})
  /\ LET s == WithSessionKey(p, [sess[p] EXCEPT !.remoteKey = Head(net[p]).key])
     IN  StoreThen(p, s, <<>>, "waitNonceInit")

\* The copy of PUB_KEY_LEN bytes overruns both 65-byte buffers: it may crash.
KeyConnected(p) ==
  /\ Receives(p, "handshakeKey", {"connected"})
  /\ \/ StoreThen(p, [sess[p] EXCEPT !.remoteKey = Head(net[p]).key], <<>>,
                  "waitNonceInit")
     \/ Die(p)

KeyIgnored(p) ==
  /\ Receives(p, "handshakeKey",
              {"waitNonceHDest", "waitNonceInit", "waitKeyInit", "waitNonce2HInit"})
  /\ StoreOnly(p, sess[p], <<>>)

NonceWaitNonceInit(p) ==
  /\ Receives(p, "handshakeNonce", {"waitNonceInit"})
  /\ LET s == [sess[p] EXCEPT !.remoteNonce = Head(net[p]).nonce]
     IN  StoreThen(p, s, <<NonceHRecord(s)>>, "waitNonce2HInit")

\* The record is copied to receivedNonceHValue; a pointer nobody has assigned
\* may crash.
NonceWaitKeyNonceHDest(p) ==
  /\ Receives(p, "handshakeNonce", {"waitKeyNonceHDest"})
  /\ \/ StoreThen(p, [sess[p] EXCEPT !.remoteNonce = Head(net[p]).nonce], <<>>,
                  "waitKeyDest")
     \/ ~sess[p].receivedPtr /\ Die(p)

\* Mutant of NonceConnected: the nonce is copied over the buddy's key.
NonceConnectedStoredAsKey(p) ==
  /\ Receives(p, "handshakeNonce", {"connected"})
  /\ StoreThen(p, [sess[p] EXCEPT !.remoteKey = Head(net[p]).nonce], <<>>,
               "waitKeyInit")

NonceConnected(p) ==
  /\ Receives(p, "handshakeNonce", {"connected"})
  /\ StoreThen(p, [sess[p] EXCEPT !.remoteNonce = Head(net[p]).nonce], <<>>,
               "waitKeyInit")

NonceRefused(p) ==
  /\ Receives(p, "handshakeNonce",
              {"notConnected", "waitNonceHDest", "waitKeyDest", "waitKeyInit",
               "waitNonce2HInit"})
  /\ StoreThen(p, sess[p], <<Alert>>, "notConnected")

\* Every handshakeNonceH is stored before the status is looked at.
WithNonceH(p) == [sess[p] EXCEPT !.receivedPtr = TRUE]

NonceHWaitKeyNonceHDest(p) ==
  /\ Receives(p, "handshakeNonceH", {"waitKeyNonceHDest"})
  /\ StoreOnly(p, [WithNonceH(p) EXCEPT !.remoteNonce = Head(net[p]).nonce], <<>>)

\* Mutant of NonceHWaitNonceHDest: the received nonce is not kept.
NonceHKeepingOldNonce(p) ==
  /\ Receives(p, "handshakeNonceH", {"waitNonceHDest"})
  /\ Verdict(p, WithNonceH(p), <<NonceHRecord(sess[p])>>)

\* The answer is sent before the received nonce replaces remote_nonce.
NonceHWaitNonceHDest(p) ==
  /\ Receives(p, "handshakeNonceH", {"waitNonceHDest"})
  /\ LET s == [WithNonceH(p) EXCEPT !.remoteNonce = Head(net[p]).nonce]
     IN  Verdict(p, s, <<NonceHRecord(sess[p])>>)

NonceHWaitNonce2HInit(p) ==
  /\ Receives(p, "handshakeNonceH", {"waitNonce2HInit"})
  /\ LET s == [WithNonceH(p) EXCEPT !.remoteNonce = Head(net[p]).nonce]
     IN  Verdict(p, s, <<>>)

NonceHIgnored(p) ==
  /\ Receives(p, "handshakeNonceH",
              {"notConnected", "waitKeyDest", "waitNonceInit", "waitKeyInit",
               "connected"})
  /\ StoreOnly(p, WithNonceH(p), <<>>)

\* Mutant of AlertReceived: an alert is answered with an alert.
AlertAnswered(p) ==
  /\ Receives(p, "alert", Status)
  /\ Store(p, [sess[p] EXCEPT !.status = "notConnected"], <<Alert>>)
  /\ IF sess[p].iAmSessionInitiator THEN Goto(p, "sip", "init") ELSE UNCHANGED pc
  /\ UNCHANGED <<next, refusals>>

\* An alert ends the session; the initiator starts a new one at once.
AlertReceived(p) ==
  /\ Receives(p, "alert", Status)
  /\ Store(p, [sess[p] EXCEPT !.status = "notConnected"], <<>>)
  /\ IF sess[p].iAmSessionInitiator THEN Goto(p, "sip", "init") ELSE UNCHANGED pc
  /\ UNCHANGED <<next, refusals>>

-----------------------------------------------------------------------------
(***************************************************************************)
(* Environment: the engine below delivers in order, may give up on a       *)
(* record, and sends one twice when its acknowledgement is lost.           *)
(***************************************************************************)
Lose(p) ==
  /\ net[p] # <<>>
  /\ net' = [net EXCEPT ![p] = Tail(@)]
  /\ IF p \in alive THEN losses < MaxLoss /\ losses' = losses + 1
                    ELSE UNCHANGED losses
  /\ UNCHANGED <<sess, known, alive, inc, pc, next, inits, dups, refusals, restarts>>

Duplicate(p) ==
  /\ p \in alive /\ net[p] # <<>> /\ dups < MaxDup
  /\ net' = [net EXCEPT ![p] = <<Head(@)>> \o @]
  /\ dups' = dups + 1
  /\ UNCHANGED <<sess, known, alive, inc, pc, next, inits, losses, refusals, restarts>>

Crash(p) == p \in alive /\ restarts < MaxRestart /\ Die(p)

\* A new process: nothing of the old one is stored, the key pair is new.
Restart(p) ==
  /\ p \notin alive /\ restarts < MaxRestart
  /\ restarts' = restarts + 1
  /\ alive' = alive \cup {p}
  /\ inc' = [inc EXCEPT ![p] = @ + 1]
  /\ \E i \in NonceId : FreshId(p, i) /\ sess' = [sess EXCEPT ![p] = NewSession(p, i)]
  /\ known' = IF p \in Registered THEN known \cup {p} ELSE known \ {p}
  /\ UNCHANGED <<pc, next, net, inits, losses, dups, refusals>>

-----------------------------------------------------------------------------
InitStep(p, t) ==
  \/ InitWithoutSession(p, t) \/ InitSuppressed(p, t) \/ InitBegin(p, t)
  \/ InitSendKey(p, t) \/ InitSendNonce(p, t) \/ InitSetStatus(p, t)

HandleKey(p) ==
  \/ KeyNotConnected(p) \/ KeyWaitKeyNonceHDest(p) \/ KeyWaitKeyDest(p)
  \/ KeyConnected(p) \/ KeyIgnored(p)

HandleNonce(p) ==
  \/ NonceWaitNonceInit(p) \/ NonceWaitKeyNonceHDest(p)
  \/ NonceConnected(p) \/ NonceRefused(p)

HandleNonceH(p) ==
  \/ NonceHWaitKeyNonceHDest(p) \/ NonceHWaitNonceHDest(p)
  \/ NonceHWaitNonce2HInit(p) \/ NonceHIgnored(p)

Handle(p) ==
  \/ HandleKey(p) \/ HandleNonce(p) \/ HandleNonceH(p)
  \/ AlertReceived(p) \/ HandlerFinish(p)

Environment(p) == Lose(p) \/ Duplicate(p) \/ Crash(p) \/ Restart(p)

Next == \E p \in Peer :
  \/ AppCallsInitSession(p)
  \/ \E t \in Thread : InitStep(p, t)
  \/ Handle(p)
  \/ Environment(p)

Spec == Init /\ [][Next]_vars

\* The scheduler runs both threads of a process; pjsip's worker polls for ever.
Fairness == \A p \in Peer :
  /\ WF_vars(Handle(p))
  /\ \A t \in Thread : WF_vars(InitStep(p, t))

FairSpec == Spec /\ Fairness

-----------------------------------------------------------------------------
(***************************************************************************)
(* Properties.                                                             *)
(***************************************************************************)
\* Every variable has its type; a dead process has no running thread.
TypeOK ==
  /\ sess \in [Peer -> Session]
  /\ known \subseteq Peer /\ alive \subseteq Peer
  /\ inc \in [Peer -> Nat \ {0}]
  /\ pc \in [Peer -> [Thread -> Label]]
  /\ next \in [Peer -> Status]
  /\ net \in [Peer -> Seq(Message)]
  /\ inits \in [Peer -> Nat]
  /\ losses \in Nat /\ dups \in Nat /\ refusals \in Nat /\ restarts \in Nat
  /\ \A p \in Peer : p \notin alive => pc[p] = IdleThreads

Connected(p) == sess[p].status = "connected"
BothConnected == \A p \in Peer : Connected(p)
NobodyConnected == \A p \in Peer : ~Connected(p)

\* No record is on its way and no thread is inside the state machine.
Quiescent ==
  /\ alive = Peer
  /\ \A p \in Peer : net[p] = <<>> /\ pc[p] = IdleThreads

\* k is a session key between the current process of p and a process its
\* buddy has had.
Genuine(p, k) == \E i \in 1 .. inc[Other(p)] : k = {LocalKey(p), <<Other(p), i>>}

\* Whatever is lost, repeated, reordered between threads or restarted, a
\* connected peer holds a session key derived from a key its buddy really
\* sent: no path of the switch reaches "connected" around
\* computeAndStoreSessionKey.
ConnectedHasGenuineKey ==
  \A p \in Peer : Connected(p) => Genuine(p, sess[p].sessionKey)

\* Two processes that live through the handshake cannot connect with
\* different session keys.
KeyAgreement ==
  restarts = 0 =>
    \A p \in Peer : Connected(p) => sess[p].sessionKey = {LocalKey(A), LocalKey(B)}

\* Once a handshake is over on both sides, each holds the other's nonce, even
\* though sendNonceH runs with a stale remote_nonce.
NoncesAgree ==
  Quiescent /\ BothConnected =>
    \A p \in Peer : sess[p].remoteNonce = sess[Other(p)].localNonce

\* No peer is connected to one that holds no session key at all.
PeerHasKey == \A p \in Peer : Connected(p) => sess[Other(p)].sessionKey # {}

\* Alerts, the handshakes they restart and the answers to keys do not pile up
\* records: however long colliding initiators go on restarting each other, what
\* is on its way is bounded by the calls of initSession, the repetitions and the
\* refusals.
BacklogBounded ==
  Len(net[A]) + Len(net[B]) <= 3 * (inits[A] + inits[B] + dups + refusals) + 2

\* The worker handles a record before the application's initSession returns.
Overtaken ==
  \E p \in Peer : pc[p]["app"] # "idle" /\ pc[p]["sip"] # "idle"

Initiated == \E p \in Peer : inits[p] > 0

\* A handshake that only one application starts, and in which the worker does
\* not overtake initSession, comes to the same end on both sides: connected for
\* good, also when a record is delivered twice and the alert it causes makes the
\* initiator start again, or, once one refused the other's hash, neither is.
HandshakeSettles ==
  [](~Overtaken /\ \E p \in Peer : inits[p] = 0) =>
    (Initiated ~> \/ []BothConnected
                  \/ refusals > 0 /\ []NobodyConnected)

\* Smkex is an implementation of SessionKeys.
SK == INSTANCE SessionKeys WITH
        gen <- inc,
        key <- [p \in Peer |-> sess[p].sessionKey],
        up <- {p \in Peer : Connected(p)}
ImplementsSessionKeys == SK!Spec

-----------------------------------------------------------------------------
(***************************************************************************)
(* What the documentation says and the code does not do.                   *)
(***************************************************************************)
\* README.md:38, the two parties "perform an authenticated key exchange": once
\* it is over on both sides they hold one key.
ConnectedShareKey ==
  Quiescent /\ BothConnected => sess[A].sessionKey = sess[B].sessionKey

\* Smkex.h:128, initSession "changes state to waitKeyNonceHDest" to wait for the
\* answers, and README.md:38: a key exchange that is started is performed, when
\* nothing is lost, repeated, refused or restarted.
KeyExchangeIsPerformed == Initiated ~> BothConnected
=============================================================================
